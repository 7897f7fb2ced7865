---------------------------- MODULE DeviceProofs ----------------------------
(***************************************************************************)
(* Theorems about module DeviceFlow, for every set of logins, codes,       *)
(* accounts and browsers, every lifetime and interval, any number of       *)
(* repeated polls, and whether or not they overlap.                        *)
(***************************************************************************)
EXTENDS DeviceFlow, TLAPS

\* The two maps, and the codes on the terminals, which are all different.
CodesInv ==
    /\ MapsAgree
    /\ \A l \in Login : Exists(l) => shown[l] # NoCode
    /\ \A l, k \in Login : shown[l] # NoCode /\ shown[l] = shown[k] => l = k
    /\ \A l \in Login : cli[l].pc = "new" => shown[l] = NoCode

\* An approved request of l was approved by the person it names.
Approved(l, r) == r.approved => <<l, r.account>> \in approvals

RequestsInv == \A l \in Login : Approved(l, requests[l])

\* So was every copy of it that a poll holds; one that leads to a token is
\* approved, and one that will be written back is of a request.
PollsInv ==
    \A l \in Login, who \in Poller :
        LET p == poll[l, who]
        IN /\ Approved(l, p.r)
           /\ p.pc \in {"redeem", "issue", "clear"} => p.r.approved
           /\ p.pc \in {"slow", "pending", "redeem"} => p.r.polled # 0

\* A person decides about the login whose code they typed.
BrowserInv ==
    \A b \in Browser : browser[b].pc = "store" =>
        LET d == browser[b]
        IN /\ d.login \in Login /\ d.typed = d.login
           /\ d.r.approved \/ d.r.denied
           /\ d.r.approved => d.r.account \in Account

DeviceInv ==
    /\ TypeOK /\ CodesInv /\ RequestsInv /\ PollsInv /\ BrowserInv
    /\ EnrolledAsApproved

-----------------------------------------------------------------------------
LEMMA NothingTyped ==
    /\ NoRequest \in Request /\ ~NoRequest.approved /\ NoRequest.polled = 0
    /\ ~NoRequest.denied /\ NoRequest.expires = 0
    /\ NoPoll \in Poll /\ NoPoll.r = NoRequest /\ NoPoll.pc = "none"
    /\ NoDecision \in Decision /\ NoDecision.pc = "none"
<1>1. NoRequest \in Request /\ ~NoRequest.approved /\ NoRequest.polled = 0
      /\ ~NoRequest.denied /\ NoRequest.expires = 0
  BY DeviceAssumption DEF NoRequest, Request
<1> QED
  BY <1>1 DEF NoPoll, Poll, NoDecision, Decision

LEMMA InitInv == Init => DeviceInv
<1> SUFFICES ASSUME Init PROVE DeviceInv
  OBVIOUS
<1>1. TypeOK
  BY NothingTyped, DeviceAssumption DEF Init, TypeOK, Loop, Time
<1>2. CodesInv
  BY DeviceAssumption DEF Init, CodesInv, MapsAgree, Exists
<1>3. RequestsInv /\ PollsInv
  BY NothingTyped DEF Init, RequestsInv, PollsInv, Approved
<1>4. BrowserInv /\ EnrolledAsApproved
  BY NothingTyped DEF Init, BrowserInv, EnrolledAsApproved
<1> QED
  BY <1>1, <1>2, <1>3, <1>4 DEF DeviceInv

\* What an answer leaves of the poll and of the login's loop.
LEMMA AnswerLeaves ==
    ASSUME DeviceInv, NEW l \in Login, NEW who \in Poller, NEW answer,
           Answer(l, who, answer), approvals \subseteq approvals'
    PROVE  /\ poll' \in [Login \X Poller -> Poll]
           /\ cli' \in [Login -> Loop]
           /\ \A k \in Login : cli'[k].pc = "new" => cli[k].pc = "new"
           /\ PollsInv'
<1> USE DEF DeviceInv
<1>1. poll' = [poll EXCEPT ![<<l, who>>] = NoPoll]
  BY DEF Answer
<1>2. poll' \in [Login \X Poller -> Poll]
  BY <1>1, NothingTyped DEF TypeOK
<1>3. \A k \in Login, o \in Poller :
         poll'[k, o] = IF k = l /\ o = who THEN NoPoll ELSE poll[k, o]
  BY <1>1 DEF TypeOK
<1>4. PollsInv'
  BY <1>3, NothingTyped DEF PollsInv, Approved
<1>5. cli \in [Login -> Loop] /\ now \in Nat
  BY DEF TypeOK, Time
<1>6. PICK c \in Loop : c.pc # "new" /\ (cli' = cli \/ cli' = [cli EXCEPT ![l] = c])
  <2>1. CASE cli' = cli
    <3>1. [pc |-> "wait", next |-> 0, every |-> 0, deadline |-> 0] \in Loop
      BY DEF Loop
    <3> QED
      BY <2>1, <3>1
  <2>2. CASE cli' # cli
    <3> DEFINE old == cli[l]
    <3>1. old \in Loop
      BY <1>5
    <3>2. CASE answer = "token"
      <4>1. cli' = [cli EXCEPT ![l] = [old EXCEPT !.pc = "done"]]
        BY <2>2, <3>2 DEF Answer
      <4>2. [old EXCEPT !.pc = "done"] \in Loop
        BY <3>1 DEF Loop
      <4> QED
        BY <3>1, <4>1, <4>2 DEF Loop
    <3>3. CASE answer = "authorization_pending"
      <4> DEFINE new == [old EXCEPT !.pc = "wait", !.next = now + old.every]
      <4>1. cli' = [cli EXCEPT ![l] = new]
        BY <2>2, <3>3 DEF Answer
      <4>2. new \in Loop /\ new.pc = "wait"
        <5>1. now + old.every \in Nat
          BY <1>5, <3>1 DEF Loop
        <5> HIDE DEF old
        <5> QED
          BY <3>1, <5>1 DEF Loop
      <4> QED
        BY <4>1, <4>2
    <3>4. CASE answer = "slow_down"
      <4> DEFINE new == [old EXCEPT !.pc = "wait", !.next = now + old.every + Interval,
                                    !.every = old.every + Interval]
      <4>1. cli' = [cli EXCEPT ![l] = new]
        BY <2>2, <3>4 DEF Answer
      <4>2. new \in Loop /\ new.pc = "wait"
        <5>1. now + old.every + Interval \in Nat /\ old.every + Interval \in Nat
          BY <1>5, <3>1, DeviceAssumption DEF Loop
        <5> HIDE DEF old
        <5> QED
          BY <3>1, <5>1 DEF Loop
      <4> QED
        BY <4>1, <4>2
    <3>5. CASE answer \notin {"token", "authorization_pending", "slow_down"}
      <4>1. cli' = [cli EXCEPT ![l] = [old EXCEPT !.pc = "failed"]]
        BY <2>2, <3>5 DEF Answer
      <4>2. [old EXCEPT !.pc = "failed"] \in Loop
        BY <3>1 DEF Loop
      <4> QED
        BY <3>1, <4>1, <4>2 DEF Loop
    <3> QED
      BY <3>2, <3>3, <3>4, <3>5
  <2> QED
    BY <2>1, <2>2
<1>7. /\ cli' \in [Login -> Loop]
      /\ \A k \in Login : cli'[k].pc = "new" => cli[k].pc = "new"
  BY <1>5, <1>6
<1> QED
  BY <1>2, <1>4, <1>7

\* Writing a request back, and removing it, keep the maps in step.
LEMMA UpdateLeaves ==
    ASSUME DeviceInv, NEW l \in Login, NEW r \in Request, r # NoRequest,
           Update(l, r),
           Exists(l) /\ r.approved => <<l, r.account>> \in approvals',
           approvals \subseteq approvals', UNCHANGED <<byUser, shown>>,
           \A k \in Login : cli'[k].pc = "new" => cli[k].pc = "new"
    PROVE  requests' \in [Login -> Request] /\ RequestsInv' /\ CodesInv'
<1> USE DEF DeviceInv
<1>1. \A k \in Login : requests'[k] = IF k = l /\ Exists(l) THEN r ELSE requests[k]
  BY DEF Update, TypeOK
<1>2. requests' \in [Login -> Request]
  BY DEF Update, TypeOK
<1>3. ASSUME NEW k \in Login PROVE Approved(k, requests[k])'
  <2>1. CASE k = l /\ Exists(l)
    BY <1>1, <2>1 DEF Approved
  <2>2. CASE ~(k = l /\ Exists(l))
    BY <1>1, <2>2 DEF RequestsInv, Approved
  <2> QED
    BY <2>1, <2>2
<1>4. \A k \in Login : Exists(k)' <=> Exists(k)
  BY <1>1 DEF Exists
<1>5. CodesInv'
  <2>1. \A c \in UserCode : byUser[c] \in Login \cup {NoLogin}
    BY DEF TypeOK
  <2> QED
    BY <1>4, <2>1 DEF CodesInv, MapsAgree
<1> QED
  BY <1>2, <1>3, <1>5 DEF RequestsInv

LEMMA DeleteLeaves ==
    ASSUME DeviceInv, NEW l \in Login, Delete(l),
           approvals \subseteq approvals', UNCHANGED shown,
           \A k \in Login : cli'[k].pc = "new" => cli[k].pc = "new"
    PROVE  /\ requests' \in [Login -> Request] /\ RequestsInv' /\ CodesInv'
           /\ byUser' \in [UserCode -> Login \cup {NoLogin}]
<1> USE DEF DeviceInv
<1>1. \A k \in Login : requests'[k] = IF k = l THEN NoRequest ELSE requests[k]
  BY DEF Delete, TypeOK
<1>2. requests' \in [Login -> Request] /\ byUser' \in [UserCode -> Login \cup {NoLogin}]
  BY NothingTyped DEF Delete, TypeOK
<1>3. RequestsInv'
  BY <1>1, NothingTyped DEF RequestsInv, Approved
<1>4. \A c \in UserCode : byUser'[c] = IF byUser[c] = l THEN NoLogin ELSE byUser[c]
  BY DEF Delete
<1>5. \A k \in Login : Exists(k)' <=> (Exists(k) /\ k # l)
  BY <1>1 DEF Exists
<1>6. /\ \A c \in UserCode : byUser[c] \in Login \cup {NoLogin}
      /\ \A k \in Login : shown[k] \in UserCode \cup {NoCode}
  BY DEF TypeOK
<1>7. MapsAgree'
  <2>1. ASSUME NEW c \in UserCode, byUser'[c] # NoLogin
        PROVE  Exists(byUser[c])' /\ shown'[byUser'[c]] = c
    <3>1. byUser[c] # l /\ byUser'[c] = byUser[c] /\ byUser[c] \in Login
      BY <1>4, <1>6, <2>1
    <3>2. Exists(byUser[c]) /\ shown[byUser[c]] = c
      BY <2>1, <3>1 DEF CodesInv, MapsAgree
    <3>3. requests'[byUser'[c]] = requests[byUser[c]]
      BY <1>1, <3>1
    <3> QED
      BY <3>1, <3>2, <3>3 DEF Exists
  <2>2. ASSUME NEW k \in Login, Exists(k)' PROVE byUser'[shown'[k]] = k
    <3>1. Exists(k) /\ k # l
      BY <1>5, <2>2
    <3>2. byUser[shown[k]] = k /\ shown[k] \in UserCode
      BY <1>6, <3>1 DEF CodesInv, MapsAgree
    <3> QED
      BY <1>4, <3>1, <3>2
  <2> QED
    BY <2>1, <2>2 DEF MapsAgree
<1>8. CodesInv'
  BY <1>5, <1>7 DEF CodesInv
<1> QED
  BY <1>2, <1>3, <1>8

-----------------------------------------------------------------------------
(* The steps of a poll.                                                    *)

\* Going on with a copy of the request that is still as approved.
LEMMA GoOnLeaves ==
    ASSUME DeviceInv, NEW l \in Login, NEW who \in Poller, NEW r \in Request,
           NEW at \in {"slow", "refuse", "pending", "redeem", "issue", "clear"},
           GoOn(l, who, at, r), approvals \subseteq approvals',
           Approved(l, r),
           at \in {"redeem", "issue", "clear"} => r.approved,
           at \in {"slow", "pending", "redeem"} => r.polled # 0
    PROVE  poll' \in [Login \X Poller -> Poll] /\ PollsInv' /\ UNCHANGED cli
<1> USE DEF DeviceInv
<1> DEFINE p == [poll[l, who] EXCEPT !.pc = at, !.r = r]
<1>1. poll[l, who] \in Poll
  BY DEF TypeOK
<1>2. p \in Poll /\ p.pc = at /\ p.r = r
  BY <1>1 DEF Poll
<1>3. poll' = [poll EXCEPT ![<<l, who>>] = p] /\ UNCHANGED cli
  BY DEF GoOn, TypeOK
<1> HIDE DEF p
<1>4. poll' \in [Login \X Poller -> Poll]
  BY <1>2, <1>3 DEF TypeOK
<1>5. \A k \in Login, o \in Poller :
         poll'[k, o] = IF k = l /\ o = who THEN p ELSE poll[k, o]
  BY <1>3 DEF TypeOK
<1>6. PollsInv'
  BY <1>2, <1>5 DEF PollsInv, Approved
<1> QED
  BY <1>3, <1>4, <1>6

LEMMA ReadStep ==
    ASSUME DeviceInv, NEW l \in Login, NEW who \in Poller, PollRead(l, who)
    PROVE  DeviceInv'
<1> USE DEF DeviceInv
<1> DEFINE r == requests[l]
           seen == [r EXCEPT !.polled = now]
           taken == [seen EXCEPT !.redeemed = TRUE]
<1>1. r \in Request /\ Approved(l, r) /\ now \in 0..MaxTime /\ now # 0
  BY DEF TypeOK, RequestsInv, Time
<1>2. /\ seen \in Request /\ seen.approved = r.approved /\ seen.account = r.account
      /\ seen.polled = now
  BY <1>1 DEF Request
<1>3. /\ taken \in Request /\ taken.approved = r.approved
      /\ taken.account = r.account /\ taken.polled = now
  BY <1>2 DEF Request
<1>4. Approved(l, seen) /\ Approved(l, taken)
  BY <1>1, <1>2, <1>3 DEF Approved
<1>5. \/ \E answer \in {"invalid_grant", "expired_token"} : Answer(l, who, answer)
      \/ GoOn(l, who, "slow", seen) \/ GoOn(l, who, "refuse", seen)
      \/ GoOn(l, who, "pending", seen)
      \/ r.approved /\ GoOn(l, who, "redeem", taken)
  BY DEF PollRead
<1>6. UNCHANGED <<now, requests, byUser, shown, browser, tokens, approvals,
                  faults, replays>>
  BY DEF PollRead
<1> HIDE DEF r, seen, taken
<1>7. /\ poll' \in [Login \X Poller -> Poll] /\ cli' \in [Login -> Loop]
      /\ \A k \in Login : cli'[k].pc = "new" => cli[k].pc = "new"
      /\ PollsInv'
  <2>1. cli \in [Login -> Loop]
    BY DEF TypeOK
  <2>2. CASE \E answer \in {"invalid_grant", "expired_token"} : Answer(l, who, answer)
    BY <1>6, <2>2, AnswerLeaves
  <2>3. CASE GoOn(l, who, "slow", seen) \/ GoOn(l, who, "refuse", seen)
                \/ GoOn(l, who, "pending", seen)
    BY <1>1, <1>2, <1>4, <1>6, <2>1, <2>3, GoOnLeaves
  <2>4. CASE r.approved /\ GoOn(l, who, "redeem", taken)
    BY <1>1, <1>3, <1>4, <1>6, <2>1, <2>4, GoOnLeaves
  <2> QED
    BY <1>5, <2>2, <2>3, <2>4
<1>8. TypeOK'
  BY <1>6, <1>7 DEF TypeOK
<1>9. CodesInv' /\ RequestsInv' /\ BrowserInv' /\ EnrolledAsApproved'
  BY <1>6, <1>7 DEF CodesInv, MapsAgree, Exists, RequestsInv, Approved, BrowserInv,
                    EnrolledAsApproved
<1> QED
  BY <1>7, <1>8, <1>9

\* Writing back when the login polled, and taking the request.
LEMMA WriteBackSteps ==
    ASSUME DeviceInv, NEW l \in Login, NEW who \in Poller,
           PollWait(l, who) \/ PollRedeem(l, who)
    PROVE  DeviceInv'
<1> USE DEF DeviceInv
<1> DEFINE r == poll[l, who].r
<1>1. r \in Request /\ Approved(l, r) /\ r # NoRequest
  <2>1. poll[l, who] \in Poll
    BY DEF TypeOK
  <2>2. poll[l, who].pc \in {"slow", "pending", "redeem"}
    BY DEF PollWait, PollRedeem
  <2> QED
    BY <2>1, <2>2, NothingTyped DEF PollsInv, Poll
<1>2. /\ Update(l, r)
      /\ UNCHANGED <<now, byUser, shown, browser, tokens, approvals, faults,
                     replays>>
  BY DEF PollWait, PollRedeem
<1>3. \/ \E answer \in {"slow_down", "authorization_pending", "invalid_grant"} :
            Answer(l, who, answer)
      \/ r.approved /\ GoOn(l, who, "issue", r)
  <2>1. CASE PollWait(l, who)
    BY <2>1 DEF PollWait
  <2>2. CASE PollRedeem(l, who)
    <3>1. r.approved
      BY <2>2 DEF PollRedeem, PollsInv
    <3> QED
      BY <2>2, <3>1 DEF PollRedeem
  <2> QED
    BY <2>1, <2>2
<1> HIDE DEF r
<1>4. /\ poll' \in [Login \X Poller -> Poll] /\ cli' \in [Login -> Loop]
      /\ \A k \in Login : cli'[k].pc = "new" => cli[k].pc = "new"
      /\ PollsInv'
  <2>1. cli \in [Login -> Loop]
    BY DEF TypeOK
  <2>2. CASE \E answer \in {"slow_down", "authorization_pending", "invalid_grant"} :
                Answer(l, who, answer)
    BY <1>2, <2>2, AnswerLeaves
  <2>3. CASE r.approved /\ GoOn(l, who, "issue", r)
    BY <1>1, <1>2, <2>1, <2>3, GoOnLeaves
  <2> QED
    BY <1>3, <2>2, <2>3
<1>5. r.approved => <<l, r.account>> \in approvals'
  BY <1>1, <1>2 DEF Approved
<1>6. requests' \in [Login -> Request] /\ RequestsInv' /\ CodesInv'
  BY <1>1, <1>2, <1>4, <1>5, UpdateLeaves
<1>7. TypeOK'
  BY <1>2, <1>4, <1>6 DEF TypeOK
<1>8. BrowserInv' /\ EnrolledAsApproved'
  BY <1>2 DEF BrowserInv, EnrolledAsApproved
<1> QED
  BY <1>4, <1>6, <1>7, <1>8

\* Removing a request that was refused or redeemed.
LEMMA RemoveSteps ==
    ASSUME DeviceInv, NEW l \in Login, NEW who \in Poller,
           PollRefuse(l, who) \/ PollClear(l, who)
    PROVE  DeviceInv'
<1> USE DEF DeviceInv
<1>1. /\ Delete(l) /\ \E answer \in {"access_denied", "token"} : Answer(l, who, answer)
      /\ UNCHANGED <<now, shown, browser, tokens, approvals, faults, replays>>
  BY DEF PollRefuse, PollClear
<1>2. /\ poll' \in [Login \X Poller -> Poll] /\ cli' \in [Login -> Loop]
      /\ \A k \in Login : cli'[k].pc = "new" => cli[k].pc = "new"
      /\ PollsInv'
  BY <1>1, AnswerLeaves
<1>3. /\ requests' \in [Login -> Request] /\ RequestsInv' /\ CodesInv'
      /\ byUser' \in [UserCode -> Login \cup {NoLogin}]
  BY <1>1, <1>2, DeleteLeaves
<1>4. TypeOK'
  BY <1>1, <1>2, <1>3 DEF TypeOK
<1>5. BrowserInv' /\ EnrolledAsApproved'
  BY <1>1 DEF BrowserInv, EnrolledAsApproved
<1> QED
  BY <1>2, <1>3, <1>4, <1>5

\* A token is issued from an approved copy.
LEMMA IssueStep ==
    ASSUME DeviceInv, NEW l \in Login, NEW who \in Poller, PollIssue(l, who)
    PROVE  DeviceInv'
<1> USE DEF DeviceInv
<1> DEFINE r == poll[l, who].r
           token == [login |-> l, account |-> r.account]
<1>1. r \in Request /\ Approved(l, r) /\ r.approved
  BY DEF TypeOK, Poll, PollIssue, PollsInv
<1>2. <<l, r.account>> \in approvals /\ r.account \in Account
  BY <1>1 DEF Approved, TypeOK
<1>3. /\ tokens' = Append(tokens, token) /\ GoOn(l, who, "clear", r)
      /\ UNCHANGED <<now, requests, byUser, shown, browser, approvals, faults,
                     replays>>
  BY DEF PollIssue
<1>4. token \in [login : Login, account : Account] /\ token.login = l
      /\ token.account = r.account
  BY <1>2
<1> HIDE DEF r, token
<1>5. poll' \in [Login \X Poller -> Poll] /\ PollsInv' /\ UNCHANGED cli
  BY <1>1, <1>3, GoOnLeaves
<1>6. /\ tokens' \in Seq([login : Login, account : Account])
      /\ DOMAIN tokens' = DOMAIN tokens \cup {Len(tokens) + 1}
      /\ tokens'[Len(tokens) + 1] = token
      /\ \A i \in DOMAIN tokens : tokens'[i] = tokens[i]
  BY <1>3, <1>4 DEF TypeOK
<1>7. EnrolledAsApproved'
  BY <1>2, <1>3, <1>4, <1>6 DEF EnrolledAsApproved
<1>8. TypeOK'
  BY <1>3, <1>5, <1>6 DEF TypeOK
<1>9. CodesInv' /\ RequestsInv' /\ BrowserInv'
  BY <1>3, <1>5 DEF CodesInv, MapsAgree, Exists, RequestsInv, Approved, BrowserInv
<1> QED
  BY <1>5, <1>7, <1>8, <1>9

-----------------------------------------------------------------------------
(* The login's side, and the browser's.                                    *)

\* A code is drawn that no terminal shows, for a request of its own.
LEMMA StartStep ==
    ASSUME DeviceInv, NEW l \in Login, NEW c \in UserCode, Start(l, c)
    PROVE  DeviceInv'
<1> USE DEF DeviceInv
<1> DEFINE r == [NoRequest EXCEPT !.expires = now + Lifetime]
           loop == [pc |-> "wait", next |-> now + Interval, every |-> Interval,
                    deadline |-> now + Lifetime]
<1>1. now \in Nat /\ now # 0 /\ Lifetime \in Nat /\ Interval \in Nat
  BY DeviceAssumption DEF TypeOK, Time
<1>2. r \in Request /\ r # NoRequest /\ ~r.approved
  BY <1>1, NothingTyped DEF Request
<1>3. loop \in Loop /\ loop.pc = "wait"
  BY <1>1 DEF Loop
<1> HIDE DEF r, loop
<1>4. /\ requests' = [requests EXCEPT ![l] = r]
      /\ byUser' = [byUser EXCEPT ![c] = l]
      /\ shown' = [shown EXCEPT ![l] = c]
      /\ cli' = [cli EXCEPT ![l] = loop]
      /\ UNCHANGED <<now, poll, browser, tokens, approvals, faults, replays>>
      /\ cli[l].pc = "new" /\ byUser[c] = NoLogin /\ \A k \in Login : shown[k] # c
  BY DEF Start, Creatable, Retired, r, loop
<1>5. TypeOK'
  BY <1>2, <1>3, <1>4 DEF TypeOK
<1>6. /\ \A k \in Login : requests'[k] = IF k = l THEN r ELSE requests[k]
      /\ \A d \in UserCode : byUser'[d] = IF d = c THEN l ELSE byUser[d]
      /\ \A k \in Login : shown'[k] = IF k = l THEN c ELSE shown[k]
      /\ \A k \in Login : cli'[k] = IF k = l THEN loop ELSE cli[k]
      /\ \A d \in UserCode : byUser[d] \in Login \cup {NoLogin}
      /\ \A k \in Login : shown[k] \in UserCode \cup {NoCode}
      /\ c # NoCode /\ l # NoLogin /\ shown[l] = NoCode
  BY <1>4, DeviceAssumption DEF TypeOK, CodesInv
<1>7. \A k \in Login : Exists(k)' <=> (Exists(k) \/ k = l)
  BY <1>2, <1>6 DEF Exists
<1>8. MapsAgree'
  <2>1. ASSUME NEW d \in UserCode, byUser'[d] # NoLogin
        PROVE  Exists(byUser[d])' /\ shown'[byUser'[d]] = d
    <3>1. CASE d = c
      BY <1>6, <1>7, <3>1, <1>2 DEF Exists
    <3>2. CASE d # c
      <4>1. byUser'[d] = byUser[d] /\ byUser[d] \in Login
        BY <1>6, <2>1, <3>2
      <4>2. Exists(byUser[d]) /\ shown[byUser[d]] = d
        BY <2>1, <4>1 DEF CodesInv, MapsAgree
      <4>3. byUser[d] # l
        BY <1>6, <4>2, DeviceAssumption
      <4>4. requests'[byUser'[d]] = requests[byUser[d]]
        BY <1>6, <4>1, <4>3
      <4> QED
        BY <1>6, <4>1, <4>2, <4>3, <4>4 DEF Exists
    <3> QED
      BY <3>1, <3>2
  <2>2. ASSUME NEW k \in Login, Exists(k)' PROVE byUser'[shown'[k]] = k
    <3>1. CASE k = l
      BY <1>6, <3>1
    <3>2. CASE k # l
      <4>1. byUser[shown[k]] = k /\ shown[k] \in UserCode /\ shown[k] # c
        BY <1>4, <1>6, <1>7, <2>2, <3>2 DEF CodesInv, MapsAgree
      <4> QED
        BY <1>6, <3>2, <4>1
    <3> QED
      BY <3>1, <3>2
  <2> QED
    BY <2>1, <2>2 DEF MapsAgree
<1>9. CodesInv'
  BY <1>3, <1>4, <1>6, <1>7, <1>8 DEF CodesInv
<1>10. RequestsInv'
  BY <1>2, <1>4, <1>6 DEF RequestsInv, Approved
<1>11. PollsInv' /\ EnrolledAsApproved'
  BY <1>4 DEF PollsInv, Approved, EnrolledAsApproved
<1>12. BrowserInv'
  BY <1>4 DEF BrowserInv
<1> QED
  BY <1>5, <1>9, <1>10, <1>11, <1>12

\* What the login does, a repeated poll, and the clock.
LEMMA LoginSteps ==
    ASSUME DeviceInv,
           \/ Tick
           \/ \E l \in Login : LoginStep(l) \/ ConnectionLost(l) \/ Replay(l)
    PROVE  DeviceInv'
<1> USE DEF DeviceInv, LoginStep
<1>1. UNCHANGED <<requests, byUser, shown, browser, tokens, approvals>>
  BY DEF Tick, AskForToken, DeadlinePassed, ConnectionLost, Replay
<1>2. now' \in Time /\ faults' \in 0..MaxFaults /\ replays' \in 0..MaxReplays
  <2> DEFINE Counts ==
             /\ UNCHANGED now \/ (now < MaxTime /\ now' = now + 1)
             /\ UNCHANGED faults \/ (faults < MaxFaults /\ faults' = faults + 1)
             /\ UNCHANGED replays \/ (replays < MaxReplays /\ replays' = replays + 1)
  <2>1. Counts
    <3>1. CASE Tick
      BY <3>1 DEF Tick
    <3>2. ASSUME NEW l \in Login, AskForToken(l) \/ DeadlinePassed(l)
          PROVE  Counts
      BY <3>2, Zenon DEF AskForToken, DeadlinePassed
    <3>3. ASSUME NEW l \in Login, ConnectionLost(l) PROVE Counts
      BY <3>3, Zenon DEF ConnectionLost, Fault
    <3>4. ASSUME NEW l \in Login, Replay(l) PROVE Counts
      BY <3>4, Zenon DEF Replay
    <3> QED
      BY <3>1, <3>2, <3>3, <3>4
  <2> QED
    BY <2>1, DeviceAssumption DEF TypeOK, Time
<1> DEFINE PollsCalled ==
           /\ poll' \in [Login \X Poller -> Poll]
           /\ \A l \in Login, who \in Poller :
                 poll'[l, who].r = poll[l, who].r
                    /\ poll'[l, who].pc \in {poll[l, who].pc, "called"}
           LoopsGoOn ==
           /\ cli' \in [Login -> Loop]
           /\ \A k \in Login : cli'[k].pc = "new" => cli[k].pc = "new"
<1>3. PollsCalled
  <2>1. \/ UNCHANGED poll
        \/ \E l \in Login, who \in Poller :
              poll' = [poll EXCEPT ![<<l, who>>].pc = "called"]
    BY DEF Tick, AskForToken, DeadlinePassed, ConnectionLost, Replay, Poller
  <2>2. CASE UNCHANGED poll
    BY <2>2 DEF TypeOK
  <2>3. ASSUME NEW l \in Login, NEW who \in Poller,
               poll' = [poll EXCEPT ![<<l, who>>].pc = "called"]
        PROVE  PollsCalled
    <3> DEFINE p == [poll[l, who] EXCEPT !.pc = "called"]
    <3>1. poll[l, who] \in Poll
      BY DEF TypeOK
    <3>2. p \in Poll /\ p.pc = "called" /\ p.r = poll[l, who].r
      BY <3>1 DEF Poll
    <3>3. poll' = [poll EXCEPT ![<<l, who>>] = p]
      BY <2>3 DEF TypeOK
    <3> HIDE DEF p
    <3> QED
      BY <3>2, <3>3 DEF TypeOK
  <2> QED
    BY <2>1, <2>2, <2>3
<1>4. LoopsGoOn
  <2>1. \/ UNCHANGED cli
        \/ \E l \in Login, pc \in {"asked", "failed"} :
              cli' = [cli EXCEPT ![l].pc = pc]
    BY DEF Tick, AskForToken, DeadlinePassed, ConnectionLost, Replay
  <2>2. CASE UNCHANGED cli
    BY <2>2 DEF TypeOK
  <2>3. ASSUME NEW l \in Login, NEW pc \in {"asked", "failed"},
               cli' = [cli EXCEPT ![l].pc = pc]
        PROVE  LoopsGoOn
    <3> DEFINE c == [cli[l] EXCEPT !.pc = pc]
    <3>1. cli[l] \in Loop
      BY DEF TypeOK
    <3>2. c \in Loop /\ c.pc # "new"
      BY <3>1 DEF Loop
    <3>3. cli' = [cli EXCEPT ![l] = c]
      BY <2>3 DEF TypeOK
    <3> HIDE DEF c
    <3> QED
      BY <3>2, <3>3 DEF TypeOK
  <2> QED
    BY <2>1, <2>2, <2>3
<1>5. TypeOK'
  BY <1>1, <1>2, <1>3, <1>4 DEF TypeOK
<1>6. CodesInv'
  BY <1>1, <1>4 DEF CodesInv, MapsAgree, Exists
<1>7. PollsInv'
  BY <1>1, <1>3 DEF PollsInv, Approved
<1>8. RequestsInv' /\ BrowserInv' /\ EnrolledAsApproved'
  BY <1>1 DEF RequestsInv, Approved, BrowserInv, EnrolledAsApproved
<1> QED
  BY <1>5, <1>6, <1>7, <1>8

\* The code typed stands for the login whose terminal shows it.
LEMMA BrowserReadStep ==
    ASSUME DeviceInv, NEW b \in Browser, NEW typed \in Login,
           NEW person \in Account \cup {Nobody}, BrowserRead(b, typed, person)
    PROVE  DeviceInv'
<1> USE DEF DeviceInv
<1> DEFINE l == byUser[shown[typed]]
           r == Decided(requests[l], person)
           d == [pc |-> "store", login |-> l, typed |-> typed, r |-> r]
<1>1. shown[typed] \in UserCode /\ l \in Login
  BY DEF BrowserRead, TypeOK
<1>2. typed = l
  BY <1>1 DEF BrowserRead, CodesInv, MapsAgree
<1>3. requests[l] \in Request
  BY <1>1 DEF TypeOK
<1>4. /\ r \in Request
      /\ r.approved \/ r.denied
      /\ r.approved => r.account \in Account
  <2>1. ~requests[l].approved
    BY DEF BrowserRead, Pending
  <2> QED
    BY <1>3, <2>1, DeviceAssumption DEF Decided, Request
<1>5. browser' = [browser EXCEPT ![b] = d]
  BY DEF BrowserRead
<1> HIDE DEF r, l
<1>6. d \in Decision /\ d.login = l /\ d.typed = typed /\ d.r = r
  BY <1>1, <1>4 DEF Decision
<1>7. UNCHANGED <<now, requests, byUser, shown, poll, cli, tokens, approvals,
                  faults, replays>>
  BY DEF BrowserRead
<1> HIDE DEF d
<1>8. TypeOK'
  BY <1>5, <1>6, <1>7 DEF TypeOK
<1>9. \A a \in Browser : browser'[a] = IF a = b THEN d ELSE browser[a]
  BY <1>5 DEF TypeOK
<1>10. BrowserInv'
  BY <1>1, <1>2, <1>4, <1>6, <1>9 DEF BrowserInv
<1>11. CodesInv'
  BY <1>7 DEF CodesInv, MapsAgree, Exists
<1>12. RequestsInv' /\ EnrolledAsApproved'
  BY <1>7 DEF RequestsInv, Approved, EnrolledAsApproved
<1>13. PollsInv'
  BY <1>7 DEF PollsInv, Approved
<1> QED
  BY <1>8, <1>10, <1>11, <1>12, <1>13

LEMMA BrowserStoreStep ==
    ASSUME DeviceInv, NEW b \in Browser, BrowserStore(b)
    PROVE  DeviceInv'
<1> USE DEF DeviceInv
<1> DEFINE d == browser[b]
           r == d.r
           l == d.login
<1>1. /\ d.pc = "store" /\ d.typed = l /\ l \in Login /\ r \in Request
      /\ r.approved \/ r.denied
      /\ r.approved => r.account \in Account
  BY DEF BrowserStore, BrowserInv, TypeOK, Decision
<1>2. r # NoRequest
  BY <1>1, NothingTyped
<1>3. /\ Update(l, r)
      /\ browser' = [browser EXCEPT ![b] = NoDecision]
      /\ approvals' = IF Exists(l) /\ r.approved
                      THEN approvals \cup {<<l, r.account>>} ELSE approvals
      /\ UNCHANGED <<now, byUser, shown, poll, cli, tokens, faults, replays>>
  BY <1>1 DEF BrowserStore
<1> HIDE DEF d, r, l
<1>4. /\ approvals \subseteq approvals'
      /\ Exists(l) /\ r.approved => <<l, r.account>> \in approvals'
      /\ approvals' \subseteq Login \X Account
  BY <1>1, <1>3 DEF TypeOK
<1>5. requests' \in [Login -> Request] /\ RequestsInv' /\ CodesInv'
  BY <1>1, <1>2, <1>3, <1>4, UpdateLeaves
<1>6. TypeOK'
  BY <1>3, <1>4, <1>5, NothingTyped DEF TypeOK
<1>7. BrowserInv'
  BY <1>3, NothingTyped DEF BrowserInv, TypeOK
<1>8. PollsInv' /\ EnrolledAsApproved'
  BY <1>3, <1>4 DEF PollsInv, Approved, EnrolledAsApproved
<1> QED
  BY <1>5, <1>6, <1>7, <1>8

LEMMA RestartStep ==
    ASSUME DeviceInv, Restart
    PROVE  DeviceInv'
<1> USE DEF DeviceInv
<1>1. /\ requests' = [l \in Login |-> NoRequest]
      /\ byUser' = [c \in UserCode |-> NoLogin]
      /\ poll' = [w \in Login \X Poller |-> NoPoll]
      /\ browser' = [b \in Browser |-> NoDecision]
      /\ UNCHANGED <<now, shown, tokens, approvals, replays>>
      /\ faults' \in 0..MaxFaults
  BY DeviceAssumption DEF Restart, Fault, TypeOK
<1>2. \A l \in Login : [cli[l] EXCEPT !.pc = "failed"] \in Loop
  BY DEF TypeOK, Loop
<1>3. /\ cli' \in [Login -> Loop]
      /\ \A l \in Login : cli'[l].pc = "new" => cli[l].pc = "new"
  <2>1. \A l \in Login : cli'[l] = cli[l] \/ (cli[l].pc = "asked" /\
           cli'[l] = [cli[l] EXCEPT !.pc = "failed"])
    BY DEF Restart
  <2>2. cli' = [l \in Login |-> cli'[l]]
    BY DEF Restart
  <2>3. \A l \in Login : cli'[l] \in Loop
    BY <1>2, <2>1 DEF TypeOK
  <2>4. \A l \in Login : cli'[l].pc = "new" => cli[l].pc = "new"
    BY <2>1 DEF TypeOK, Loop
  <2> QED
    BY <2>2, <2>3, <2>4
<1>4. TypeOK'
  BY <1>1, <1>3, NothingTyped DEF TypeOK
<1>5. CodesInv'
  BY <1>1, <1>3 DEF CodesInv, MapsAgree, Exists
<1>6. RequestsInv' /\ PollsInv' /\ BrowserInv' /\ EnrolledAsApproved'
  BY <1>1, NothingTyped DEF RequestsInv, PollsInv, Approved, BrowserInv,
                            EnrolledAsApproved
<1> QED
  BY <1>4, <1>5, <1>6

LEMMA StepInv == DeviceInv /\ [Next]_vars => DeviceInv'
<1> SUFFICES ASSUME DeviceInv, [Next]_vars PROVE DeviceInv'
  OBVIOUS
<1>1. ASSUME NEW l \in Login, NEW c \in UserCode, Start(l, c) PROVE DeviceInv'
  BY <1>1, StartStep
<1>2. ASSUME NEW l \in Login, NEW who \in Poller, PollStep(l, who)
      PROVE  DeviceInv'
  BY <1>2, ReadStep, WriteBackSteps, RemoveSteps, IssueStep DEF PollStep
<1>3. CASE Tick \/ \E l \in Login : LoginStep(l) \/ ConnectionLost(l) \/ Replay(l)
  BY <1>3, LoginSteps
<1>4. ASSUME NEW b \in Browser, NEW l \in Login, NEW a \in Account \cup {Nobody},
             BrowserRead(b, l, a)
      PROVE  DeviceInv'
  BY <1>4, BrowserReadStep
<1>5. ASSUME NEW b \in Browser, BrowserStore(b) PROVE DeviceInv'
  BY <1>5, BrowserStoreStep
<1>6. CASE Restart
  BY <1>6, RestartStep
<1>7. CASE UNCHANGED vars
  <2> USE <1>7 DEF vars, DeviceInv
  <2>1. TypeOK'
    BY DEF TypeOK
  <2>2. CodesInv'
    BY DEF CodesInv, MapsAgree, Exists
  <2>3. RequestsInv' /\ EnrolledAsApproved'
    BY DEF RequestsInv, Approved, EnrolledAsApproved
  <2>4. PollsInv'
    BY DEF PollsInv, Approved
  <2>5. BrowserInv'
    BY DEF BrowserInv
  <2> QED
    BY <2>1, <2>2, <2>3, <2>4, <2>5
<1> QED
  BY <1>1, <1>2, <1>3, <1>4, <1>5, <1>6, <1>7 DEF Next

LEMMA Invariance == Spec => []DeviceInv
BY InitInv, StepInv, PTL DEF Spec

-----------------------------------------------------------------------------
\* A token goes to a login whose own code was approved, for an account that
\* approved it, however polls and decisions overlap (device.go:149, :261).
THEOREM TokensAsApproved == Spec => []EnrolledAsApproved
<1>1. DeviceInv => EnrolledAsApproved
  BY DEF DeviceInv
<1> QED
  BY <1>1, Invariance, PTL

\* The two maps of MemoryDevices stay in step (device.go:195).
THEOREM MapsStayInStep == Spec => []MapsAgree
<1>1. DeviceInv => MapsAgree
  BY DEF DeviceInv, CodesInv
<1> QED
  BY <1>1, Invariance, PTL

-----------------------------------------------------------------------------
(* One token per login, for polls handled one at a time.                   *)

Issued(l) == \E i \in DOMAIN tokens : tokens[i].login = l

Handled(l, who) == poll[l, who] # NoPoll

\* One poll at a time, of a login that has started.
SinglePoll ==
    \A l \in Login : /\ ~(Handled(l, "login") /\ Handled(l, "replay"))
                     /\ \A who \in Poller : Handled(l, who) => cli[l].pc # "new"

\* A poll about to issue a token issues the first.
IssuesFirst ==
    \A l \in Login, who \in Poller : poll[l, who].pc = "issue" => ~Issued(l)

\* Once a token is issued the request is gone, or about to be removed by the
\* poll that issued it; and a login starts only once.
IssuedGone ==
    \A l \in Login : Issued(l) =>
        /\ cli[l].pc # "new"
        /\ Exists(l) => \E who \in Poller : poll[l, who].pc = "clear"

IssuedInv == SinglePoll /\ IssuesFirst /\ IssuedGone /\ OneTokenPerLogin

\* A step that issues no token and starts no login, and by which no poll comes to
\* issue one.
LEMMA IssuedStays ==
    ASSUME DeviceInv, IssuedInv, UNCHANGED tokens,
           \A l \in Login : cli'[l].pc = "new" => cli[l].pc = "new",
           \A l \in Login : Exists(l)' => Exists(l),
           \A l \in Login, who \in Poller :
              /\ poll'[l, who] = NoPoll \/ Handled(l, who)
              /\ poll'[l, who].pc = "issue" => poll[l, who].pc = "issue"
              /\ poll[l, who].pc = "clear" =>
                    poll'[l, who].pc = "clear" \/ ~Exists(l)'
    PROVE  IssuedInv'
<1>1. \A l \in Login : Issued(l)' <=> Issued(l)
  BY DEF Issued
<1>2. OneTokenPerLogin'
  BY DEF IssuedInv, OneTokenPerLogin
<1>3. \A l \in Login, who \in Poller : Handled(l, who)' => Handled(l, who)
  BY DEF Handled
<1>4. "login" \in Poller /\ "replay" \in Poller
  BY DEF Poller
<1> QED
  BY <1>1, <1>2, <1>3, <1>4 DEF IssuedInv, SinglePoll, IssuesFirst, IssuedGone

\* An answered poll is over; no other is touched.
LEMMA AnswerEnds ==
    ASSUME DeviceInv, NEW l \in Login, NEW who \in Poller, NEW answer,
           Answer(l, who, answer)
    PROVE  /\ poll'[l, who] = NoPoll
           /\ \A k \in Login, o \in Poller : k # l \/ o # who => poll'[k, o] = poll[k, o]
BY DEF Answer, DeviceInv, TypeOK

LEMMA GoOnMoves ==
    ASSUME DeviceInv, NEW l \in Login, NEW who \in Poller, NEW at, NEW r,
           GoOn(l, who, at, r)
    PROVE  /\ poll'[l, who].pc = at /\ UNCHANGED cli
           /\ \A k \in Login, o \in Poller : k # l \/ o # who => poll'[k, o] = poll[k, o]
BY DEF GoOn, DeviceInv, TypeOK, Poll

\* The server's steps.
LEMMA PollIssued ==
    ASSUME DeviceInv, IssuedInv, NEW l \in Login, NEW who \in Poller, PollStep(l, who)
    PROVE  IssuedInv'
<1>0. /\ cli \in [Login -> Loop] /\ requests \in [Login -> Request]
      /\ poll \in [Login \X Poller -> Poll]
  BY DEF DeviceInv, TypeOK
<1>1. poll[l, who].pc # "none" /\ Handled(l, who)
  BY NothingTyped DEF PollStep, PollRead, PollWait, PollRefuse, PollRedeem, PollIssue, PollClear,
     Handled
<1>2. \A o \in Poller : o # who => poll[l, o] = NoPoll
  <2>1. ASSUME NEW o \in Poller, o # who PROVE ~Handled(l, o)
    <3>1. (o = "login" /\ who = "replay") \/ (o = "replay" /\ who = "login")
      BY <2>1 DEF Poller
    <3>2. ~(Handled(l, "login") /\ Handled(l, "replay"))
      BY DEF IssuedInv, SinglePoll
    <3> QED
      BY <1>1, <3>1, <3>2
  <2> QED
    BY <2>1 DEF Handled
<1>3. ASSUME NEW answer, Answer(l, who, answer), approvals \subseteq approvals', UNCHANGED tokens,
             \A k \in Login : Exists(k)' => Exists(k),
             poll[l, who].pc = "clear" => ~Exists(l)'
      PROVE  IssuedInv'
  <2>1. \A k \in Login : cli'[k].pc = "new" => cli[k].pc = "new"
    BY <1>3, AnswerLeaves
  <2>2. /\ poll'[l, who] = NoPoll
        /\ \A k \in Login, o \in Poller : k # l \/ o # who => poll'[k, o] = poll[k, o]
    BY <1>3, AnswerEnds
  <2> QED
    BY <1>3, <2>1, <2>2, IssuedStays, NothingTyped DEF Handled
<1>4. CASE PollRead(l, who)
  <2>1. UNCHANGED <<requests, tokens, approvals>> /\ poll[l, who].pc = "called"
    BY <1>4 DEF PollRead
  <2>2. CASE \E answer : Answer(l, who, answer)
    BY <1>3, <2>1, <2>2 DEF Exists
  <2>3. ASSUME NEW at \in {"slow", "refuse", "pending", "redeem"}, NEW r, GoOn(l, who, at, r)
        PROVE  IssuedInv'
    <3>1. /\ poll'[l, who].pc = at /\ UNCHANGED cli
          /\ \A k \in Login, o \in Poller : k # l \/ o # who => poll'[k, o] = poll[k, o]
      BY <2>3, GoOnMoves
    <3> QED
      BY <1>1, <2>1, <3>1, IssuedStays DEF Handled, Exists
  <2>4. \/ \E answer : Answer(l, who, answer)
        \/ \E at \in {"slow", "refuse", "pending", "redeem"} : \E r : GoOn(l, who, at, r)
    BY <1>4, Zenon DEF PollRead
  <2> QED
    BY <2>2, <2>3, <2>4
<1>5. CASE PollWait(l, who)
  <2>1. /\ \E answer : Answer(l, who, answer)
        /\ UNCHANGED <<tokens, approvals>> /\ poll[l, who].pc # "clear"
        /\ Update(l, poll[l, who].r)
    BY <1>5 DEF PollWait
  <2>2. \A k \in Login : Exists(k)' => Exists(k)
    BY <1>0, <2>1 DEF Update, Exists
  <2> QED
    BY <1>3, <2>1, <2>2
<1>6. CASE PollRefuse(l, who) \/ PollClear(l, who)
  <2>1. /\ \E answer : Answer(l, who, answer)
        /\ UNCHANGED <<tokens, approvals>> /\ Delete(l)
    BY <1>6 DEF PollRefuse, PollClear
  <2>2. ~Exists(l)' /\ \A k \in Login : Exists(k)' => Exists(k)
    BY <1>0, <2>1 DEF Delete, Exists
  <2> QED
    BY <1>3, <2>1, <2>2
<1>7. CASE PollRedeem(l, who)
  <2>1. /\ UNCHANGED <<tokens, approvals>> /\ poll[l, who].pc = "redeem"
        /\ Update(l, poll[l, who].r)
    BY <1>7 DEF PollRedeem
  <2>2. \A k \in Login : Exists(k)' => Exists(k)
    BY <1>0, <2>1 DEF Update, Exists
  <2>3. CASE Exists(l)
    <3>1. GoOn(l, who, "issue", poll[l, who].r)
      BY <1>7, <2>3 DEF PollRedeem
    <3>2. /\ poll'[l, who].pc = "issue" /\ UNCHANGED cli
          /\ \A k \in Login, o \in Poller : k # l \/ o # who => poll'[k, o] = poll[k, o]
      BY <3>1, GoOnMoves
    <3>3. ~Issued(l)
      BY <1>2, <2>1, <2>3, NothingTyped DEF IssuedInv, SinglePoll, IssuesFirst, IssuedGone
    <3>4. \A k \in Login : Issued(k)' <=> Issued(k)
      BY <2>1 DEF Issued
    <3>5. OneTokenPerLogin'
      BY <2>1 DEF IssuedInv, OneTokenPerLogin
    <3>6. \A k \in Login, o \in Poller : Handled(k, o)' => Handled(k, o)
      BY <1>1, <3>2 DEF Handled
    <3>7. "login" \in Poller /\ "replay" \in Poller
      BY DEF Poller
    <3> QED
      BY <2>1, <2>2, <3>2, <3>3, <3>4, <3>5, <3>6, <3>7
      DEF IssuedInv, SinglePoll, IssuesFirst, IssuedGone
  <2>4. CASE ~Exists(l)
    <3>1. Answer(l, who, "invalid_grant")
      BY <1>7, <2>4 DEF PollRedeem
    <3> QED
      BY <1>3, <2>1, <2>2, <3>1
  <2> QED
    BY <2>3, <2>4
<1>8. CASE PollIssue(l, who)
  <2> DEFINE token == [login |-> l, account |-> poll[l, who].r.account]
  <2>1. /\ UNCHANGED requests /\ poll[l, who].pc = "issue"
        /\ tokens' = Append(tokens, token) /\ GoOn(l, who, "clear", poll[l, who].r)
    BY <1>8 DEF PollIssue
  <2>2. /\ poll'[l, who].pc = "clear" /\ UNCHANGED cli
        /\ \A k \in Login, o \in Poller : k # l \/ o # who => poll'[k, o] = poll[k, o]
    BY <2>1, GoOnMoves
  <2>3. token.login = l /\ token \in [login : Login, account : Account]
    <3>1. poll[l, who].r.approved /\ Approved(l, poll[l, who].r)
      BY <2>1 DEF DeviceInv, PollsInv
    <3>2. poll[l, who].r.account \in Account
      BY <3>1 DEF Approved, DeviceInv, TypeOK
    <3> QED
      BY <3>2
  <2> HIDE DEF token
  <2>4. /\ DOMAIN tokens' = DOMAIN tokens \cup {Len(tokens) + 1}
        /\ tokens'[Len(tokens) + 1] = token
        /\ \A i \in DOMAIN tokens : tokens'[i] = tokens[i]
    <3>1. tokens \in Seq([login : Login, account : Account])
      BY DEF DeviceInv, TypeOK
    <3> DEFINE Token == [login : Login, account : Account]
    <3> HIDE DEF Token
    <3>2. tokens \in Seq(Token) /\ token \in Token /\ tokens' = Append(tokens, token)
      BY <2>1, <2>3, <3>1 DEF Token
    <3> QED
      BY <3>2
  <2>5. ~Issued(l)
    BY <2>1 DEF IssuedInv, IssuesFirst
  <2>6. \A k \in Login : Issued(k)' <=> (Issued(k) \/ k = l)
    BY <2>3, <2>4 DEF Issued
  <2>7. OneTokenPerLogin'
    BY <2>3, <2>4, <2>5 DEF IssuedInv, OneTokenPerLogin, Issued
  <2>8. \A k \in Login, o \in Poller : Handled(k, o)' => Handled(k, o)
    BY <1>1, <2>2 DEF Handled
  <2>9. "login" \in Poller /\ "replay" \in Poller /\ cli[l].pc # "new"
    BY <1>1 DEF Poller, IssuedInv, SinglePoll
  <2>10. \A k \in Login : Exists(k)' <=> Exists(k)
    BY <2>1 DEF Exists
  <2> QED
    <3>1. \A k \in Login, o \in Poller : poll'[k, o].pc = "issue" => k # l /\ ~Issued(k)
      BY <1>2, <2>2, NothingTyped DEF IssuedInv, SinglePoll, IssuesFirst, IssuedGone
    <3>2. ASSUME NEW k \in Login, Issued(k)'
          PROVE  /\ cli[k].pc # "new"
                 /\ Exists(k) => \E o \in Poller : poll'[k, o].pc = "clear"
      <4>1. CASE k = l
        BY <2>2, <2>9, <4>1
      <4>2. CASE k # l
        BY <2>2, <2>6, <3>2, <4>2 DEF IssuedInv, SinglePoll, IssuesFirst, IssuedGone
      <4> QED
        BY <4>1, <4>2
    <3> QED
      BY <2>2, <2>6, <2>7, <2>8, <2>9, <2>10, <3>1, <3>2
      DEF IssuedInv, SinglePoll, IssuesFirst, IssuedGone
<1> QED
  BY <1>4, <1>5, <1>6, <1>7, <1>8 DEF PollStep

\* A login that has a code to be polled with has started, and asks again only
\* when no poll of it is being handled.
LEMMA AskIssued ==
    ASSUME ~Overlap, DeviceInv, IssuedInv, NEW l \in Login, AskForToken(l) \/ Replay(l)
    PROVE  IssuedInv'
<1>1. PICK who \in Poller : poll' = [poll EXCEPT ![<<l, who>>].pc = "called"]
  BY DEF AskForToken, Replay, Poller
<1>2. /\ poll'[l, who].pc = "called"
      /\ \A k \in Login, o \in Poller : k # l \/ o # who => poll'[k, o] = poll[k, o]
  BY <1>1 DEF DeviceInv, TypeOK, Poll
<1>3. \A o \in Poller : poll[l, o] = NoPoll
  BY DEF AskForToken, Replay, Idle
<1>4. UNCHANGED <<tokens, requests>> /\ cli[l].pc # "new"
      /\ \A k \in Login : cli'[k].pc = "new" => cli[k].pc = "new"
  <2>1. CASE AskForToken(l)
    BY <2>1 DEF AskForToken, Due, DeviceInv, TypeOK, Loop
  <2>2. CASE Replay(l)
    BY <2>2 DEF Replay, DeviceInv, CodesInv
  <2> QED
    BY <2>1, <2>2
<1>5. \A k \in Login : (Issued(k)' <=> Issued(k)) /\ (Exists(k)' <=> Exists(k))
  BY <1>4 DEF Issued, Exists
<1>6. OneTokenPerLogin'
  BY <1>4 DEF IssuedInv, OneTokenPerLogin
<1>7. \A k \in Login, o \in Poller :
         /\ Handled(k, o)' => Handled(k, o) \/ (k = l /\ o = who)
         /\ poll'[k, o].pc = "issue" => poll[k, o].pc = "issue"
         /\ poll[k, o].pc = "clear" => poll'[k, o].pc = "clear"
  BY <1>2, <1>3, NothingTyped DEF Handled
<1>8. \A o \in Poller : o # who => ~Handled(l, o)'
  BY <1>2, <1>3 DEF Handled
<1>9. "login" \in Poller /\ "replay" \in Poller
  BY DEF Poller
<1>10. SinglePoll'
  <2>1. \A k \in Login, o \in Poller : Handled(k, o)' => cli'[k].pc # "new"
    BY <1>4, <1>7 DEF IssuedInv, SinglePoll
  <2>2. ASSUME NEW k \in Login, Handled(k, "login")', Handled(k, "replay")' PROVE FALSE
    <3>1. k # l
      BY <1>8, <1>9, <2>2
    <3> QED
      BY <1>7, <1>9, <2>2, <3>1 DEF IssuedInv, SinglePoll
  <2> QED
    BY <2>1, <2>2 DEF SinglePoll
<1>11. IssuesFirst' /\ IssuedGone'
  BY <1>4, <1>5, <1>7 DEF IssuedInv, IssuesFirst, IssuedGone
<1> QED
  BY <1>6, <1>10, <1>11 DEF IssuedInv

LEMMA StepIssued ==
    ASSUME ~Overlap, DeviceInv, IssuedInv, [Next]_vars
    PROVE  IssuedInv'
<1>1. ASSUME NEW l \in Login, NEW c \in UserCode, Start(l, c) PROVE IssuedInv'
  <2>1. /\ cli[l].pc = "new" /\ UNCHANGED <<poll, tokens>>
        /\ \A k \in Login : k # l => requests'[k] = requests[k]
        /\ \A k \in Login : cli'[k].pc = "new" => cli[k].pc = "new"
    BY <1>1 DEF Start, DeviceInv, TypeOK
  <2>2. /\ \A k \in Login : Issued(k)' <=> Issued(k)
        /\ \A k \in Login, o \in Poller : Handled(k, o)' <=> Handled(k, o)
        /\ \A k \in Login : k # l => (Exists(k)' <=> Exists(k))
        /\ OneTokenPerLogin'
    BY <2>1 DEF Issued, Handled, Exists, IssuedInv, OneTokenPerLogin
  <2>3. ~Issued(l)
    BY <2>1 DEF IssuedInv, SinglePoll, IssuesFirst, IssuedGone
  <2>4. SinglePoll' /\ IssuesFirst'
    BY <2>1, <2>2 DEF IssuedInv, SinglePoll, IssuesFirst, Poller
  <2>5. IssuedGone'
    BY <2>1, <2>2, <2>3 DEF IssuedInv, IssuedGone
  <2> QED
    BY <2>2, <2>4, <2>5 DEF IssuedInv
<1>2. ASSUME NEW l \in Login, NEW who \in Poller, PollStep(l, who)
      PROVE  IssuedInv'
  BY <1>2, PollIssued
<1>3. ASSUME NEW l \in Login, AskForToken(l) \/ Replay(l) PROVE IssuedInv'
  BY <1>3, AskIssued
<1>4. ASSUME UNCHANGED <<poll, tokens, requests>>,
             \A l \in Login : cli'[l].pc = "new" => cli[l].pc = "new"
      PROVE  IssuedInv'
  BY <1>4, IssuedStays DEF Handled, Exists
<1>5. ASSUME NEW l \in Login, DeadlinePassed(l) \/ ConnectionLost(l) PROVE IssuedInv'
  <2>1. \A k \in Login : cli'[k].pc = "new" => cli[k].pc = "new"
    BY <1>5 DEF DeadlinePassed, ConnectionLost, DeviceInv, TypeOK, Loop
  <2> QED
    BY <1>4, <1>5, <2>1 DEF DeadlinePassed, ConnectionLost
<1>6. CASE Tick \/ UNCHANGED vars
  BY <1>4, <1>6 DEF Tick, vars
<1>7. ASSUME NEW b \in Browser, NEW l \in Login, NEW a \in Account \cup {Nobody},
             BrowserRead(b, l, a)
      PROVE  IssuedInv'
  BY <1>4, <1>7 DEF BrowserRead
<1>8. ASSUME NEW b \in Browser, BrowserStore(b) PROVE IssuedInv'
  <2>1. UNCHANGED <<poll, tokens, cli>> /\ Update(browser[b].login, browser[b].r)
    BY <1>8 DEF BrowserStore
  <2>2. \A k \in Login : Exists(k)' => Exists(k)
    BY <2>1 DEF Update, Exists, DeviceInv, TypeOK
  <2> QED
    BY <2>1, <2>2, IssuedStays DEF Handled
<1>9. CASE Restart
  <2>1. /\ UNCHANGED tokens
        /\ \A l \in Login : ~Exists(l)' /\ \A who \in Poller : poll'[l, who] = NoPoll
    BY <1>9 DEF Restart, Exists
  <2>2. \A l \in Login : cli'[l].pc = "new" => cli[l].pc = "new"
    BY <1>9 DEF Restart, DeviceInv, TypeOK, Loop
  <2> QED
    BY <2>1, <2>2, IssuedStays, NothingTyped
<1> QED
  BY <1>1, <1>2, <1>3, <1>5, <1>6, <1>7, <1>8, <1>9 DEF Next, LoginStep

\* A replayed poll mints no second credential (device.go:110-111), as long as no
\* two polls of one login are handled at once: whatever a stale decision of a
\* browser brings back between the redeeming and the removal of a request, and
\* however often the server restarts.
THEOREM OneTokenEach ==
    ASSUME ~Overlap
    PROVE  Spec => []OneTokenPerLogin
<1>1. Init => IssuedInv
  <2> SUFFICES ASSUME Init PROVE IssuedInv
    OBVIOUS
  <2>1. /\ \A l \in Login : ~Issued(l)
        /\ \A l \in Login, who \in Poller : poll[l, who] = NoPoll
    <3>1. tokens = <<>> /\ poll = [w \in Login \X Poller |-> NoPoll]
      BY DEF Init
    <3>2. DOMAIN tokens = {}
      BY <3>1
    <3>3. \A l \in Login : ~Issued(l)
      BY <3>2 DEF Issued
    <3>4. \A l \in Login, who \in Poller : poll[l, who] = NoPoll
      BY <3>1
    <3> QED
      BY <3>3, <3>4
  <2>2. OneTokenPerLogin
    BY DEF Init, OneTokenPerLogin
  <2> QED
    BY <2>1, <2>2, NothingTyped DEF IssuedInv, SinglePoll, IssuesFirst, IssuedGone, Handled, Poller
<1>2. DeviceInv /\ IssuedInv /\ [Next]_vars => IssuedInv'
  BY StepIssued
<1>3. IssuedInv => OneTokenPerLogin
  BY DEF IssuedInv, SinglePoll, IssuesFirst, IssuedGone
<1> QED
  BY <1>1, <1>2, <1>3, Invariance, PTL DEF Spec

=============================================================================
