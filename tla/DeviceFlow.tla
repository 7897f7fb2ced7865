----------------------------- MODULE DeviceFlow -----------------------------
(***************************************************************************)
(* Signing a collector in: the device authorization flow of internal/auth  *)
(* (DeviceFlow over MemoryDevices), the browser handlers that decide a     *)
(* request, and the polling loop of trace-portal login.                    *)
(*                                                                         *)
(* The store locks each call, not a handler: Poll, Approve and Deny read a *)
(* request, work on their copy and write it back, and the handlers of      *)
(* different connections interleave between those calls.  A login waits    *)
(* for the answer to each poll; a repeated poll of its device code may     *)
(* reach the server as well.                                               *)
(***************************************************************************)
EXTENDS Integers, Sequences, FiniteSets

CONSTANTS
    Login,      \* runs of trace-portal login, each with its device code
    NoLogin,    \* no run
    UserCode,   \* the codes people type
    NoCode,     \* no code shown yet
    Account,    \* the people signed in to a browser
    Nobody,     \* the account of a request nobody approved
    Browser,    \* the requests the approval page is handling
    Lifetime,   \* how long a code is good for
    Interval,   \* the least time between two polls
    MaxTime,    \* bound: the last tick of the clock
    MaxFaults,  \* bound: lost responses and restarts of the server
    MaxReplays, \* bound: polls that repeat an earlier one
    Overlap     \* a repeated poll may be handled while another one is

ASSUME DeviceAssumption ==
    /\ NoLogin \notin Login /\ NoCode \notin UserCode /\ Nobody \notin Account
    /\ Lifetime \in Nat /\ Interval \in Nat \ {0} /\ MaxTime \in Nat \ {0}
    /\ MaxFaults \in Nat /\ MaxReplays \in Nat /\ Overlap \in BOOLEAN

VARIABLES
    now,        \* the server's clock
    requests,   \* byDevice: login -> its request
    byUser,     \* user code -> the login it stands for
    shown,      \* login -> the user code on its terminal
    poll,       \* login and who polls -> the poll being handled
    browser,    \* browser -> the decision being handled
    cli,        \* login -> its polling loop
    tokens,     \* the collector tokens issued, in order
    approvals,  \* history: <<login whose code was typed, account>> confirmed
    faults, replays

vars == <<now, requests, byUser, shown, poll, browser, cli, tokens, approvals,
          faults, replays>>

Time == 1..MaxTime

\* polled is 0 until the first poll; account is set by the approval.
Request == [expires : Nat, approved : BOOLEAN, denied : BOOLEAN,
            account : Account \cup {Nobody}, polled : 0..MaxTime,
            redeemed : BOOLEAN]

NoRequest == [expires |-> 0, approved |-> FALSE, denied |-> FALSE,
              account |-> Nobody, polled |-> 0, redeemed |-> FALSE]

Pending(r) == ~r.approved /\ ~r.denied
Exists(l) == requests[l] # NoRequest

Poller == {"login", "replay"}

NoPoll == [pc |-> "none", r |-> NoRequest]
NoDecision == [pc |-> "none", r |-> NoRequest, login |-> NoLogin,
               typed |-> NoLogin]

Init ==
    /\ now = 1
    /\ requests = [l \in Login |-> NoRequest]
    /\ byUser = [c \in UserCode |-> NoLogin]
    /\ shown = [l \in Login |-> NoCode]
    /\ poll = [w \in Login \X Poller |-> NoPoll]
    /\ browser = [b \in Browser |-> NoDecision]
    /\ cli = [l \in Login |-> [pc |-> "new", next |-> 0, every |-> Interval,
                               deadline |-> 0]]
    /\ tokens = <<>>
    /\ approvals = {}
    /\ faults = 0 /\ replays = 0

Tick ==
    /\ now < MaxTime
    /\ now' = now + 1
    /\ UNCHANGED <<requests, byUser, shown, poll, browser, cli, tokens,
                   approvals, faults, replays>>

Fault == faults < MaxFaults /\ faults' = faults + 1

-----------------------------------------------------------------------------
(* The store: MemoryDevices.                                               *)

\* Update: nothing when the request is gone.
Update(l, r) == requests' = [requests EXCEPT ![l] = IF Exists(l) THEN r ELSE @]

\* Mutant: the user code outlives its request.
DeleteKeepsUserCode(l) ==
    /\ requests' = [requests EXCEPT ![l] = NoRequest]
    /\ UNCHANGED byUser

Delete(l) ==
    /\ requests' = [requests EXCEPT ![l] = NoRequest]
    /\ byUser' = [c \in UserCode |-> IF byUser[c] = l THEN NoLogin ELSE byUser[c]]

\* A code whose request is gone: one so drawn is not drawn again.
Retired(c) == byUser[c] = NoLogin /\ \E l \in Login : shown[l] = c

-----------------------------------------------------------------------------
(* Start.                                                                  *)

\* Mutant: a live request's user code may be given to another one.
AlwaysCreatable(c) == ~Retired(c)

\* Create takes a code no live request has.
Creatable(c) == byUser[c] = NoLogin /\ ~Retired(c)

\* Start, asked by login l, draws codes until the store takes one.
Start(l, c) ==
    /\ cli[l].pc = "new" /\ now + Lifetime < MaxTime
    /\ Creatable(c)
    /\ requests' = [requests EXCEPT ![l] =
                       [NoRequest EXCEPT !.expires = now + Lifetime]]
    /\ byUser' = [byUser EXCEPT ![c] = l]
    /\ shown' = [shown EXCEPT ![l] = c]
    /\ cli' = [cli EXCEPT ![l] = [pc |-> "wait", next |-> now + Interval,
                                  every |-> Interval,
                                  deadline |-> now + Lifetime]]
    /\ UNCHANGED <<now, poll, browser, tokens, approvals, faults, replays>>

-----------------------------------------------------------------------------
(* pollForToken: the login's side.                                         *)

Due(l) == cli[l].pc = "wait" /\ now >= cli[l].next

Idle(l) == \A who \in Poller : poll[l, who] = NoPoll

AskForToken(l) ==
    /\ Due(l) /\ now <= cli[l].deadline
    /\ Idle(l) \/ Overlap
    /\ poll' = [poll EXCEPT ![<<l, "login">>].pc = "called"]
    /\ cli' = [cli EXCEPT ![l].pc = "asked"]
    /\ UNCHANGED <<now, requests, byUser, shown, browser, tokens, approvals,
                   faults, replays>>

DeadlinePassed(l) ==
    /\ Due(l) /\ now > cli[l].deadline
    /\ cli' = [cli EXCEPT ![l].pc = "failed"]
    /\ UNCHANGED <<now, requests, byUser, shown, poll, browser, tokens,
                   approvals, faults, replays>>

\* The connection breaks; the server goes on with the poll.
ConnectionLost(l) ==
    /\ cli[l].pc = "asked" /\ Fault
    /\ cli' = [cli EXCEPT ![l].pc = "failed"]
    /\ UNCHANGED <<now, requests, byUser, shown, poll, browser, tokens, approvals,
                   replays>>

\* A poll that repeats an earlier one reaches the server.
Replay(l) ==
    /\ shown[l] # NoCode /\ replays < MaxReplays
    /\ Idle(l) \/ (Overlap /\ poll[l, "replay"] = NoPoll)
    /\ replays' = replays + 1
    /\ poll' = [poll EXCEPT ![<<l, "replay">>].pc = "called"]
    /\ UNCHANGED <<now, requests, byUser, shown, browser, cli, tokens,
                   approvals, faults>>

\* What the login makes of an answer, if it is there to get it: the poll is over.
Answer(l, who, answer) ==
    /\ poll' = [poll EXCEPT ![<<l, who>>] = NoPoll]
    /\ cli' = IF who = "replay" \/ cli[l].pc # "asked" THEN cli
              ELSE [cli EXCEPT ![l] =
                CASE answer = "token" -> [@ EXCEPT !.pc = "done"]
                  [] answer = "authorization_pending" ->
                        [@ EXCEPT !.pc = "wait", !.next = now + cli[l].every]
                  [] answer = "slow_down" ->
                        [@ EXCEPT !.pc = "wait", !.next = now + cli[l].every + Interval,
                                  !.every = cli[l].every + Interval]
                  [] OTHER -> [@ EXCEPT !.pc = "failed"]]

-----------------------------------------------------------------------------
(* Poll: the server's side, one step per call to a store.                  *)

\* The poll goes on to the store call at, with r.
GoOn(l, who, at, r) ==
    /\ poll' = [poll EXCEPT ![<<l, who>>].pc = at, ![<<l, who>>].r = r]
    /\ UNCHANGED cli

TooSoon(r) == r.polled # 0 /\ now - r.polled < Interval

\* ByDeviceCode, and the decisions taken on what it returned.
PollRead(l, who) ==
    /\ poll[l, who].pc = "called"
    /\ LET r == requests[l]
           seen == [r EXCEPT !.polled = now]
       IN \/ /\ ~Exists(l) \/ r.redeemed
             /\ Answer(l, who, "invalid_grant")
          \/ /\ Exists(l) /\ ~r.redeemed /\ now > r.expires
             /\ Answer(l, who, "expired_token")
          \/ /\ Exists(l) /\ ~r.redeemed /\ now <= r.expires
             /\ \/ TooSoon(r) /\ GoOn(l, who, "slow", seen)
                \/ ~TooSoon(r) /\ r.denied /\ GoOn(l, who, "refuse", seen)
                \/ ~TooSoon(r) /\ Pending(r) /\ GoOn(l, who, "pending", seen)
                \/ /\ ~TooSoon(r) /\ r.approved /\ ~r.denied
                   /\ GoOn(l, who, "redeem", [seen EXCEPT !.redeemed = TRUE])
    /\ UNCHANGED <<now, requests, byUser, shown, browser, tokens, approvals,
                   faults, replays>>

\* The answers that record only when the login polled.
PollWait(l, who) ==
    /\ poll[l, who].pc \in {"slow", "pending"}
    /\ Update(l, poll[l, who].r)
    /\ Answer(l, who, IF poll[l, who].pc = "slow" THEN "slow_down"
                 ELSE "authorization_pending")
    /\ UNCHANGED <<now, byUser, shown, browser, tokens, approvals, faults, replays>>

PollRefuse(l, who) ==
    /\ poll[l, who].pc = "refuse"
    /\ Delete(l)
    /\ Answer(l, who, "access_denied")
    /\ UNCHANGED <<now, shown, browser, tokens, approvals, faults, replays>>

PollRedeem(l, who) ==
    /\ poll[l, who].pc = "redeem"
    /\ Update(l, poll[l, who].r)
    /\ IF Exists(l) THEN GoOn(l, who, "issue", poll[l, who].r) ELSE Answer(l, who, "invalid_grant")
    /\ UNCHANGED <<now, byUser, shown, browser, tokens, approvals, faults, replays>>

PollIssue(l, who) ==
    /\ poll[l, who].pc = "issue"
    /\ tokens' = Append(tokens, [login |-> l, account |-> poll[l, who].r.account])
    /\ GoOn(l, who, "clear", poll[l, who].r)
    /\ UNCHANGED <<now, requests, byUser, shown, browser, approvals, faults, replays>>

\* Mutant: a redeemed request is left to its redeemed flag.
PollClearKeeps(l, who) ==
    /\ poll[l, who].pc = "clear"
    /\ Answer(l, who, "token")
    /\ UNCHANGED <<now, requests, byUser, shown, browser, tokens, approvals,
                   faults, replays>>

PollClear(l, who) ==
    /\ poll[l, who].pc = "clear"
    /\ Delete(l)
    /\ Answer(l, who, "token")
    /\ UNCHANGED <<now, shown, browser, tokens, approvals, faults, replays>>

-----------------------------------------------------------------------------
(* Approve and Deny, from the browser of a signed-in person.               *)

\* Mutant: the approval does not say whose it is.
DecidedNoAccount(r, person) ==
    IF person = Nobody THEN [r EXCEPT !.denied = TRUE] ELSE [r EXCEPT !.approved = TRUE]

\* The request as the person left it: denied, or approved for their account.
Decided(r, person) ==
    IF person = Nobody THEN [r EXCEPT !.denied = TRUE]
    ELSE [r EXCEPT !.approved = TRUE, !.account = person]

\* pendingByUserCode, for the code on the terminal of login typed.
BrowserRead(b, typed, person) ==
    /\ browser[b] = NoDecision /\ shown[typed] # NoCode
    /\ LET l == byUser[shown[typed]]
       IN /\ l # NoLogin
          /\ now <= requests[l].expires /\ Pending(requests[l])
          /\ browser' = [browser EXCEPT ![b] =
                [pc |-> "store", login |-> l, typed |-> typed,
                 r |-> Decided(requests[l], person)]]
    /\ UNCHANGED <<now, requests, byUser, shown, poll, cli, tokens, approvals,
                   faults, replays>>

\* Update; the page confirms an approval unless the request was gone.
BrowserStore(b) ==
    /\ browser[b].pc = "store"
    /\ Update(browser[b].login, browser[b].r)
    /\ approvals' = IF Exists(browser[b].login) /\ browser[b].r.approved
                    THEN approvals \cup {<<browser[b].typed, browser[b].r.account>>}
                    ELSE approvals
    /\ browser' = [browser EXCEPT ![b] = NoDecision]
    /\ UNCHANGED <<now, byUser, shown, poll, cli, tokens, faults, replays>>

-----------------------------------------------------------------------------
\* The server restarts: pending sign-ins live in memory only.
Restart ==
    /\ Fault
    /\ requests' = [l \in Login |-> NoRequest]
    /\ byUser' = [c \in UserCode |-> NoLogin]
    /\ poll' = [w \in Login \X Poller |-> NoPoll]
    /\ browser' = [b \in Browser |-> NoDecision]
    /\ cli' = [l \in Login |-> IF cli[l].pc = "asked"
                               THEN [cli[l] EXCEPT !.pc = "failed"] ELSE cli[l]]
    /\ UNCHANGED <<now, shown, tokens, approvals, replays>>

PollStep(l, who) ==
    PollRead(l, who) \/ PollWait(l, who) \/ PollRefuse(l, who) \/ PollRedeem(l, who)
        \/ PollIssue(l, who) \/ PollClear(l, who)
LoginStep(l) == AskForToken(l) \/ DeadlinePassed(l)

Next ==
    \/ Tick
    \/ \E l \in Login, c \in UserCode : Start(l, c)
    \/ \E l \in Login, who \in Poller : PollStep(l, who)
    \/ \E l \in Login : LoginStep(l) \/ ConnectionLost(l) \/ Replay(l)
    \/ \E b \in Browser, l \in Login, a \in Account \cup {Nobody} : BrowserRead(b, l, a)
    \/ \E b \in Browser : BrowserStore(b)
    \/ Restart

Spec == Init /\ [][Next]_vars

-----------------------------------------------------------------------------
(* Properties.                                                             *)

Poll == [pc : {"none", "called", "slow", "refuse", "pending", "redeem", "issue",
               "clear"},
         r : Request]
Decision == [pc : {"none", "store"}, r : Request, login : Login \cup {NoLogin},
             typed : Login \cup {NoLogin}]
Loop == [pc : {"new", "wait", "asked", "done", "failed"}, next : Nat, every : Nat,
         deadline : Nat]

TypeOK ==
    /\ now \in Time
    /\ requests \in [Login -> Request]
    /\ byUser \in [UserCode -> Login \cup {NoLogin}]
    /\ shown \in [Login -> UserCode \cup {NoCode}]
    /\ poll \in [Login \X Poller -> Poll]
    /\ browser \in [Browser -> Decision]
    /\ cli \in [Login -> Loop]
    /\ tokens \in Seq([login : Login, account : Account])
    /\ approvals \subseteq Login \X Account
    /\ faults \in 0..MaxFaults /\ replays \in 0..MaxReplays

\* device.go:149-153 and :261-267: a token is only ever issued to the login
\* whose own user code somebody approved, and for the account of a person who
\* approved it, however polls, approvals and refusals overlap.
EnrolledAsApproved ==
    \A i \in DOMAIN tokens : <<tokens[i].login, tokens[i].account>> \in approvals

\* device.go:110-111, "a replayed poll cannot mint a second credential".
OneTokenPerLogin ==
    \A i, j \in DOMAIN tokens : tokens[i].login = tokens[j].login => i = j

\* The two maps of MemoryDevices stay in step: a user code stands for a live
\* request whose terminal shows it, and every live request has one.
MapsAgree ==
    /\ \A c \in UserCode : byUser[c] # NoLogin =>
          Exists(byUser[c]) /\ shown[byUser[c]] = c
    /\ \A l \in Login : Exists(l) => byUser[shown[l]] = l

\* device.go:26-27, "The approval binds the pending request to their account,
\* and the next poll returns a collector token": an approval the person saw
\* confirmed is still there while the request is.
ApprovalKept ==
    \A l \in Login : Exists(l) /\ (\E a \in Account : <<l, a>> \in approvals)
        => requests[l].approved
=============================================================================
