--------------------------- MODULE AccountsProofs ---------------------------
(***************************************************************************)
(* Theorems about module Accounts, for every set of persons, events and    *)
(* handlers and for all bounds: the three invariants its run checks, from  *)
(* one inductive invariant.                                                *)
(***************************************************************************)
EXTENDS Accounts, TLAPS

Somebody == Person \cup {"nobody"}

Stored == [dir : 0..MaxTenants, event : Event, identity : Identity,
           by : Somebody]

Step == {"idle", "resolve", "known", "policy", "insert", "issue", "verify",
         "touch", "revoke", "lookup", "approve", "open", "query", "append",
         "answered"}

Doing == {"read", "approve", "logout", "collect"}

Request ==
    [at : Step, does : Doing \cup {"nothing", "signin"}, person : Somebody,
     token : 0..MaxTokens, account : Identity, batch : SUBSET Event,
     answer : SUBSET Stored, late : BOOLEAN]

TypeInv ==
    /\ federated \in [Person -> 0..MaxTenants]
    /\ users \in [Tenant -> Identity]
    /\ tokens \in [TokenId -> Token \cup {NoToken}]
    /\ expired \subseteq TokenId
    /\ request \in [Handler -> Request]
    /\ stored \subseteq Stored
    /\ tenantIds \in 0..MaxTenants /\ userIds \in 0..MaxTenants
    /\ tokenIds \in 0..MaxTokens
    /\ revoked \subseteq 1..tokenIds
    /\ boots \in Nat /\ faults \in Nat

\* A is the account the directory has for p.
IsAccountOf(a, p) ==
    p \in Person /\ federated[p] # 0 /\ a = users[federated[p]]

\* No known person's account is in tenant t.
Unowned(t) ==
    \A p \in Person : federated[p] # 0 => users[federated[p]].tenant # t

\* Known persons have accounts, and tenants, of their own.
DirectoryInv ==
    /\ \A p \in Person : federated[p] # 0 =>
          /\ federated[p] <= userIds
          /\ users[federated[p]].user = federated[p]
          /\ users[federated[p]].tenant \in 1..tenantIds
    /\ \A p, q \in Person : federated[p] # 0 /\ federated[q] # 0 /\ p # q =>
          users[federated[p]].tenant # users[federated[q]].tenant

\* A tenant on its way to the directory is nobody's yet, and holds nothing.
InsertInv ==
    \A h \in Handler : At(h, "insert") =>
        LET t == request[h].account.tenant
        IN /\ t \in 1..tenantIds
           /\ Unowned(t)
           /\ \A s \in stored : s.dir # t
           /\ \A g \in Handler : g # h /\ At(g, "insert") =>
                 request[g].account.tenant # t

\* A token in force names the account of the person it was issued to.
TokenInv ==
    /\ \A t \in TokenId : t \in revoked \/ t > tokenIds => tokens[t] = NoToken
    /\ \A t \in TokenId : tokens[t] # NoToken =>
          IsAccountOf(tokens[t].account, tokens[t].by)

\* What is stored is in the tenant of its identity: that of the person it is
\* from, or, if an earlier process stored it, one that is nobody's any more.
StoredInv ==
    \A s \in stored :
        /\ s.dir = s.identity.tenant /\ s.dir \in 1..tenantIds
        /\ IsAccountOf(s.identity, s.by) \/ Unowned(s.dir)

\* The steps at which a request acts as its person.
Acting == {"issue", "touch", "revoke", "lookup", "approve", "open", "query",
           "append", "answered"}

\* What is known of a request r as far as it is.
Sound(r) ==
    /\ r.at \notin {"idle", "verify"} => r.person \in Person
    /\ r.at \in {"verify", "touch", "revoke"} => r.token \in 1..tokenIds
    /\ r.at \in {"verify", "touch"} => r.does \in Doing
    /\ r.at = "known" => federated[r.person] # 0
    /\ r.at \in Acting => IsAccountOf(r.account, r.person)
    /\ r.late => r.at = "verify" /\ r.token \in revoked \cup expired
    /\ r.at = "answered" =>
          \A s \in r.answer : s.by = r.person /\ s.identity = r.account

RequestInv == \A h \in Handler : Sound(request[h])

AccountsInv ==
    TypeInv /\ DirectoryInv /\ InsertInv /\ TokenInv /\ StoredInv /\ RequestInv

-----------------------------------------------------------------------------
LEMMA NoAccountType == NoAccount \in Identity
BY AccountsAssumption DEF NoAccount, Identity

LEMMA IdleIsSound == Idle \in Request /\ Sound(Idle)
<1>1. Idle \in Request
  BY AccountsAssumption, NoAccountType DEF Idle, Request, Step, Somebody, Doing
<1>2. Sound(Idle)
  BY DEF Idle, Sound, Acting
<1> QED
  BY <1>1, <1>2

LEMMA InitInv == Init => AccountsInv
<1> SUFFICES ASSUME Init PROVE AccountsInv
  OBVIOUS
<1>1. TypeInv
  BY AccountsAssumption, NoAccountType, IdleIsSound
  DEF Init, TypeInv, Tenant, TokenId
<1>2. DirectoryInv /\ TokenInv /\ StoredInv
  BY DEF Init, DirectoryInv, TokenInv, StoredInv
<1>3. InsertInv
  BY DEF Init, InsertInv, At, Idle
<1>4. RequestInv
  BY IdleIsSound DEF Init, RequestInv
<1> QED
  BY <1>1, <1>2, <1>3, <1>4 DEF AccountsInv

\* A step that changes one request and nothing else that is invariant, and
\* does not bring it to the insertion.
LEMMA RequestStep ==
    ASSUME AccountsInv, NEW h \in Handler, NEW r \in Request,
           request' = [request EXCEPT ![h] = r],
           UNCHANGED <<directory, tokens, expired, stored, drawn, revoked,
                       boots>>,
           faults' \in Nat, Sound(r), r.at # "insert"
    PROVE  AccountsInv'
<1> USE DEF AccountsInv, directory, drawn
<1>1. TypeInv'
  BY DEF TypeInv
<1>2. DirectoryInv' /\ TokenInv' /\ StoredInv'
  BY DEF DirectoryInv, TokenInv, StoredInv, IsAccountOf, Unowned
<1>3. \A g \in Handler : request'[g] = IF g = h THEN r ELSE request[g]
  BY DEF TypeInv
<1>4. InsertInv'
  BY <1>3 DEF InsertInv, At, Unowned
<1>5. RequestInv'
  BY <1>3 DEF RequestInv, Sound, IsAccountOf
<1> QED
  BY <1>1, <1>2, <1>4, <1>5

\* The steps that change one request: those of a sign-in up to the directory's
\* answer, of verifying a credential, of a query, and the end of a batch.
LEMMA SignInSteps ==
    ASSUME AccountsInv, NEW h \in Handler,
           \/ \E p \in Person : Callback(h, p)
           \/ Resolve(h) \/ Known(h)
    PROVE  AccountsInv'
<1> USE DEF AccountsInv
<1>0. request[h] \in Request /\ Sound(request[h]) /\ faults \in Nat
  BY DEF TypeInv, RequestInv
<1>1. ASSUME NEW p \in Person, Callback(h, p) PROVE AccountsInv'
  <2> DEFINE r == [Idle EXCEPT !.at = "resolve", !.does = "signin", !.person = p]
  <2>1. r \in Request
    BY IdleIsSound DEF Request, Step, Somebody, Doing
  <2>2. Sound(r)
    BY DEF Idle, Sound, Acting
  <2>3. r.at # "insert"
    BY DEF Idle
  <2> QED
    BY <1>0, <1>1, <2>1, <2>2, <2>3, RequestStep DEF Callback, Becomes
<1>2. ASSUME Resolve(h) PROVE AccountsInv'
  <2> DEFINE to == IF federated[request[h].person] # 0 THEN "known" ELSE "policy"
             r == [request[h] EXCEPT !.at = to]
  <2>1. r \in Request /\ r.at # "insert"
    BY <1>0 DEF Request, Step
  <2>2. Sound(r)
    BY <1>0, <1>2 DEF Resolve, At, Sound, Acting, Request
  <2>3. request' = [request EXCEPT ![h] = r]
    BY <1>2 DEF Resolve, Moves
  <2> QED
    BY <1>0, <1>2, <2>1, <2>2, <2>3, RequestStep DEF Resolve
<1>3. ASSUME Known(h) PROVE AccountsInv'
  <2> DEFINE a == users[federated[request[h].person]]
             r == [request[h] EXCEPT !.account = a, !.at = "issue"]
  <2>1. IsAccountOf(a, request[h].person) /\ a \in Identity
    BY <1>0, <1>3 DEF Known, At, Sound, IsAccountOf, TypeInv, Tenant
  <2>2. r \in Request /\ r.at # "insert"
    BY <1>0, <2>1 DEF Request, Step
  <2>3. Sound(r)
    BY <1>0, <1>3, <2>1 DEF Known, At, Sound, Acting, Request
  <2> QED
    BY <1>0, <1>3, <2>2, <2>3, RequestStep DEF Known, Becomes
<1> QED
  BY <1>1, <1>2, <1>3

LEMMA CredentialSteps ==
    ASSUME AccountsInv, NEW h \in Handler,
           Presented(h) \/ Verify(h) \/ Lookup(h)
    PROVE  AccountsInv'
<1> USE DEF AccountsInv
<1>0. request[h] \in Request /\ Sound(request[h]) /\ faults \in Nat
  BY DEF TypeInv, RequestInv
<1>1. ASSUME Presented(h) PROVE AccountsInv'
  <2>1. PICK t \in TokenId, does \in Doing, batch \in SUBSET Event :
           Present(h, t, does, batch)
    BY <1>1 DEF Presented, Doing
  <2> DEFINE r(late) == [Idle EXCEPT !.at = "verify", !.does = does,
                                     !.token = t, !.batch = batch,
                                     !.late = late]
  <2>2. PICK late \in BOOLEAN : /\ late <=> t \in revoked \cup expired
                                /\ request' = [request EXCEPT ![h] = r(late)]
    <3>1. CASE t \in revoked \cup expired
      <4>1. request' = [request EXCEPT ![h] = r(TRUE)]
        BY <2>1, <3>1 DEF Present, Becomes
      <4> QED
        BY <3>1, <4>1
    <3>2. CASE t \notin revoked \cup expired
      <4>0. (t \in revoked \cup expired) = FALSE
        BY <3>2
      <4>1. request' = [request EXCEPT ![h] = r(FALSE)]
        BY <2>1, <4>0, Zenon DEF Present, Becomes
      <4> QED
        BY <3>2, <4>1
    <3> QED
      BY <3>1, <3>2
  <2>3. t \in 0..MaxTokens /\ t \in 1..tokenIds
    BY <2>1, AccountsAssumption DEF Present, TokenId, TypeInv
  <2>4. r(late) \in Request /\ r(late).at # "insert"
    BY <2>3, IdleIsSound DEF Idle, Request, Step, Doing
  <2>5. Sound(r(late))
    BY <2>2, <2>3 DEF Idle, Sound, Acting
  <2> HIDE DEF r
  <2> QED
    BY <1>0, <2>1, <2>2, <2>4, <2>5, RequestStep DEF Present
<1>2. ASSUME Verify(h) PROVE AccountsInv'
  <2> DEFINE t == tokens[request[h].token]
             ok == t.kind = Wanted(request[h].does) /\ request[h].token \notin expired
             r == IF ok THEN [request[h] EXCEPT !.account = t.account,
                                                !.person = t.by, !.at = "touch"]
                  ELSE Idle
  <2>1. CASE ok
    <3>1. request[h].token \in TokenId /\ t \in Token \cup {NoToken}
      <4>1. request[h].token \in 1..tokenIds
        BY <1>0, <1>2 DEF Verify, At, Sound
      <4>2. request[h].token \in TokenId
        BY <4>1, AccountsAssumption DEF TypeInv, TokenId
      <4> QED
        BY <4>2 DEF TypeInv
    <3>2. t # NoToken
      BY <2>1 DEF NoToken, Wanted
    <3>3. IsAccountOf(t.account, t.by) /\ request[h].token \notin revoked
      BY <3>1, <3>2 DEF TokenInv
    <3>4. r \in Request /\ r.at # "insert"
      BY <1>0, <2>1, <3>1, <3>2 DEF Request, Step, Token, Somebody
    <3>5. Sound(r)
      BY <1>0, <1>2, <2>1, <3>3 DEF Verify, At, Sound, Acting, Request, IsAccountOf
    <3> QED
      BY <1>0, <1>2, <2>1, <3>4, <3>5, RequestStep DEF Verify, Becomes
  <2>2. CASE ~ok
    <3>1. r \in Request /\ Sound(r) /\ r.at # "insert"
      BY <2>2, IdleIsSound DEF Idle
    <3> QED
      BY <1>0, <1>2, <2>2, <3>1, RequestStep DEF Verify, Becomes
  <2> QED
    BY <2>1, <2>2
<1>3. ASSUME Lookup(h) PROVE AccountsInv'
  <2> DEFINE a == users[request[h].account.user]
             to == IF request[h].does = "read" THEN "open" ELSE "approve"
             r == IF a = NoAccount THEN Idle
                  ELSE [request[h] EXCEPT !.account = a, !.at = to]
  <2>1. a = request[h].account
    BY <1>0, <1>3 DEF Lookup, At, Sound, Acting, IsAccountOf, DirectoryInv
  <2>2. r \in Request /\ r.at # "insert"
    BY <1>0, <2>1, IdleIsSound DEF Idle, Request, Step
  <2>3. Sound(r)
    BY <1>0, <1>3, <2>1, IdleIsSound DEF Lookup, At, Sound, Acting, Request
  <2>4. request' = [request EXCEPT ![h] = r]
    BY <1>3 DEF Lookup, Becomes
  <2> QED
    BY <1>0, <1>3, <2>2, <2>3, <2>4, RequestStep DEF Lookup
<1> QED
  BY <1>1, <1>2, <1>3

LEMMA StorageSteps ==
    ASSUME AccountsInv, NEW h \in Handler,
           For(h) \/ Query(h) \/ Accepted(h)
    PROVE  AccountsInv'
<1> USE DEF AccountsInv
<1>0. request[h] \in Request /\ Sound(request[h]) /\ faults \in Nat
  BY DEF TypeInv, RequestInv
<1>1. ASSUME For(h) PROVE AccountsInv'
  <2> DEFINE to == IF request[h].does = "read" THEN "query" ELSE "append"
             r == [request[h] EXCEPT !.at = to]
  <2>1. CASE Moves(h, to) /\ UNCHANGED faults
    <3>1. r \in Request /\ r.at # "insert"
      BY <1>0 DEF Request, Step
    <3>2. Sound(r)
      BY <1>0, <1>1 DEF For, At, Sound, Acting, Request
    <3> QED
      BY <1>0, <1>1, <2>1, <3>1, <3>2, RequestStep DEF For, Moves
  <2>2. CASE Becomes(h, Idle) /\ Fault
    <3>1. Idle.at # "insert" /\ faults' \in Nat
      BY <1>0, <2>2 DEF Idle, Fault
    <3> QED
      BY <1>1, <2>2, <3>1, IdleIsSound, RequestStep DEF For, Becomes
  <2> QED
    BY <1>1, <2>1, <2>2 DEF For
<1>2. ASSUME Query(h) PROVE AccountsInv'
  <2>0. PICK shown \in SUBSET {s \in stored : s.dir = request[h].account.tenant} :
          Becomes(h, [request[h] EXCEPT !.answer = shown, !.at = "answered"])
    BY <1>2 DEF Query
  <2> DEFINE r == [request[h] EXCEPT !.answer = shown, !.at = "answered"]
  <2>1. IsAccountOf(request[h].account, request[h].person)
    BY <1>0, <1>2 DEF Query, At, Sound, Acting
  <2>2. ~Unowned(request[h].account.tenant)
    BY <2>1 DEF Unowned, IsAccountOf
  <2>3. ASSUME NEW s \in shown
        PROVE  s.by = request[h].person /\ s.identity = request[h].account
    BY <2>1, <2>2 DEF StoredInv, IsAccountOf, DirectoryInv
  <2>4. r \in Request /\ r.at # "insert"
    BY <1>0 DEF Request, Step, TypeInv
  <2>5. Sound(r)
    BY <1>0, <1>2, <2>1, <2>3 DEF Query, At, Sound, Acting, Request
  <2> QED
    BY <1>0, <1>2, <2>0, <2>4, <2>5, RequestStep DEF Query, Becomes
<1>3. ASSUME Accepted(h) PROVE AccountsInv'
  <2>1. Idle.at # "insert"
    BY DEF Idle
  <2> QED
    BY <1>0, <1>3, <2>1, IdleIsSound, RequestStep DEF Accepted, Becomes
<1> QED
  BY <1>1, <1>2, <1>3

\* A tenant drawn for a first sign-in is new.
LEMMA TenantForStep ==
    ASSUME AccountsInv, NEW h \in Handler, TenantFor(h)
    PROVE  AccountsInv'
<1> USE DEF AccountsInv, TenantFor, directory
<1> DEFINE r == [request[h] EXCEPT !.account.tenant = tenantIds + 1, !.at = "insert"]
<1>0. request[h] \in Request /\ Sound(request[h]) /\ request[h].at = "policy"
  BY DEF TypeInv, RequestInv, At
<1>1. tenantIds \in Nat /\ tenantIds + 1 \in 0..MaxTenants
  BY AccountsAssumption DEF TypeInv
<1>2. r \in Request
  BY <1>0, <1>1 DEF Request, Step, Identity
<1>3. Sound(r)
  BY <1>0 DEF Sound, Acting, Request
<1>4. request' = [request EXCEPT ![h] = r]
  BY DEF Becomes, NewTenant
<1>5. TypeInv'
  BY <1>1, <1>2, <1>4 DEF TypeInv
<1>6. DirectoryInv' /\ TokenInv' /\ StoredInv'
  BY <1>1 DEF DirectoryInv, TokenInv, StoredInv, IsAccountOf, Unowned
<1>7. \A g \in Handler : request'[g] = IF g = h THEN r ELSE request[g]
  BY <1>4 DEF TypeInv
<1>8. r.account.tenant = tenantIds + 1 /\ r.at = "insert"
  BY <1>0 DEF Request, Identity
<1> HIDE DEF r
<1>9. InsertInv'
  <2>1. Unowned(tenantIds + 1) /\ \A s \in stored : s.dir # tenantIds + 1
    BY <1>1 DEF Unowned, DirectoryInv, StoredInv
  <2>2. \A g \in Handler : g # h /\ At(g, "insert") =>
           request[g].account.tenant # tenantIds + 1
    BY <1>1 DEF InsertInv
  <2> QED
    BY <1>1, <1>7, <1>8, <2>1, <2>2 DEF InsertInv, At, Unowned
<1>10. RequestInv'
  BY <1>3, <1>7 DEF RequestInv, Sound, IsAccountOf
<1> QED
  BY <1>5, <1>6, <1>9, <1>10

\* The insertion gives a person an account, or finds the one another sign-in
\* gave them meanwhile.
LEMMA InsertStep ==
    ASSUME AccountsInv, NEW h \in Handler, Insert(h)
    PROVE  AccountsInv'
<1> USE DEF AccountsInv
<1> DEFINE p == request[h].person
           a == [request[h].account EXCEPT !.user = userIds + 1]
<1>0. /\ request[h] \in Request /\ Sound(request[h]) /\ request[h].at = "insert"
      /\ p \in Person /\ faults \in Nat
  BY DEF TypeInv, RequestInv, Insert, At, Sound
<1>1. CASE Joined(p)
  <2> DEFINE b == users[federated[p]]
             r == [request[h] EXCEPT !.account = b, !.at = "issue"]
  <2>1. b \in Identity
    BY <1>0, <1>1 DEF Joined, TypeInv, Tenant
  <2>2. r \in Request /\ r.at # "insert"
    BY <1>0, <2>1 DEF Request, Step
  <2>3. Sound(r)
    BY <1>0, <1>1, <2>1 DEF Joined, Sound, Acting, Request, IsAccountOf
  <2> QED
    BY <1>0, <1>1, <2>2, <2>3, RequestStep DEF Insert, Becomes, drawn
<1>2. CASE ~Joined(p)
  <2> DEFINE r == [request[h] EXCEPT !.account = a, !.at = "issue"]
  <2>1. /\ userIds \in Nat /\ userIds + 1 \in Tenant /\ userIds' = userIds + 1
        /\ userIds + 1 \in 0..MaxTenants
    BY <1>2, AccountsAssumption DEF Insert, TypeInv, Tenant
  <2>2. /\ federated' = [federated EXCEPT ![p] = userIds + 1]
        /\ users' = [users EXCEPT ![userIds + 1] = a]
        /\ request' = [request EXCEPT ![h] = r]
        /\ UNCHANGED <<tokens, expired, stored, tenantIds, tokenIds, revoked,
                       boots, faults>>
    BY <1>0, <1>2 DEF Insert, Becomes, Request, Identity
  <2>3. /\ a \in Identity /\ a.user = userIds + 1
        /\ a.tenant = request[h].account.tenant
    BY <1>0, <2>1 DEF Request, Identity
  <2>4. r \in Request
    BY <1>0, <2>3 DEF Request, Step
  <2>5. /\ a.tenant \in 1..tenantIds /\ Unowned(a.tenant)
        /\ \A s \in stored : s.dir # a.tenant
        /\ \A g \in Handler : g # h /\ At(g, "insert") =>
              request[g].account.tenant # a.tenant
    BY <1>0, <2>3 DEF InsertInv, At
  <2>5a. /\ r.at = "issue" /\ r.person = p /\ r.account = a /\ r.late = FALSE
    BY <1>0 DEF Request, Sound
  <2> HIDE DEF a, r, p
  <2>6. TypeInv'
    BY <1>0, <2>1, <2>2, <2>3, <2>4 DEF TypeInv
  <2>7. \A g \in Handler : request'[g] = IF g = h THEN r ELSE request[g]
    BY <2>2 DEF TypeInv
  <2>8. \A q \in Person : federated'[q] = IF q = p THEN userIds + 1 ELSE federated[q]
    BY <2>2 DEF TypeInv
  <2>9. /\ users'[userIds + 1] = a
        /\ \A q \in Person : federated[q] # 0 =>
              /\ federated'[q] = federated[q] /\ q # p
              /\ users'[federated[q]] = users[federated[q]]
    <3>1. \A q \in Person : federated[q] # 0 =>
             federated[q] # userIds + 1 /\ federated[q] \in Tenant
      BY <2>1 DEF DirectoryInv, TypeInv, Tenant
    <3>2. \A q \in Person : federated[q] # 0 => q # p
      BY <1>2 DEF Joined
    <3> QED
      BY <2>1, <2>2, <2>8, <3>1, <3>2 DEF TypeInv
  <2>10. \A b, q : IsAccountOf(b, q) => IsAccountOf(b, q)'
    BY <2>9 DEF IsAccountOf
  <2>11. DirectoryInv'
    <3>1. \A q \in Person : federated'[q] # 0 =>
             /\ federated'[q] <= userIds'
             /\ users'[federated'[q]].user = federated'[q]
             /\ users'[federated'[q]].tenant \in 1..tenantIds'
      BY <2>1, <2>2, <2>3, <2>5, <2>8, <2>9 DEF DirectoryInv, TypeInv
    <3>2. \A q \in Person : federated'[q] # 0 /\ q # p =>
             users'[federated'[q]].tenant # a.tenant
      BY <2>5, <2>8, <2>9 DEF Unowned
    <3>3. \A q \in Person : federated'[q] # 0 =>
             users'[federated'[q]] = IF q = p THEN a ELSE users[federated[q]]
      BY <2>8, <2>9
    <3>4. ASSUME NEW q1 \in Person, NEW q2 \in Person, q1 # q2,
                 federated'[q1] # 0, federated'[q2] # 0
          PROVE  users'[federated'[q1]].tenant # users'[federated'[q2]].tenant
      <4>1. CASE q1 = p \/ q2 = p
        BY <3>2, <3>3, <3>4, <4>1
      <4>2. CASE q1 # p /\ q2 # p
        BY <2>8, <3>3, <3>4, <4>2 DEF DirectoryInv
      <4> QED
        BY <4>1, <4>2
    <3> QED
      BY <3>1, <3>4 DEF DirectoryInv
  <2>12. \A t : Unowned(t) /\ t # a.tenant => Unowned(t)'
    BY <2>1, <2>8, <2>9 DEF Unowned
  <2>13. InsertInv'
    BY <2>2, <2>5, <2>7, <2>5a, <2>12 DEF InsertInv, At
  <2>14. TokenInv'
    BY <2>2, <2>9 DEF TokenInv, IsAccountOf
  <2>15. StoredInv'
    BY <2>2, <2>5, <2>10, <2>12 DEF StoredInv
  <2>16. RequestInv'
    <3>1. \A g \in Handler : g # h => Sound(request[g])
      BY DEF RequestInv
    <3>2. \A g \in Handler : g # h => Sound(request[g])'
      BY <2>2, <2>7, <2>9, <3>1 DEF Sound, IsAccountOf
    <3>3. Sound(request[h])'
      BY <1>0, <2>1, <2>2, <2>7, <2>8, <2>9, <2>5a DEF Sound, Acting, IsAccountOf
    <3> QED
      BY <2>7, <3>2, <3>3 DEF RequestInv
  <2> QED
    BY <2>6, <2>11, <2>13, <2>14, <2>15, <2>16
<1> QED
  BY <1>1, <1>2

\* A token is issued for the account the request acts under.
LEMMA IssueSteps ==
    ASSUME AccountsInv, NEW h \in Handler, IssueSession(h) \/ IssueCollector(h)
    PROVE  AccountsInv'
<1> USE DEF AccountsInv
<1>1. PICK kind \in {"session", "collector"} :
         Issue(kind, request[h].account, request[h].person)
  BY DEF IssueSession, IssueCollector
<1>2. /\ request' = [request EXCEPT ![h] = Idle]
      /\ UNCHANGED <<federated, users, expired, stored, tenantIds, userIds,
                     revoked, boots, faults>>
  BY DEF IssueSession, IssueCollector, Becomes, directory
<1> DEFINE t == [kind |-> kind, account |-> request[h].account,
                 by |-> request[h].person]
<1>3. /\ tokenIds \in Nat /\ tokenIds' = tokenIds + 1 /\ tokenIds + 1 \in TokenId
      /\ tokenIds + 1 \in 0..MaxTokens
      /\ tokens' = [tokens EXCEPT ![tokenIds + 1] = t]
  BY <1>1, AccountsAssumption DEF Issue, TokenId, TypeInv
<1>4. IsAccountOf(t.account, t.by) /\ t \in Token
  BY DEF IssueSession, IssueCollector, At, RequestInv, Sound, Acting,
         IsAccountOf, TypeInv, Request, Token
<1> HIDE DEF t
<1>5. TypeInv'
  BY <1>2, <1>3, <1>4, IdleIsSound DEF TypeInv
<1>6. DirectoryInv' /\ StoredInv'
  BY <1>2 DEF DirectoryInv, StoredInv, IsAccountOf, Unowned
<1>7. \A g \in Handler : request'[g] = IF g = h THEN Idle ELSE request[g]
  BY <1>2 DEF TypeInv
<1>8. InsertInv'
  BY <1>2, <1>7 DEF InsertInv, At, Unowned, Idle
<1>9. \A u \in TokenId :
         tokens'[u] = IF u = tokenIds + 1 THEN t ELSE tokens[u]
  BY <1>3 DEF TypeInv
<1>10. TokenInv'
  <2>1. tokenIds + 1 \notin revoked
    BY <1>3 DEF TypeInv
  <2> QED
    BY <1>2, <1>3, <1>4, <1>9, <2>1 DEF TokenInv, IsAccountOf, TokenId
<1>11. RequestInv'
  <2>1. Sound(request[h])'
    BY <1>7 DEF Idle, Sound, Acting
  <2>2. \A g \in Handler : g # h => Sound(request[g])'
    BY <1>2, <1>3, <1>7 DEF RequestInv, Sound, IsAccountOf
  <2> QED
    BY <2>1, <2>2 DEF RequestInv
<1> QED
  BY <1>5, <1>6, <1>8, <1>10, <1>11

LEMMA TouchStep ==
    ASSUME AccountsInv, NEW h \in Handler, Touch(h)
    PROVE  AccountsInv'
<1> USE DEF AccountsInv
<1> DEFINE r == [request[h] EXCEPT !.at = AfterVerify[request[h].does]]
<1>0. /\ request[h] \in Request /\ Sound(request[h]) /\ request[h].at = "touch"
      /\ faults \in Nat
  BY DEF TypeInv, RequestInv, Touch, At
<1>1. tokens' = tokens
  BY DEF Touch, Touched, TypeInv
<1>2. AfterVerify[request[h].does] \in {"lookup", "revoke", "open"}
  BY <1>0 DEF Sound, Doing, AfterVerify
<1>3. r \in Request /\ r.at # "insert"
  BY <1>0, <1>2 DEF Request, Step
<1>4. Sound(r)
  BY <1>0, <1>2 DEF Sound, Acting, Request
<1>5. request' = [request EXCEPT ![h] = r]
  BY DEF Touch, Moves
<1> HIDE DEF r
<1> QED
  BY <1>0, <1>1, <1>3, <1>4, <1>5, RequestStep DEF Touch

LEMMA RevokeStep ==
    ASSUME AccountsInv, NEW h \in Handler, Revoke(h)
    PROVE  AccountsInv'
<1> USE DEF AccountsInv
<1> DEFINE t == request[h].token
<1>1. t \in 1..tokenIds
  BY DEF Revoke, At, RequestInv, Sound
<1>2. /\ tokens' = [tokens EXCEPT ![t] = NoToken]
      /\ revoked' = revoked \cup {t}
      /\ request' = [request EXCEPT ![h] = Idle]
      /\ UNCHANGED <<federated, users, expired, stored, tenantIds, userIds,
                     tokenIds, boots, faults>>
  BY DEF Revoke, Becomes, directory, drawn
<1> HIDE DEF t
<1>3. TypeInv'
  BY <1>1, <1>2, IdleIsSound DEF TypeInv
<1>4. DirectoryInv' /\ StoredInv'
  BY <1>2 DEF DirectoryInv, StoredInv, IsAccountOf, Unowned
<1>5. \A g \in Handler : request'[g] = IF g = h THEN Idle ELSE request[g]
  BY <1>2 DEF TypeInv
<1>6. InsertInv'
  BY <1>2, <1>5 DEF InsertInv, At, Unowned, Idle
<1>7. TokenInv'
  <2>1. \A u \in TokenId : tokens'[u] = IF u = t THEN NoToken ELSE tokens[u]
    BY <1>2 DEF TypeInv
  <2> QED
    BY <1>2, <2>1 DEF TokenInv, IsAccountOf
<1>8. RequestInv'
  <2>1. Sound(request[h])'
    BY <1>5 DEF Idle, Sound, Acting
  <2>2. \A g \in Handler : g # h => Sound(request[g])'
    BY <1>2, <1>5 DEF RequestInv, Sound, IsAccountOf
  <2> QED
    BY <2>1, <2>2 DEF RequestInv
<1> QED
  BY <1>3, <1>4, <1>6, <1>7, <1>8

\* An event is stored in the tenant of the credential and under its identity.
LEMMA AppendStep ==
    ASSUME AccountsInv, NEW h \in Handler, Append(h)
    PROVE  AccountsInv'
<1> USE DEF AccountsInv, drawn
<1>0. /\ request[h] \in Request /\ Sound(request[h]) /\ request[h].at = "append"
      /\ faults \in Nat /\ boots \in Nat
  BY DEF TypeInv, RequestInv, Append, At
<1>1. PICK e \in request[h].batch :
        \/ /\ stored' = stored \cup {[dir |-> request[h].account.tenant,
                                      event |-> e, identity |-> request[h].account,
                                      by |-> request[h].person]}
           /\ request' = [request EXCEPT ![h].batch = request[h].batch \ {e}]
           /\ UNCHANGED faults
        \/ /\ request' = [request EXCEPT ![h].batch = request[h].batch \ {e}]
           /\ UNCHANGED <<stored, faults>>
        \/ request' = [request EXCEPT ![h] = Idle] /\ Fault /\ UNCHANGED stored
  BY DEF Append, Becomes, Stamp
<1>2. UNCHANGED <<federated, users, tokens, expired, tenantIds, userIds,
                  tokenIds, revoked, boots>>
  BY DEF Append, directory
<1> DEFINE r == [request[h] EXCEPT !.batch = request[h].batch \ {e}]
           s == [dir |-> request[h].account.tenant, event |-> e,
                 identity |-> request[h].account, by |-> request[h].person]
<1>3. r \in Request /\ Sound(r) /\ r.at = "append"
  BY <1>0 DEF Request, Sound, Acting
<1>4. CASE stored' = stored \cup {s} /\ request' = [request EXCEPT ![h] = r] /\ UNCHANGED faults
  <2>1. IsAccountOf(request[h].account, request[h].person) /\ e \in Event
    BY <1>0 DEF Sound, Acting, Request
  <2>2. /\ s \in Stored /\ s.dir = s.identity.tenant
        /\ IsAccountOf(s.identity, s.by)
    BY <1>0, <2>1 DEF Stored, Identity, Request
  <2>3. s.dir \in 1..tenantIds /\ ~Unowned(s.dir)
    BY <2>2 DEF IsAccountOf, DirectoryInv, Unowned
  <2> HIDE DEF s, r
  <2>4. TypeInv'
    BY <1>2, <1>3, <1>4, <2>2 DEF TypeInv
  <2>5. DirectoryInv' /\ TokenInv'
    BY <1>2 DEF DirectoryInv, TokenInv, IsAccountOf
  <2>6. \A g \in Handler : request'[g] = IF g = h THEN r ELSE request[g]
    BY <1>4 DEF TypeInv
  <2>7. InsertInv'
    BY <1>2, <1>3, <1>4, <2>3, <2>6 DEF InsertInv, At, Unowned
  <2>8. StoredInv'
    BY <1>0, <1>2, <1>4, <2>2, <2>3 DEF StoredInv, IsAccountOf, Unowned
  <2>9. RequestInv'
    <3>1. Sound(request[h])'
      BY <1>2, <1>3, <1>4, <2>6 DEF Sound, IsAccountOf
    <3>2. \A g \in Handler : g # h => Sound(request[g])'
      BY <1>2, <1>4, <2>6 DEF RequestInv, Sound, IsAccountOf
    <3> QED
      BY <3>1, <3>2 DEF RequestInv
  <2> QED
    BY <2>4, <2>5, <2>7, <2>8, <2>9
<1>5. CASE request' = [request EXCEPT ![h] = r] /\ UNCHANGED <<stored, faults>>
  <2> HIDE DEF r
  <2> QED
    BY <1>0, <1>2, <1>3, <1>5, RequestStep DEF directory
<1>6. CASE request' = [request EXCEPT ![h] = Idle] /\ Fault /\ UNCHANGED stored
  <2>1. Idle.at # "insert" /\ faults' \in Nat
    BY <1>0, <1>6 DEF Idle, Fault
  <2> QED
    BY <1>2, <1>6, <2>1, IdleIsSound, RequestStep DEF directory
<1>7. request' = [request EXCEPT ![h].batch = request[h].batch \ {e}]
         => request' = [request EXCEPT ![h] = r]
  OBVIOUS
<1> QED
  BY <1>1, <1>4, <1>5, <1>6, <1>7

LEMMA ExpireStep ==
    ASSUME AccountsInv, NEW t \in TokenId, Expire(t)
    PROVE  AccountsInv'
<1> USE DEF AccountsInv, Expire, directory, drawn
<1>1. TypeInv'
  BY DEF TypeInv
<1>2. DirectoryInv' /\ InsertInv' /\ TokenInv' /\ StoredInv'
  BY DEF DirectoryInv, InsertInv, At, TokenInv, StoredInv, IsAccountOf, Unowned
<1>3. RequestInv'
  BY DEF RequestInv, Sound, IsAccountOf
<1> QED
  BY <1>1, <1>2, <1>3

\* After a restart nobody has an account, and what is stored is nobody's.
LEMMA RestartStep ==
    ASSUME AccountsInv, Restart
    PROVE  AccountsInv'
<1> USE DEF AccountsInv, Restart, drawn
<1>1. TypeInv'
  BY AccountsAssumption, NoAccountType, IdleIsSound
  DEF TypeInv, Tenant, TokenId
<1>2. DirectoryInv' /\ TokenInv'
  BY DEF DirectoryInv, TokenInv
<1>3. StoredInv'
  <2>1. \A t : Unowned(t)'
    BY DEF Unowned
  <2> QED
    BY <2>1 DEF StoredInv, TypeInv
<1>4. InsertInv'
  BY DEF InsertInv, At, Idle
<1>5. RequestInv'
  BY DEF RequestInv, Sound, Acting, Idle
<1> QED
  BY <1>1, <1>2, <1>3, <1>4, <1>5

LEMMA StepInv == AccountsInv /\ [Next]_vars => AccountsInv'
<1> SUFFICES ASSUME AccountsInv, [Next]_vars PROVE AccountsInv'
  OBVIOUS
<1>1. ASSUME NEW h \in Handler,
             \/ \E p \in Person : Callback(h, p)
             \/ Resolve(h) \/ Known(h) \/ TenantFor(h) \/ Insert(h)
             \/ IssueSession(h) \/ Presented(h) \/ Verify(h) \/ Touch(h)
             \/ Revoke(h) \/ Lookup(h) \/ IssueCollector(h)
             \/ For(h) \/ Query(h) \/ Append(h) \/ Accepted(h)
      PROVE  AccountsInv'
  BY <1>1, SignInSteps, TenantForStep, InsertStep, IssueSteps,
     CredentialSteps, TouchStep, RevokeStep, StorageSteps, AppendStep
<1>2. ASSUME NEW t \in TokenId, Expire(t) PROVE AccountsInv'
  BY <1>2, ExpireStep
<1>3. CASE Restart
  BY <1>3, RestartStep
<1>4. CASE UNCHANGED vars
  BY <1>4 DEF vars, AccountsInv, TypeInv, DirectoryInv, InsertInv, TokenInv,
              StoredInv, RequestInv, Sound, IsAccountOf, Unowned, At
<1> QED
  BY <1>1, <1>2, <1>3, <1>4 DEF Next

LEMMA Invariance == Spec => []AccountsInv
BY InitInv, StepInv, PTL DEF Spec

-----------------------------------------------------------------------------
\* Two first sign-ins of one person never leave two accounts, and no two
\* persons share a tenant (directory.go:200).
THEOREM AccountsTellPersonsApart == Spec => []OneAccountPerPerson
<1>1. AccountsInv => OneAccountPerPerson
  BY DEF AccountsInv, OneAccountPerPerson, Live, TokenInv, IsAccountOf, DirectoryInv
<1> QED
  BY <1>1, Invariance, PTL

\* A token is never served to a request that presents it after its owner
\* signed out, after it expired or after a restart (token.go:140).
THEOREM RevocationIsFinal == Spec => []RevokedStaysRevoked
<1>1. AccountsInv => RevokedStaysRevoked
  BY DEF AccountsInv, RevokedStaysRevoked, RequestInv, Sound
<1> QED
  BY <1>1, Invariance, PTL

\* A read returns nothing but what the reader's own machines shipped, under the
\* account that asks: nothing of anybody else's, of an earlier process's accounts,
\* or under an identity that the events claimed (server.go:168, api/tenants.go:48).
THEOREM ReadsAreOwn == Spec => []AnswerIsOwn
<1>1. AccountsInv => AnswerIsOwn
  BY DEF AccountsInv, AnswerIsOwn, RequestInv, Sound, At
<1> QED
  BY <1>1, Invariance, PTL

=============================================================================
