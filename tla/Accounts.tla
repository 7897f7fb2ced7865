------------------------------ MODULE Accounts ------------------------------
(***************************************************************************)
(* A server's accounts and what is kept under them: the directory and the  *)
(* tokens (internal/auth), the sessions of the browser and the credentials *)
(* of collectors, the endpoint that takes batches in (internal/collect)    *)
(* and the reads of a signed-in browser (internal/api).                    *)
(*                                                                         *)
(* Every request is served on a goroutine of its own, a handler here.  The *)
(* directory, the token store and the registry each lock one call, so      *)
(* handlers interleave between calls.  All of it but the tenants' own      *)
(* directories is memory, which a restart loses.                           *)
(*                                                                         *)
(* Ids are drawn at random and never twice: here they are counted, across  *)
(* restarts.  How a request for a collector's token is approved and polled *)
(* is module DeviceFlow; here an approval is polled in the step it is made *)
(* in.                                                                     *)
(***************************************************************************)
EXTENDS Integers, FiniteSets

CONSTANTS
    Person,      \* whom the identity provider vouches for
    Event,       \* the events collectors ship
    Carried,     \* event -> the identity it was captured under
    Implausible, \* the events without a usable timestamp
    Handler,     \* requests served at the same time
    MaxTenants,  \* bound: tenant ids drawn
    MaxTokens,   \* bound: tokens issued
    MaxExpired,  \* bound: sessions past their time in one process
    MaxBoots,    \* bound: restarts of the server
    MaxFaults    \* bound: failed opens and appends

Tenant == 1..MaxTenants
TokenId == 1..MaxTokens

\* The account of a person, and the identity of an event: 0 is "local".
Identity == [tenant : 0..MaxTenants, user : 0..MaxTenants]
NoAccount == [tenant |-> 0, user |-> 0]

ASSUME AccountsAssumption ==
    /\ MaxTenants \in Nat \ {0} /\ MaxTokens \in Nat \ {0}
    /\ MaxBoots \in Nat /\ MaxFaults \in Nat /\ MaxExpired \in Nat
    /\ Carried \in [Event -> Identity]
    /\ Implausible \subseteq Event

VARIABLES
    federated,  \* byFederated: person -> user id, 0 when unknown
    users,      \* byUser: user id -> account
    tokens,     \* byHash: token id -> token, NoToken when revoked or unknown
    expired,    \* the sessions past their ExpiresAt
    request,    \* handler -> the request it serves
    stored,     \* what the tenants' stores hold
    \* history
    tenantIds, userIds, tokenIds,  \* ids drawn so far
    revoked,    \* tokens whose owner signed out, or whose process is over
    boots, faults

directory == <<federated, users>>
drawn == <<tenantIds, userIds, tokenIds>>
vars == <<federated, users, tokens, expired, request, stored, tenantIds,
          userIds, tokenIds, revoked, boots, faults>>

\* A token, and (history) whose it is.
NoToken == [kind |-> "none", account |-> NoAccount, by |-> "nobody"]
Token == [kind : {"session", "collector"}, account : Identity, by : Person]

Idle == [at |-> "idle", does |-> "nothing", person |-> "nobody", token |-> 0,
         account |-> NoAccount, batch |-> {}, answer |-> {}, late |-> FALSE]

Init ==
    /\ federated = [p \in Person |-> 0]
    /\ users = [u \in Tenant |-> NoAccount]
    /\ tokens = [t \in TokenId |-> NoToken]
    /\ expired = {} /\ revoked = {}
    /\ request = [h \in Handler |-> Idle]
    /\ stored = {}
    /\ tenantIds = 0 /\ userIds = 0 /\ tokenIds = 0
    /\ boots = 0 /\ faults = 0

At(h, step) == request[h].at = step
Becomes(h, r) == request' = [request EXCEPT ![h] = r]
Moves(h, step) == request' = [request EXCEPT ![h].at = step]
Free(h) == request[h].at \in {"idle", "answered"}

Fault == faults < MaxFaults /\ faults' = faults + 1

-----------------------------------------------------------------------------
(* Signing in: handleCallback after the provider's exchange.               *)

Callback(h, p) ==
    /\ Free(h) /\ tokenIds < MaxTokens
    /\ Becomes(h, [Idle EXCEPT !.at = "resolve", !.does = "signin", !.person = p])
    /\ UNCHANGED <<directory, tokens, expired, stored, drawn,
                   revoked, boots, faults>>

\* Resolve: the directory is asked, then left while the policy is.
Resolve(h) ==
    /\ At(h, "resolve")
    /\ Moves(h, IF federated[request[h].person] # 0 THEN "known" ELSE "policy")
    /\ UNCHANGED <<directory, tokens, expired, stored, drawn,
                   revoked, boots, faults>>

Known(h) ==
    /\ At(h, "known")
    /\ Becomes(h, [request[h] EXCEPT
                      !.account = users[federated[request[h].person]],
                      !.at = "issue"])
    /\ UNCHANGED <<directory, tokens, expired, stored, drawn,
                   revoked, boots, faults>>

\* Mutant: ids are counted from one in every process.
NewTenantOfProcess == Cardinality({u \in Tenant : users[u] # NoAccount}) + 1

\* NewID: an id nobody was given before.
NewTenant == tenantIds + 1

\* TenantPerUser: a tenant of one's own.
TenantFor(h) ==
    /\ At(h, "policy") /\ tenantIds < MaxTenants
    /\ tenantIds' = tenantIds + 1
    /\ Becomes(h, [request[h] EXCEPT !.account.tenant = NewTenant,
                                     !.at = "insert"])
    /\ UNCHANGED <<directory, tokens, expired, stored, userIds,
                   tokenIds, revoked, boots, faults>>

\* Mutant: the insertion does not look again.
JoinedNobody(p) == FALSE

\* The re-check under the lock: another sign-in of this person came first.
Joined(p) == federated[p] # 0

Insert(h) ==
    /\ At(h, "insert")
    /\ LET p == request[h].person
           a == [request[h].account EXCEPT !.user = userIds + 1]
       IN IF Joined(p)
          THEN /\ Becomes(h, [request[h] EXCEPT !.account = users[federated[p]],
                                                !.at = "issue"])
               /\ UNCHANGED <<directory, userIds>>
          ELSE /\ userIds < MaxTenants  \* bound: never before tenantIds
               /\ userIds' = userIds + 1
               /\ federated' = [federated EXCEPT ![p] = a.user]
               /\ users' = [users EXCEPT ![a.user] = a]
               /\ Becomes(h, [request[h] EXCEPT !.account = a, !.at = "issue"])
    /\ UNCHANGED <<tokens, expired, stored, tenantIds, tokenIds,
                   revoked, boots, faults>>

\* Issuer.issue: MemoryTokens.Issue under a new secret.
Issue(kind, account, p) ==
    /\ tokenIds < MaxTokens
    /\ tokenIds' = tokenIds + 1
    /\ tokens' = [tokens EXCEPT ![tokenIds + 1] =
                     [kind |-> kind, account |-> account, by |-> p]]

IssueSession(h) ==
    /\ At(h, "issue")
    /\ Issue("session", request[h].account, request[h].person)
    /\ Becomes(h, Idle)
    /\ UNCHANGED <<directory, expired, stored, tenantIds,
                   userIds, revoked, boots, faults>>

-----------------------------------------------------------------------------
(* A request that presents a credential: Session, Collector, Verify.       *)

Wanted(does) == IF does = "collect" THEN "collector" ELSE "session"

\* Any secret ever handed out may be presented, at either kind of endpoint.
Present(h, t, does, batch) ==
    /\ Free(h) /\ t <= tokenIds
    /\ Becomes(h, [Idle EXCEPT !.at = "verify", !.does = does, !.token = t,
                               !.batch = batch,
                               !.late = t \in revoked \cup expired])
    /\ UNCHANGED <<directory, tokens, expired, stored, drawn,
                   revoked, boots, faults>>

\* Verify as far as Find: unknown, expired or of the wrong kind is refused.
Verify(h) ==
    /\ At(h, "verify")
    /\ LET r == request[h]
           t == tokens[r.token]
       IN IF t.kind = Wanted(r.does) /\ r.token \notin expired
          THEN Becomes(h, [r EXCEPT !.account = t.account, !.person = t.by,
                                    !.at = "touch"])
          ELSE Becomes(h, Idle)
    /\ UNCHANGED <<directory, tokens, expired, stored, drawn,
                   revoked, boots, faults>>

\* Mutant: the token found earlier is written back.
TouchedCopy(h) ==
    [kind |-> Wanted(request[h].does), account |-> request[h].account,
     by |-> request[h].person]

\* Touch changes a token that is still there, and in it only LastUsed, which
\* is left out here.
Touched(h) == tokens[request[h].token]

AfterVerify == [read |-> "lookup", approve |-> "lookup", logout |-> "revoke",
                collect |-> "open"]

Touch(h) ==
    /\ At(h, "touch")
    /\ tokens' = [tokens EXCEPT ![request[h].token] = Touched(h)]
    /\ Moves(h, AfterVerify[request[h].does])
    /\ UNCHANGED <<directory, expired, stored, drawn, revoked,
                   boots, faults>>

\* handleLogout.
Revoke(h) ==
    /\ At(h, "revoke")
    /\ tokens' = [tokens EXCEPT ![request[h].token] = NoToken]
    /\ revoked' = revoked \cup {request[h].token}
    /\ Becomes(h, Idle)
    /\ UNCHANGED <<directory, expired, stored, drawn, boots,
                   faults>>

\* Session: the token's user, as the directory knows it.
Lookup(h) ==
    /\ At(h, "lookup")
    /\ LET r == request[h]
           a == users[r.account.user]
       IN Becomes(h, IF a = NoAccount THEN Idle
                     ELSE [r EXCEPT !.account = a,
                                    !.at = IF r.does = "read"
                                           THEN "open" ELSE "approve"])
    /\ UNCHANGED <<directory, tokens, expired, stored, drawn,
                   revoked, boots, faults>>

\* handleDeviceDecision, and the poll that finds the approval.
IssueCollector(h) ==
    /\ At(h, "approve")
    /\ Issue("collector", request[h].account, request[h].person)
    /\ Becomes(h, Idle)
    /\ UNCHANGED <<directory, expired, stored, tenantIds, userIds, revoked,
                   boots, faults>>

-----------------------------------------------------------------------------
(* The tenant's storage: Registry.For, one query, handleCollect.           *)

\* The tenant's storage, opened on its first use, which may fail.
For(h) ==
    /\ At(h, "open")
    /\ \/ /\ Moves(h, IF request[h].does = "read" THEN "query" ELSE "append")
          /\ UNCHANGED faults
       \/ Becomes(h, Idle) /\ Fault
    /\ UNCHANGED <<directory, tokens, expired, stored,
                   drawn, revoked, boots>>

\* A query goes to the tenant's own storage: it shows some of what is there.  What it
\* passes over, an event of a compacted day or a day pruned while it reads, is for
\* modules Archive and ArchiveReads.
Query(h) ==
    /\ At(h, "query")
    /\ \E shown \in SUBSET {s \in stored : s.dir = request[h].account.tenant} :
          Becomes(h, [request[h] EXCEPT !.answer = shown, !.at = "answered"])
    /\ UNCHANGED <<directory, tokens, expired, stored, drawn,
                   revoked, boots, faults>>

\* Mutant: what the event claims is kept where it claims something.
StampMerged(h, e) ==
    IF Carried[e] = NoAccount THEN request[h].account ELSE Carried[e]

\* The identity under which an event is stored: the credential's, whatever the
\* event carried.
Stamp(h, e) == request[h].account

\* The next event of the batch; the events before it stay stored when it fails.
Append(h) ==
    /\ At(h, "append")
    /\ \E e \in request[h].batch :
          \/ /\ e \notin Implausible
             /\ stored' = stored \cup {[dir |-> request[h].account.tenant,
                                       event |-> e, identity |-> Stamp(h, e),
                                       by |-> request[h].person]}
             /\ Becomes(h, [request[h] EXCEPT !.batch = @ \ {e}])
             /\ UNCHANGED faults
          \/ /\ e \in Implausible
             /\ Becomes(h, [request[h] EXCEPT !.batch = @ \ {e}])
             /\ UNCHANGED <<stored, faults>>
          \/ /\ e \notin Implausible /\ Fault
             /\ Becomes(h, Idle)
             /\ UNCHANGED stored
    /\ UNCHANGED <<directory, tokens, expired, drawn, revoked, boots>>

Accepted(h) ==
    /\ At(h, "append") /\ request[h].batch = {}
    /\ Becomes(h, Idle)
    /\ UNCHANGED <<directory, tokens, expired, stored, drawn,
                   revoked, boots, faults>>

-----------------------------------------------------------------------------
\* A session passes its ExpiresAt; a collector's token never does.
Expire(t) ==
    /\ tokens[t].kind = "session" /\ Cardinality(expired) < MaxExpired
    /\ t \notin expired
    /\ expired' = expired \cup {t}
    /\ UNCHANGED <<directory, tokens, request, stored, drawn,
                   revoked, boots, faults>>

\* All memory is lost; the next process draws other ids.
Restart ==
    /\ boots < MaxBoots /\ boots' = boots + 1
    /\ federated' = [p \in Person |-> 0]
    /\ users' = [u \in Tenant |-> NoAccount]
    /\ tokens' = [t \in TokenId |-> NoToken]
    /\ expired' = {}
    /\ revoked' = 1..tokenIds
    /\ request' = [h \in Handler |-> Idle]
    /\ UNCHANGED <<stored, drawn, faults>>

\* Bound: every batch holds every event, and a token of the wrong kind is
\* presented to ship or to read only.
Presented(h) ==
    \E t \in TokenId :
        \/ Present(h, t, "collect", Event)
        \/ Present(h, t, "read", {})
        \/ \E does \in {"approve", "logout"} :
              tokens[t].kind # "collector" /\ Present(h, t, does, {})

Next ==
    \/ \E h \in Handler :
          \/ \E p \in Person : Callback(h, p)
          \/ Resolve(h) \/ Known(h) \/ TenantFor(h) \/ Insert(h)
          \/ IssueSession(h) \/ Presented(h) \/ Verify(h) \/ Touch(h)
          \/ Revoke(h) \/ Lookup(h) \/ IssueCollector(h)
          \/ For(h) \/ Query(h) \/ Append(h) \/ Accepted(h)
    \/ \E t \in TokenId : Expire(t)
    \/ Restart

Spec == Init /\ [][Next]_vars

-----------------------------------------------------------------------------
Live == {t \in TokenId : tokens[t] # NoToken}

\* Whatever two first sign-ins of one person do at the same time, the
\* credentials that are in force tell persons apart and nothing else: those of
\* one person name one account, those of two persons two tenants
\* (directory.go:200).
OneAccountPerPerson ==
    \A s, t \in Live :
        IF tokens[s].by = tokens[t].by
        THEN tokens[s].account = tokens[t].account
        ELSE tokens[s].account.tenant # tokens[t].account.tenant

\* A request that presents a token after its owner signed out, or after it
\* expired or its server restarted, is never served, whatever requests with
\* that token were being verified then (token.go:140).
RevokedStaysRevoked ==
    \A h \in Handler : request[h].late => request[h].at \in {"idle", "verify"}

\* A signed-in person is shown nothing but events that this person's own
\* collectors shipped, under the account that asks, whatever the events
\* claimed and whoever used the server before (server.go:168,
\* api/tenants.go:48).
AnswerIsOwn ==
    \A h \in Handler : At(h, "answered") =>
        \A s \in request[h].answer :
            s.by = request[h].person /\ s.identity = request[h].account

\* Does not hold: what a person's machines ship stays in one place, over a
\* restart too (directory.go:139, "which is why the server will not start with
\* it").
AccountSurvivesRestart ==
    \A s, t \in stored : s.by = t.by => s.dir = t.dir

=============================================================================
