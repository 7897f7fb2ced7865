# Trace Portal: a TLA+ model, its checks and its proofs

Trace Portal tails the transcripts coding agents write, keeps every API call in
an append-only local archive, compacts finished days to Parquet, serves
dashboards over them, and optionally ships everything to a server that keeps
many tenants. This directory models the parts of it whose correctness depends
on order, on concurrency or on failure: module by module, checked by TLC on
small instances, with the results that matter most proved by TLAPS for all
instances. Paths below are relative to the repository.

## 1. Inventory

| Component | State | Operations | Talks to |
|---|---|---|---|
| Tailer (`internal/ingest`) | offsets, coverage totals, `ingest.json` | `Run`, `Pass`, `loadCheckpoint`, `saveCheckpoint`, `Close` | source, store |
| Claude Code source (`internal/source`) | live coverage counters, project cache | `Files`, `Parse` (`scanJSONL`) | transcripts, tailer (callback) |
| Proxy (`internal/proxy`) | one exchange per request, capture buffer | `ServeHTTP`, `modifyResponse`, `captureReader` | upstream API, store |
| Hot window (`internal/store`, `internal/postgres`, `internal/eventstore`) | events by day, blobs by hash | `Append`, `Events`, `EventsRange`, `Days`, `DropDay`, `Put`/`GetBlob` | tailer, proxy, collector endpoint, compactor, forwarder |
| Compactor (`internal/compact`: `compact.go`, `index.go`, `prune.go`) | partitions, consolidated rollup, cached index | `CompactAll`, `RecompactAll`, `CompactDay`, `RebuildIndex`, `pruneHotWindow` | window, object storage |
| Archive reads (`source.go`, `daily.go`, `read.go`, `page.go`, `sessions.go`, `sort.go`, `filter.go`) | none but the cached index | `TurnsRange`, `DailyRange`, `ProjectDaily`, `AggregateRange`, `SessionDetail`, `SessionsPage`, `SessionsRanked` | window, object storage, cache |
| Object storage (`internal/objectstore`) | objects by key | `Put`, `Get`, `Exists`, `List` | compactor, reads |
| Turns (`internal/query`) | none | `BuildTurns`, `SessionsFromTurns` | compactor, reads |
| Collector shipping (`internal/collect`: `forward.go`, `client.go`) | `forward.json` | `Run`, `Pass`, `SendAll` | store, collector endpoint |
| Collector endpoint (`server.go`) | none | `handleCollect` | registry, tokens, window |
| Device sign-in (`internal/auth/device.go`, `internal/identity/login.go`) | pending requests by device and user code | `Start`, `Poll`, `Approve`, `Deny`; `pollForToken` | tokens, browser, CLI |
| Tokens, directory, provider (`internal/auth`) | hashed tokens; accounts; OIDC metadata | `Issue…`, `Verify`, `Revoke`; `Resolve` | handlers |
| Tenant registry (`internal/tenant`) | open tenants | `For`, `Tenants`, `Close` | API, endpoint, sweeps |
| Enrollment (`internal/identity`) | `identity.json` | `Load`, `Save`, `Logout` | login, forwarder |
| Read API, UI, pricing, events (`internal/api`, `internal/web`, `internal/pricing`, `internal/trace`, `web/`) | none | handlers, tables, data types | reads |
| Program (`cmd/trace-portal`) | - | starts one goroutine each for ingestion, compaction, shipping and HTTP; stops on a signal | all |

What is hard, and for each component what makes it correct:

- **Compactor.** It moves days between two places while events are appended,
  queries run, object storage fails and the process is killed between any two of
  its eleven Puts. Correct: nothing ingested is lost, a day is served exactly as
  ingested at every moment, a marked partition is whole, the window drains, the
  rollup catches up.
- **Archive reads.** Four places are read at different times with no lock
  against the compactor. Correct: a query returns all that was ingested when it
  was asked, and nothing else; a cached rollup row is never wrong about its day.
- **Hot window on files.** Writers share one store per tenant, one open log and
  one set of payload files; a write may stop half way. Correct: what could be
  read stays readable and where it was, an event captured here names no payload
  that is not there, a partition takes every event confirmed by the time its day
  is read, and a damaged log stops no other tenant.
- **Shipping.** Requests and responses are lost, batches half stored, the server
  changed, the checkpoint lost, and where the local window is Postgres it is
  pruned meanwhile. Correct: no record the window still has is stepped over, all
  that nothing releases or holds up are delivered, what is covered is not sent
  again.
- **Tailer.** Appends fail between the events of one record, saves are killed
  half way, two goroutines save on shutdown, transcripts are replaced. Correct:
  no record is skipped, a replay only follows a failure, the checkpoint is whole
  and counts each record once.
- **Device sign-in.** Handlers interleave between the calls of a store that only
  locks each call. Correct: a token goes to the login whose code was approved,
  for the approver, once; an approval is kept.
- **Session paging.** Pages are cut while sessions are held at a frontier, and
  each goes by an index that may be old or half put. Correct: the pages together
  are the unpaged list.
- **Turn building.** Two sources describe one call in any order. Correct: the
  result does not depend on the order or on duplicates.
- **Proxy.** Capture ends exactly once, and tells what the client was sent.
- **Tokens, directory, registry.** Handlers interleave between calls that only
  lock themselves; a restart loses the accounts but not the tenants' data.
  Correct: one account per person, no token served after its revocation, and
  whoever reads sees nothing but their own machines' events.

## 2. Modules

| Module | Models | Extends |
|---|---|---|
| `TurnLedger` | what the archive promises: a ledger that is only added to | - |
| `Archive` | window, partitions, rollup, compactor, crashes; refines `TurnLedger` | - |
| `ArchiveReads` | queries running beside the compactor | `Archive` |
| `ArchiveProofs` | theorems about `Archive`, the queries and their cache | `ArchiveReads` |
| `Forward`, `ForwardProofs` | shipping and the receiving handler; theorems | - |
| `Ingest`, `IngestProofs` | tailer, its checkpoint, start and stop of the process; theorems | - |
| `FileStore`, `FileStoreProofs` | the hot window on files, its writers and the sweep over the tenants; theorems | - |
| `Accounts`, `AccountsProofs` | directory, tokens, the endpoints behind them, restarts; theorems | - |
| `DeviceFlow`, `DeviceProofs` | device sign-in: server, browser and CLI; theorems | - |
| `SessionPages`, `SessionPagesProofs` | the session list: pages, ranked pages, one session; theorems | - |
| `Turns` | how the events of a day become turns, in two passes | - |
| `Capture`, `CaptureProofs` | proxied exchanges and transcript lines as events, and the turns they make; theorems | `Turns` |
| `MC*` | constants for TLC | the module named |

### Archive

A fact is what one event adds to the archive: a turn, or one captured piece of
content of a turn. `hot` is the window, `part[d][file]` the six objects of a
day's partition, `rollup`/`published` the five consolidated objects, `cache` the
`Compactor.index` field. The single goroutine of `runCompaction` is `pc` with
its locals (`todo`, `day`, `snap`, `file`, `wrote`, `draft`); every call that
reads or writes shared state is an action: `StartSweep`, `SkipDay`, `ReadDay`,
`PutDayRollup` (five times), `PutTurns`, `DaysDone`, `ReadPartitions`,
`PutRollup` (five times), `IndexPublished`, `ListHotWindow`, `PruneSkip`,
`Verify`, `Drop`, `PruneDone`. Appends, midnight, an error anywhere
(`SweepFails`), an existence check that fails and reads as "absent" (`Probe`)
and a crash interleave with them. The numbers in a rollup row are abstracted to
the set of facts they were computed from, which is what tells a right row from a
wrong one.

Two switches name what the environment does: `LateArrivals` (events may land on
a day already compacted) and `ShortWrites` (a `turns.parquet` may be stored with
rows missing and no error, the case `pruneDay` reads the file back for).

### ArchiveReads

A query is a record per goroutine: `load` (cached index or the five objects one
by one, then `InstallIndex`), `choose` (the window's days, or `daysHolding`),
then day by day rollup, partition, raw events. `must` remembers what had been
ingested when the query began. Five kinds differ in where they look: `turns`
reads partitions and raw events only; `daily` and `project` the index, then the
day's own rollup; `aggregate` the same for the days wholly inside its window,
with a second object for the breakdown (`split`); `detail` the days the index
names for a session.

`QueryComplete` claims less than one might hope. A day rollup is used without
asking whether the partition it belongs to was finished, so after a failure a
rollup query may answer from half-written days (`Claimed` has the premise
`faults = 0` for these), and a session's detail may go by an index read in the
middle of a publication (`mixed`). Section 6 has the instances.

### FileStore

A log is a sequence of lines, each an event, the payload it names and whether it
is whole. `Take` brings an event in. A writer of this process (ingester, proxy)
stores the payload first and names what it stored: `Stat`, `WriteTemp` and
`Rename` are `putBlob`. A request to the collect endpoint (`Collect`) appends at
once, with whatever reference its event carries (`Beginning`): the endpoint
stores no payload, and a forwarder leaves out content events only, so what the
proxy recorded arrives with references to payloads that stayed on its machine.
`NamedPayloadsWhole` is therefore about events captured here. `BeginAppend` and
`FinishAppend` the two ends of the one write an encoder makes under the store's
lock; `FailAppend` and `Crash` leave the line whole, in part or not at all. An
encoder that failed fails until its log is opened again (`failed`,
`AppendRefused`). A tenant may start with whole lines of an earlier run
(`Earlier`). The sweep takes the tenants by name (`SweepTenant`) and their days
in order (`FirstDay`). The days are over, so a day may be compacted between any
two appends, and between `ReadDay`, which reads it, and `PutDay`, which writes
the partition of what was read. An event confirmed between the two is left out,
and hidden by the partition, for good; `PartitionTakesConfirmed` claims only
what had been confirmed when the day was read (`reading.before`). What is put
and in which order is `Archive`'s matter. `DaysCompacted` is about errors: a
panic while one tenant is compacted ends the loop for all of them
(`main.go:459-463`), which is not modelled.

### Accounts

A handler is a request being served, at the call it makes next: a sign-in
(`Callback`, `Resolve`, `Known` or `TenantFor` and `Insert`, `IssueSession`), or
a request that presents a token (`Verify`, `Touch`, then `Lookup`, `Revoke`,
`IssueCollector`, or `For` and `Query` or `Append`). Every one of these calls
locks only itself. `Restart` loses the directory and the tokens and keeps what
the tenants stored. Any token ever issued may be presented at any endpoint. An
event carries the identity it was captured under, which the endpoint replaces
(`Stamp`). `Query` shows any part of what is in the tenant's own storage: an
event of a day already compacted is hidden by the partition, a day may be pruned
while it is read, and what of all this a query finds is the matter of `Archive`
and `ArchiveReads`. `AnswerIsOwn` says only whose events are shown. How a
collector's token is approved and polled is `DeviceFlow`.

### Forward

`log` is what the local store holds, `captured` all it was ever given. Over
files the two are one. Over Postgres (`Prunes`) the compactor releases a day
once it is compacted (`registry.go:193`, `prune.go:38-57`), and asks nothing
about shipping: `Prune` takes a day out of `log` at any time. Which days are
over and compacted is left out, so the model releases more than the code.
`StartPass` reads the checkpoint and the range, `BatchAccepted`,
`BatchTooLarge` (413, for the number of events or their bytes: halving),
`EventTooLarge` (413 for one event, which fails this pass and every later one
that reads it, `client.go:148-154`), `BatchFails` (lost request, lost response
or a batch stored in part), `CredentialRejected` (401), `Save`, `SaveFails`, and
`Restart`, which may sign in to another server and may lose the checkpoint. An
event stands for its `forwardKey`. A pass sends the days in order (`IsBatch`);
the order within a day is left open. `RangeStart` is how far back `EventsRange`
really goes: to the time asked (Postgres) or to the start of its day (files).
`InOrder` says records are captured at most `Overlap` out of timestamp order.
`EventuallyDelivered` has three exceptions, each of which the code has: the
window releases the record's day first, an oversized record of the same or an
earlier day holds it up (`HeldUp`), or shipping stopped at a rejected
credential. Section 6 has the first two. `RecordedNotResent` is about a store
that returns the range it is asked for, as Postgres does; the file store returns
whole days, and the property fails for it.

### Ingest

A transcript is a generation (a replaced file is a new one) and a number of
complete lines; lines have one length, so sizes are line counts. `EventsOf` is
how many events a record yields (an assistant record with captured content
yields several, most records none), a record being a line of one generation;
`AppendEvent` and `AppendFails` act between them. A pass may still start after
the shutdown began: when both are ready, `select` may take the ticker
(`StartPass`). A save is six steps (`SaveMerge`, `SaveReset`, `SaveMarshal`,
`SaveOpen`, `SaveWrite`, `SaveRename`) of two savers, Run's and the deferred
`Close`, over one temporary file; `renamed` remembers that the open file was
renamed under its writer. `Killed` stops anywhere; `Interrupt` starts the
shutdown (`RunStops`, `Close`, `Exit`); `StartFails` is a start that ends before
Run, with `Close` already deferred; `LoadCheckpoint` may be told to start over
(`-recapture`).

Assumptions of the model: a replaced transcript is visited again before it has
grown past its old offset (`Recognisable`: the code knows a replaced file only
by its being shorter); a file is not replaced while it is parsed; if two
writes to one open file overlap, the later is taken as a whole.

### DeviceFlow

`requests` and `byUser` are the two maps of `MemoryDevices`; `Update` and
`Delete` are its methods. A poll is at `called`, then at the store call its
reading leads to (`slow`, `pending`, `refuse`, `redeem`), then `issue` and
`clear`, and holds its copy of the request meanwhile. `BrowserRead` and
`BrowserStore` are the two halves of `Approve` and `Deny`. `cli` is the loop of
`pollForToken`. A login waits for each answer; `Replay` is a poll that repeats
an earlier one, handled at the same time as another only under `Overlap`. A user
code whose request is gone is not drawn again (eight characters out of 29).

### SessionPages

A turn has a start in ticks, a length in milliseconds and a session; ids are
numbers in their order. A reader has one wish - by recency, ranked, or one
session - and follows the cursors: `LoadIndex`, then `ScanDay` backwards with
`pending` and `complete` as in `SessionsPage` until a page is full or the window
is exhausted (`Exhaust`, `AnswerPage`), or `RangeDay` forwards and
`AnswerRanked`, or `PlanDay`, `DetailDay`, `AnswerDetail`. Meanwhile a sweep
compacts the closed days and rebuilds the index, and today gains turns.

The index is five objects, put one by one (`index.go:129-157`), read one by one
(`:221-243`), and kept in memory by whoever read it, who may install it after
the next version invalidated it (`:199-206`). `versions` is every version ever
put, whole or in part. A request gets the days of one version (`covers`) and the
sessions of another (`known`), whichever: `LoadIndex` allows every mix the code
can produce and some that it cannot, such as a version that a later Put has long
replaced, so what holds here holds of every order of Puts, reads and
installations, and of Puts that failed. Only the objects `day.parquet` and
`by_session.parquet` matter to these requests. `ArchiveReads` has the same index
object by object. A
partition and a cursor keep whole milliseconds (`AsRead`, `CursorOf`), which is
a tick less than what the proxy records. A row remembers the turns it was made
of, which stand for its totals, and the index it was made with. One ranked order
(most turns) stands for the three; a filter is the set of sessions it lets
through. Go's `sort.Slice` promises no order among equals, so a page is cut from
any ordering of its rows that no comparison contradicts (`Sorted`). Closed days
gain no turns here, and the window is not pruned: `Archive` and `ArchiveReads`
are about those.

`RowsWhole` and `ListedOnce` therefore have exceptions. `Split`: a row of
`SessionsPage` may lack a turn when between it and the whole row lies a day on
which the session was idle and before which the index of that request knew
nothing of it; such a part may be listed on a later page although its turns were
in an earlier row, when that page goes by an older index. `HalfIndexed`: a
detail may lack turns of a day, or all of a session, when its index covers the
day without the sessions of it, which is `DetailComplete` of `ArchiveReads`
(section 6). `OnlyEnclosingMissed` says which session the pages may leave
out: one that ends after a listed row and began, by any turn the archive had and
not only by those of the window, on an older day than that row's turns.

### Turns and Capture

`BuildTurns` is two passes over a day, each a recursive function of how many
events are behind it: ordinary events merged by key (`Merged`, `Pair`,
`ApplyEvent`), then results given to the turn that made the call (`Attached`,
`Attach`). Where two turns made the call, the code takes either, as it walks a
map; the model takes one, and no property depends on which: `OrderIndependent`
leaves such content out (`Disputed`), `ReplayHarmless` is about calls one source
records. An event carries one field for each way of merging: a set (tool calls),
a value the last observer sets (usage), one the response overrides (model), a
list (content).

`Capture` runs exchanges of the proxy (`ServeHTTP`, then `HandleError` or
`ModifyResponse`, `Read`s, and the end: `ReadEnds`, `Close`, in whichever order
the stream and the client bring about) beside a tailer that appends the lines of
another call, may stop half way through a line, and may go back (`Replay`). A
frame of an answer is one read; the capture holds `MaxCapture` of them and skips
what does not fit. Events fall into days by their own time. An encoding is
either decoded as far as the body came or not at all; a JSON document is read
whole or not at all. That a payload is stored, and sessions and projects, are
left out. What else the code does to a turn is left out too: the scanner's limit
of 8 MiB to a line of a stream (`anthropic.go:140`), below the 32 MiB a capture
may hold, and fields the first event sets for good (`StartedAt`, `StopReason`),
which do depend on the order.

## 3. Runs

| Run | Instance | Shows |
|---|---|---|
| `archive_server` | 3 days, 4 facts, 2 failures or crashes, pruning, recompaction | served = ingested at every step; a turns file marks a whole partition; published rows are right; the archive implements `TurnLedger`; the window drains |
| `archive_short` | the same, no failures, short turns files | nothing is lost; a day in neither rollup nor window is empty; the rollup catches up |
| `reads` | a laptop: 2 turns on 2 days, no pruning, one reader, all five kinds of query, one failure or crash | a query returns all that was ingested when asked and nothing else; cached rollup rows are right |
| `forward` | a Postgres window that is pruned, 5 records of which one is too large, 2 servers, 2 faults | nothing still held is stepped over, nothing covered is sent again, all is delivered that is not released first or held up |
| `ingest` | one transcript of up to 2 lines, replaced once, one stop, one failure, `-recapture` | nothing skipped, replays only after failures, checkpoint whole, counted once, everything ingested again and again |
| `device` | 2 logins, 2 tabs, a lost connection or restart, a repeated poll | tokens as approved, once; the two maps agree |
| `pages` | 3 sessions of up to two turns over 4 days, pages of one session, any old or mixed index, one turn arriving | rows are whole but for an idle day the index does not know, or days it covers without their sessions; each session listed once but for such parts; only a session that encloses a listed one is missed; ranked pages tile; the listing ends |
| `capture` | one proxied and one tailed call over midnight, one fault, one replay | an exchange ends once in the record; its turn tells what the client was sent; order and repeated lines do not change turns |
| `accounts` | 2 persons, 2 requests at a time, 3 tokens, one restart, failure or expiry | one account per person; a revoked token is never served; a read shows nothing but its reader's own events |
| `filestore` | 2 local writers and a collector's request, 2 tenants, one with a day of an earlier run, 2 days, 4 events, one failure or kill | payloads named by events captured here are whole; what could be read stays; partitions take what was confirmed when the day was read; days are compacted whatever befell other tenants |
| `pages_skip` | the instance of `pages` | **violated**: section 6 |
| `device_approval` | a poll during an approval | **violated** |

Why the bounds are enough. Three days give two finished days, so one can be
compacted and pruned while another waits or fails; two turns on one day let a
count agree while turns differ; one captured content separates the two counts
`pruneDay` makes. Two faults are one that leaves something half done and one
during its repair. Two servers and two faults are a change of server and back. A
transcript of two lines is a turn with content (two events) and one after it,
and the one that replaces it ends with a line that is not a turn. With one stop
a failed start never meets a checkpoint that has something in it; the theorems
about `Ingest` are for any number of stops. Two logins can be given each other's
codes, two tabs can decide one request. One reader is enough for queries because
a query changes nothing but the cache, and its next query runs with what the
last one cached; the theorem about them is for any number. In `reads`, steps
that touch only the query's own record come first (`MCOwnStepsFirst`: they
commute with everything), the failure comes before the second day is over
(`MCFailsEarly`), and after it only queries for turns are followed
(`MCAfterFailure`): those bounds keep the run short, and the theorem needs none.
Two persons and two requests are two first sign-ins of one person, or one of
each; three tokens are a session and a collector of one person and one of the
other. The symmetry of `accounts` is sound because the run checks invariants
only. A batch holds all events: shorter ones are batches whose append failed. In
`forward`, batches of two meet a server that takes one, a record of its own is
over the limit, and days of four ticks (`DayLength`) let one day be released
while the next is shipped; the two servers are alike, so the machine starts
signed in to one of them (`MCInit`). In `filestore`, two writers with one payload between
them meet at every file; the request brings an event of a later day whose
payload is not there; the second tenant is one that must not suffer. Pages of
one session cut between any two; three sessions are one listed, one held back
and one that completes the page; four days hold a session, an idle day, and
today. `MaxRows` stops a reader only after more rows than there are parts of
sessions. Three frames are the start of a stream, a tool call and its closing
usage, and one of them can overfill a capture of three; one replay can repeat
any line in part or from any earlier line on.

Fairness. Archive: weak fairness of the compactor's next step (`runCompaction`
is a ticker loop whose sweep always returns). Forward: weak fairness of the
pass (a ticker; requests have timeouts). Ingest: weak fairness of Run's steps
and of main's shutdown. SessionPages: weak
fairness of the request being served and of a reader asking for the next page.
FileStore: weak fairness of writes returning (`WriteReturns`) and of the sweep
(`Sweep`: one goroutine, a ticker loop over the tenants and their days).
None for appends, failures, crashes, the clock, people
or the agent, and none for which failure comes: faults are bounded, so "every
fault is eventually repaired" is what the liveness properties say.

Every mutant listed in `PROJECT.json` is a plausible slip in one mapped
definition (the commit file tested first instead of last, a recorded offset one
record too far, the overlap forgotten, a map entry left behind); each is caught
by the property it stands beside.

## 4. Proofs

`ArchiveProofs`, for every `MaxDay`, finite `Fact`, `DayOf`, `TurnOf`,
`Content` and `MaxFaults`:

- `TypeCorrect`: `TypeOK` is inductive as it stands.
- `NothingLost` (assuming no late events, but with short writes, failures,
  crashes and recompaction). `NoFactLost` is not inductive: `Drop` deletes on
  the strength of a comparison made before. `KeptInv` adds that what a sweep has
  read is still what the window holds (`SnapCurrent`), that a partition of a day
  still in the window consists of whole turns of it (`PartitionCurrent`), and
  that what `Verify` found still holds at `Drop` (`DropSafe`). The heart is
  `SameCountSameTurns`: of a set of whole turns of the window, equal counts mean
  the same turns, which is why counting is enough.
- `AllServed`: with whole writes, `ServedInv` adds that every compacted day's
  turns file has the day.
- `ArchiveImplementsLedger`: every step appends a fact to what is served or
  leaves it alone.
- `NothingHiddenBeforeAFault` (no assumption on the switches): until the first
  failed sweep or crash, a day that neither the index nor the window has is
  empty. `ListedInv` adds that a compacted day has the file its index row is read
  from (`DayFileStored`), that only a compacted day is released
  (`ReleasedCompacted`, `DropCompacted`), and that the index lists every
  compacted day but for the rest of a sweep that wrote one (`Covered`,
  `CoveredUntilWritten`). It is the last that a fault between partition and index
  breaks: the next sweep wrote nothing and rebuilds nothing (section 6).
- `MarkMeansWhole` and `RowsArePublishedWhole`: with whole writes and no late
  events, `RollupsInv` adds that the six objects of a finished day are alike
  (`PartitionAlike`), that those written so far of the day in hand are
  (`WrittenSoFar`), and, the fact that makes the rest inductive, that a day left
  half written is still in the window and therefore in the list of the next
  sweep before any index is built (`HalfWaits`).

And of `ArchiveReads`, for any number of readers and the same constants:

- `CacheTellsWholeDays`: every copy of the index, stored, being drafted, cached
  or half read by a query, has only rows of whole days (`CopiesInv`). A mix of
  two copies is then as right as either.
- `AnswersAreComplete` (assuming also that nothing is pruned): `AnswersInv` adds
  that what a query must find was found or is of a day still to be read
  (`Accounted`), that a day with anything to find was among the window's days
  when the query listed them, and for an aggregate that the day in hand is in
  the totals before its breakdown is read (`DayCounted`). While nothing failed,
  a rollup that is there is of its whole day (`FreshRollups`).

`FileStoreProofs`, for any events, payloads, writers, tenants and failures:
`PayloadsAreThere`, `NothingUnread` (an action property) and
`NothingConfirmedLeftOut`. `FileStoreInv` says that the holder of a store's lock
is the one writing the last line of its open log (`HolderInv`), so no other step
touches it, that a confirmed event has a whole line (`ConfirmedInv`), and that a
day being compacted has in hand all that was confirmed when it was read
(`ReadingInv`). `PayloadsAreThere` is about events captured here (`RefsInv`);
`NothingConfirmedLeftOut` leaves out what is confirmed after the reading.

`AccountsProofs`, for any persons, handlers, events and bounds:
`AccountsTellPersonsApart`, `RevocationIsFinal`, `ReadsAreOwn`. `AccountsInv`
says that a tenant between `TenantFor` and `Insert` is nobody's and holds
nothing (`InsertInv`), that a token in force names its person's account
(`TokenInv`), and that what is stored is of its tenant's person, or of nobody
the running process knows (`StoredInv`). `ReadsAreOwn` says that nothing of
others is shown, not that all of one's own is.

`DeviceProofs`, for any logins, codes, tabs and repeated polls, overlapping or
not: `TokensAsApproved` and `MapsStayInStep`. `DeviceInv` carries the approval
from the request through every copy a poll or a tab holds (`RequestsInv`,
`PollsInv`, `BrowserInv`). `OneTokenEach`, assuming that no two polls of one
login are handled at once (`~Overlap`; without it the property is false, section
6): `IssuedInv` adds that such polls are indeed apart (`SinglePoll`), that the
one about to mint is the first (`IssuesFirst`), and that a request whose token
was minted is gone, or about to be removed by the poll that minted it, so that
no decision written back late gives it a second life (`IssuedGone`).

`CaptureProofs`, for any calls, whichever the proxy and the transcripts have,
and every bound: every invariant of `Capture`.

- `CaptureTypeCorrect`: a capture never holds more than it may, and no line is
  stored that was not written; a frame that fits is one the capture has not got
  (`HeldAppend`).
- `ExchangeEndsOnce`. `CaptureInv` adds to `EndedOnce` that nothing tells the end
  of an exchange that is still under way, and that what a day holds is never
  changed but only appended to (`AppendEnds`).
- What `BuildTurns` computes is `TurnsBuilt`: there is a turn for every key, and
  it says what the set of events says (`Says`), of usage what the last event to
  set it does. `MergedTurns` and `AttachedTurns` prove that of each pass after
  any number of events, by the least number for which it fails
  (`LeastCounterexample`); that the recursive functions exist at all is proved
  the same way (`MergedSteps`, `AttachedSteps`). So two streams with the same
  events have the same turns, whatever their order and however often an event
  comes (`SameEventsSameTurns`), if no two events name different models for a
  turn.
- `TurnsIgnoreOrder` needs just that premise. `ToldInv` gives it: an event with
  no message id is what the proxy recorded of an exchange, under the alias, and
  one with a message id is of a transcript, under the model served.
- `TurnsTellExchanges` uses `ToldInv` in full: a stored response is the one the
  capture makes now, since nothing is read after the end; and `KeptInv`: a
  capture that left nothing out has what was delivered (`ResponseTells`).
- `ReplayIsHarmless`. `LinesInv` says of a day, with a transcript's lines some
  appended and some again (`Kept`): what it has of the call is of lines reached;
  it has all of the lines the offset is past; and the last measure in it is that
  of the last line it measures by, unless a line beyond the offset was reached,
  which will be appended again. When the tailer has caught up there is no such
  line.

`ForwardProofs`, for every set of records, servers, `Overlap`, `RangeStart`,
batch size and number of faults, whatever days are released and whatever the
server refuses: `TypeCorrect` (the batch size never reaches zero) and
`NeverSteppedOver`, assuming records are captured in order up to the overlap.
`ForwardInv` extends the property to servers the machine is not signed in to,
and says of a pass under way that all it read and the server lacks is still
pending, if the store still has it, and what was captured since is recent
(`PassSound`); a recorded time is the time of some record (`CheckpointSound`).
`RecordedIsNotResent` assumes instead that the store returns the range it is
asked for; no order of capture. `RecordedInv` says of what the checkpoint
accounts for that it is listed among its keys while it is recent enough to be
read again (`RecordedListed`), and of a pass under way that none of it is
pending and all of it that will be recent was read, and so gets into the next
checkpoint (`PassCovers`).

`IngestProofs`, for every set of transcripts, whatever their lines are made of,
and every bound: `TypeCorrect`, `NothingIsSkipped`, `ReplayedOnlyOnFailure`, and,
of a process that is only ever killed, `CheckpointIsWhole` and
`RecordsCountedOnce`. `IngestInv` says of every offset there is, in memory, in
either file or in a save under way, that the records before it are stored and
that it is of the transcript as it is or of one it has replaced (`OffsetsInv`);
of the transcript being parsed the same down to the event (`ParseInv`); that
what this process has passed it appends no more (`ReplayInv`, `Passed`); and that
the counts persisted, in memory and halfway between count each record as far as
the offsets beside them go (`CountInv`). A killed process never runs two saves
at once (`SaversInv`), which is why the last two need the premise `exact`.

`SessionPagesProofs`, for any sessions, histories, arrivals, windows, page sizes
and lengths of a day, whatever is compacted between two steps and whichever
versions of the index a request loads: of these nothing is used but that they
are sets of days with partitions (`ArchiveInv`). That closed days gain no turns
and that what arrives begins today are assumptions on the constants
(`ArchiveAssumption`). `PagesInv` is what they share:

- `RowsAreWhole`. Two different arguments. `SessionsRanked` and `SessionDetail`
  read every day that may hold something: `GatherInv` says that the days behind
  are read, and that every day with a turn of the session is planned but for
  those of `HalfIndexed`; `FoundInv` carries that to a detail that finds
  nothing. `SessionsPage` lets a session go when the day read is older than all
  it knows of it: `ScanInv` says that a turn behind the scan is held, or that
  its session was let go on an earlier day than the turn's, one on which it has
  nothing in the window and up to which the index of the request knows of
  nothing (`Closes`). `RowsInv` turns that into rows: such a day lies between a
  row and every turn it lacks (`Cut`), those of rows listed before included
  (`Standing`). A cut is a `Split` (`CutIsSplit`).
- `SessionsAreListedOnce` adds that listed rows stay behind the cursor
  (`CursorInv`), and compares no two indexes: a new row from which no turn of a
  listed row of its session is split has all turns of that row, so it ends no
  earlier, and the cursor ruled it out (`OnceStep`).
- `OnlyEnclosingAreMissed`. `LeadInv` follows the one turn a session ends with
  until a page is cut: it is before the scan, held, or in a row; held when the
  page is cut, its session has a turn of an older day than every row. `MissInv`
  carries that from page to page.
- `RankedPagesTile`. `TileInv`: the pages answered are a beginning of the list of
  whole rows in their order. The step takes that two beginnings of one list, of
  one length, have the same members (`SameBeginning`), which is where every page
  being cut from its own sort would go wrong if the order were not total
  (`PrecedesOrders`).
- `PagesTypeCorrect`: the type invariant, with `RequestInv` (the rows of a request
  are finite and what they say of themselves is right).

Only model-checked: liveness (`WindowDrains`, `IndexCatchesUp`,
`EventuallyDelivered`, `EverythingIngested`, `ListingEnds`, `DaysCompacted`),
which is out of the prover's reach. So are the library's induction theorems,
which take an operator; where a fact needs induction over numbers or along a
sequence, it is proved by the least counterexample (`LeastCounterexample`,
`MinIsLeast`, `MaxIsGreatest`).

## 5. What is not modelled

Wire formats, Parquet encoding, arithmetic of costs and totals, the text of
pages and messages; the exchange with the identity provider and the cookies of a
pending sign-in (a library and one browser's state); `TenantPerEmailDomain`,
which no command uses; which characters an id may have; the S3 protocol and the
SQL of the Postgres window, whose promises (a Put replaces one object, a
statement is one transaction) are what the models start from; `enrollment` (one
file, one command at a time); pricing tables and event types (data); the UI.

## 6. Where the code and its documents disagree

With a run of their own:

- `pages_skip` - a page is cut while a session that ended later is still
  pending at the frontier (one over midnight, or one long turn); the cursor
  excludes it from every later page.
- `device_approval` - a poll writes its copy of a request back over an approval
  made since it read it.

Seen with the same modules and without a run of their own (instance, property):

| Instance | Property | What happens |
|---|---|---|
| `archive_short` with `MaxFaults = 1`, `ShortWrites = FALSE` | `KnownEmptyIsEmpty` | the index is rebuilt only by a sweep that wrote something or found an object missing; after a crash before the rebuild the next sweep releases a day the index does not cover |
| `ingest` with `MaxGen = 0`, `MaxStops = 2`, no failures | `FailedStartHarmless` | a start that fails after `defer ingester.Close()` and before the checkpoint is loaded saves the empty state over it |
| `pages` with `Oldest(Held(s))` for `Oldest(Of(turns \ arrived, s))` | `OnlyEnclosingMissed` | the index knows the days before the window too: a session with a turn there and one in it is held to the end of the window, and is missed as well |
| `pages` without the premise `Exact` | `OnlyEnclosingMissed` | the cursor keeps milliseconds: of two sessions that end within one, a page boundary skips the second |
| `archive_short` with `LateArrivals = TRUE`, `ShortWrites = FALSE` | `NoFactLost` | `pruneDay` counts and then deletes: an event of that day appended in between is deleted and is in no partition |
| the same with `Prune = FALSE` | `PartitionNotPartial` | a past day compacted during the backfill stays partial |
| `archive_server` with `LateArrivals = TRUE` | `WindowDrains` | a day whose partition and window differ ends every sweep at that day |
| `archive_server` with `LateArrivals = TRUE`, `MaxFaults = 1` | `TurnsFileMeansWholePartition` | recompaction that fails half way leaves new rollups beside an old turns file that marks them whole |
| `reads` with `Prune = TRUE` | `QueryComplete` | a day released between two reads of a query is reported empty |
| `reads` with both turns on the first day and `Kind = {"daily"}`, without the constraints and without the premise `faults = 0` | `QueryComplete` | a day rollup of a partition that was never finished is served |
| `reads` with `Kind = {"turns"}`, `MaxFaults = 0` | `CacheFresh` | a rollup read during a rebuild is cached after the invalidation, and stays although `index.go:181-185` knows "no staleness window" |
| `reads` with `Kind = {"detail"}` | `DetailComplete` | an index read while it is published covers a day whose sessions it does not have; the day's turns are missing from a session's detail, where `index.go:129-134` expects no more than a day late in the model split |
| `pages` without the exception `HalfIndexed` | `RowsWhole` | the same of `SessionDetail` as a reader of the session list meets it |
| `reads` with `Kind = {"aggregate"}` | `BreakdownAgrees` | totals and breakdown are read from two objects at two times |
| `filestore` | `ConfirmedReadable` | a kill in the middle of a line leaves a part of it, and the next event is appended behind that: `Events` of the day then errs for ever, the sweep stops there for this tenant, and a forwarder whose range has the day cannot pass. `README.md:175` says appending "is fast and crash-safe" (also `compact/schema.go:3`, `eventstore.go:5`) |
| `filestore` with `OfDay(confirmed, t, d)` for `reading.before` | `PartitionTakesConfirmed` | an event of a finished day that is confirmed after `CompactDay` read the day and before it put the partition is in the log, not in the partition, and hidden by it |
| `filestore` with the writers of `Collect` included | `NamedPayloadsWhole` | an event that was shipped refers to a payload the server does not have |
| `accounts` with `Handler = {h1}`, `MaxTokens = 4`, `MaxExpired = 0` | `AccountSurvivesRestart` | after a restart a person signs in to a new, empty tenant. `directory.go:139-142` says that is "why the server will not start with it"; `cmd/trace-portal/auth.go:106` starts with it |
| `forward` with `InOrder = FALSE` | `NothingSteppedOver` | a record of a past time appended after the checkpoint moved past it by more than the overlap is never shipped (`forward.go:20-24`, `:33-36`) |
| `forward` without the exception `e \notin log` | `EventuallyDelivered` | the Postgres window releases a compacted day that was never shipped, where `forward.go:20-24` says that a server that is down "delays delivery and never loses a turn" |
| `forward` without the exception `HeldUp` | `EventuallyDelivered` | one event over the server's limit by itself is refused by every pass, and nothing behind it is shipped; `client.go:131-134` halves so as not to "strand a backlog permanently" |
| `forward` with `RangeStart <- WholeDays` | `RecordedNotResent` | the file store returns whole days, the checkpoint remembers an overlap |
| `ingest` with `MaxStops = 2` and no failures | `NotCountedTwice` | both savers merge the counts before either clears them |
| `capture` with `Call = Proxied = Tailed = {a}` | `OneTurnPerCall` | the proxy takes no message id from an answer, so a call it records and a transcript describes is two turns; a call over midnight is two turns as well, one of them pending for ever |
| `capture` | `ServedModelShown` | the proxy fills in the served model only when the request named none, so the turn keeps the alias |
| `device` with `Overlap = TRUE` | `OneTokenPerLogin` | two polls handled at once both find the request approved |

## 7. Plan

Done: every component of section 1 but those of section 5 has its module; every
safety property of the runs is proved for all instances, under the assumptions
section 4 names. What is left, in this order:

1. Proofs: an abstract delivery (what is captured arrives, at least once, and
   nothing else does) that `Forward` and `Ingest` both implement, as the archive
   implements `TurnLedger`; which calls have one turn (`OneTurnPerCall` for those
   one source records on one day).
2. The sign-in from the provider's redirect on, with its cookies; `Accounts` and
   `DeviceFlow` composed, so that an approval meets a sign-out or a restart.
3. Larger instances where a run is now short of a case: two failures in
   `FileStore`, two readers in `ArchiveReads`.
