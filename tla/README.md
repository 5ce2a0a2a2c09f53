# TLA+ models of NATS Surveyor

NATS Surveyor (`src/`) surveys a NATS system for Prometheus. On each scrape it
pings the servers through the system account and exports what they answer; it
also subscribes to the latency samples of services ("observations") and to
JetStream advisories, as JSON files in watched directories tell it to.

This directory models the parts of it whose correctness depends on the order of
things: goroutines that share connections, callbacks that race with timeouts,
configurations that are replaced while others are, servers that answer late or
never. TLC checks the models on small instances; TLAPS proves their safety for
every instance. `PROJECT.json` lists the components, the runs, the
hazards, what each definition models (`map`), and the theorems.

    tlc -workers 2 -config pool_safety.cfg MCConnPool.tla
    tlapm ConnPoolProofs.tla

## 1. The system

| component | code | state | operations | module |
|---|---|---|---|---|
| connection pool | `conn_pool.go` | cache of connections by credentials, use counts, list of connections it replaced | `Get`, `ReturnToPool`, `Close` | `ConnPool`, `ConnLease` |
| service observation manager and listener | `observation.go` 244-558 | map of ID to listener; per listener a connection, a subscription, running flag; a gauge | `Start`, `Stop`, `Set`, `Delete`, `ConfigMap`; listener `Start`, `Stop` | `ObsManager` |
| observation configuration and handler | `observation.go` 160-460 | token positions; metrics by service and account | `Validate`, `observationHandler` | `ObsConfig` |
| JetStream advisory manager, listener, handler | `jetstream_advisories.go` | as for observations, two subscriptions per listener | the same | `AdvConfig`, `ObsManager` |
| filesystem watchers | `observation.go` 560-756, and the same for advisories | a watcher and its goroutine | `start`, `stop`, directory walk, create, write and remove events | `FSWatcher` |
| statz collector: survey | `collector_statz.go` 1001-1172, 1760-1830 | poll key, replies, round trip times, known servers, counters | `Collect`, `poll`, `handleStatzResponse` | `StatzPoll`, `Survey` |
| statz collector: requests and merging | `collector_statz.go` 1174-1525, 2286-2480 | per account and server details, count of surveys without a connection | `requestMany`, `getJSInfos`, `getAccStatz`, ... | `StatzRequests` |
| statz collector: metrics | `collector_statz.go`, `metrics.go`, `jsz_filter.go` | descriptions | one metric per field | in part `StatzRequests` |
| surveyor | `surveyor.go` | `running`, connection, collector, HTTP server, the managers above | `Start`, `Stop` | `Surveyor` |
| HTTP endpoint, command line | `surveyor.go`, `cmd/root.go`, `main.go` | options | basic authentication, flags | none |

How they interact:

- Everybody gets NATS connections from **one pool**: the surveyor itself (for the
  collector) and every listener, each with its own credentials or shared ones.
  Callers are the goroutine of `Start`, the watchers' goroutines, and users of
  the package. The pool closes a connection when its last user returns it; the
  surveyor's `Stop` closes the pool with `force`.
- A **watcher**'s goroutine and the directory walk of `Start` call `Set` and
  `Delete` of a **manager**; `Stop` of the surveyor calls the manager's `Stop`
  from another goroutine. The manager starts and stops **listeners**, which call
  the pool, outside its lock.
- Prometheus scrapes call **`Collect`**, possibly several at a time; a singleflight
  group runs one. `poll` talks with the callback of its reply subscription over
  an unbuffered channel and the collector's lock.

What is hard, by component (the `hazards` of `PROJECT.json` give the lines):

- *pool*: a flight returns a connection without counting its user in, so another
  user's return may close it first; one flight's connection goes to many users; a
  connection that reconnects is replaced in the cache while it is in use; the
  returning user must take out of the cache only itself; locks are taken in two
  orders. **Right** when the count is the number of holders, the cache offers only
  open connections of the right credentials, no socket is left without somebody
  who closes it and none is closed under a user, and every `Get` returns.
- *managers*: `Set` and `Delete` give up the lock in the middle, `Stop` does not.
  **Right** when the map offers only running listeners, no listener runs that
  nobody can stop, what is replaced or deleted stops, and the gauge counts.
- *watchers*: events, the walk and `Stop` overlap; a rename is neither a write nor
  a remove. **Right** when each file's last version is what runs.
- *survey*: replies of an earlier ping arrive in a later poll; the callback offers
  a reply nobody takes any more while it holds the lock `poll` needs; more servers
  answer than expected. **Right** when a scrape exports answers to its own ping
  only, each with its round trip time, no more than expected, counts who is
  missing, and ends.
- *requests*: timers are reset by a callback, the channel is bounded, and the
  callback may outlive the request; accounts are skipped by a counter that lives across
  surveys. **Right** when a request reads no more than is expected, leaves no goroutine
  behind that it could do without, and the counter counts.
- *merging*: one server's refusal or repeated answer must not spoil the others'.
  **Right** when an account's total has each stream once and each
  server's own series are exported once.
- *surveyor*: `Start` may fail half way and gives up its lock around its own
  `Stop`. **Right** when a failed `Start` can be repeated and `Stop` undoes all.

## 2. The models

### ConnPool, ConnLease — the connection pool

A *user* is a goroutine in `Get` or `ReturnToPool`; a *key* is the hash of its
`NatsContext` after the defaults are filled in; `c \in Conns` is a
`pooledNatsConn`. A step is one critical section of `cacheMu` or `openMu`, one
call of the singleflight group, or one call of nats.go that changes a socket:

    StartGet -> Lead -> Lookup -> [ListOpen] -> DialOk -> Store -> Finish -> Count | Retry | GiveUp
             \> Join ------------------------------------------/
    ReturnToPool -> [Shut]          CloseBegin -> CloseForce* | (CloseReturn, CloseShut)* -> CloseEnd

`want`, `got` and `tries` are a call's local variables; `cache`, `connKey`, `count`,
`closed` and `openConns` are the fields of the code; `nc` is the state of the
`nats.Conn`. `Lookup` keeps `cacheMu` when it goes on to `ListOpen` (the code takes
`openMu` under it), and `Close` keeps `openMu` throughout, so the lock order is
modelled. `Disconnect` and `Reconnect` are nats.go's; with `MaxReconnects(-1)` and
`IgnoreAuthErrorAbort` a connection never closes by itself. A `pooledNatsConn` is
allocated by `DialOk` from those nothing refers to any more (`Unused`), as the
garbage collector would: a stale pointer keeps its object alive, so recycling hides
no confusion of two connections. The counter is a `uint64`: it wraps at `MaxCount`.

`ConnLease` is what the pool promises, with no cache, count, flight or lock: a
connection is leased to a set of users, retires when the last gives it back, is
never leased again, and only then is its socket closed. `ConnPool` implements it:
the holders stand for the count, `closed` and the socket for the phase.

### ObsManager — managers and listeners

A *caller* is a goroutine in `Set`, `Delete` or `Stop` of the manager; a listener
is a `serviceObsListener`, `running` while it is subscribed and holds its
connection. `Set` is `SetLook` (first critical section), `SetStart` or
`SetStartFails` (the new listener's `Start`), `SetInstall` or `SetRefused` (second
critical section), and `Retire` (the old listener's `Stop`) or `SetUndo`. `Delete` is
`DeleteLook` and `Retire`. The manager's `Stop` holds its lock from `StopBegin` to
`StopEnd`, and so keeps the others out (`Free`). `Overlap` says whether calls for
one ID may overlap. The manager of JetStream advisories has the same steps.

### ObsConfig — validation and use of token positions

`Validate` looks at the topic of a configuration that aggregates accounts and at
the positions of the account's and the service's name in it; `Observe` is the
handler's use of these positions on a subject that NATS delivers for that topic.
Positions are 1-based, 0 means unset, and a topic that ends in `>` is shorter than
the subjects it matches. TLC takes all topics and positions up to a size.

### AdvConfig — listeners of JetStream advisories

Extends `ObsConfig` by `jsAdvisoryListener`: `ValidateListener`, `Connect`, `Subscribe`
or `SubscribeFails` for each of its two subscriptions, `StopListener`, and `Advise`, the
handler up to the parsing of the event. The handler has one code for both subscriptions
and tells them apart by their subjects (`TokenPosition`, line 543). When both have the
same subject, advisories use the metrics' position: `AdvisoryAccount` leaves this case
out. The rest of `jetstream_advisories.go` repeats other files in other names: its
manager (653-796) is `ObsManager`, its watcher (798-983) `FSWatcher`.

### FSWatcher — files, events and the walk

Extends `ObsManager` by the watcher and by the files it watches. A caller of the
manager is now either a *walker*, a goroutine in the surveyor's `Start` or `Stop`, or a
*goroutine* of the watcher, one for each start of it. `disk` is what is at each path;
`Change`, `MoveAway`, `MakeSub` and `RemoveSub` change it and put the events that inotify
gives into the watcher's `queue`, if the directory is `watched`.

    event:  TakeWrite -> WalkDirectory -> WalkList -> (WalkRead -> WalkSet -> manager's steps)* -> WalkEnd
            TakeRemove -> (DropOne -> manager's steps)* -> DropEnd     TakeRename
    start:  StartWatcher, and the same walk from the top                Exit
    stop:   StopWatcherBegin -> StopWatcherEnd

A file's version that was read is in `hand` until it is set, a snapshot of the map is in
`todo` until it is deleted. `stop` keeps the watcher's lock (`wlock`) while it sends on
`stopCh`; a walk needs that lock to watch a directory. `stray` is a history variable: the
files that the code may lose track of (see `InStep` below).

### Surveyor — Start and Stop

Extends `FSWatcher` by `surveyor.go`. `lock` is the surveyor's, `at` the place of a caller
in `Start` or `Stop`:

    StartCall -> [StopEnters ... -> Relock] -> Connect -> Collect -> Manage -> Watch -> WalkBegin -> Serve
    StopCall | StopEnters -> Unserve -> Unwatch -> Sweep -> CloseConns

each step of `Start` with its failure. `StartCall` gives up the lock when it finds a
running surveyor without an open connection, to call `Stop` (line 502). `Lose` closes the
surveyor's connection from outside. `CloseConns` is the provider's `Close(true)`: it
cuts off every listener that is still there (`cut`). Two more history variables: `failed`, and
`crossed`, the files that a `Set` had started a listener for when `CloseConns` last happened,
until another `Set` installs one that has its connection, with none of the former under way
(`Renews`).

### StatzPoll, Survey — one survey after another

`Begin` to `Leave` are `poll`, `Build` is the rest of `Collect`; `Offer`, `Late`,
`Extra`, `OfferTimeout` and `Record` are the callback `handleStatzResponse`. It holds
the collector's lock from `Offer` to `Record`: `LockFree` guards each critical section
of `poll`. A reply is a pair of its server and the poll key its subject ends with; it
stays in `pending` for as long as the network pleases, or for ever. `heard` is a
history variable: who has replied since and in the last complete poll.

`Survey` is what a survey promises, with no channel, lock, key, timer or marks: it asks once,
gathers each answer to this question at most once, closes with the last one it expects or
when time is up, counts the known servers that are missing, and publishes all that it has
gathered, or nothing if it failed. `StatzPoll` implements it: an answer is under way while it
is pending or offered under the current key; the replies' servers are what is gathered.

### StatzRequests — the requests after the ping, merging, and what is exported

`Begin`, `Finish` and `Build` take the survey from one request to the next (`phase`:
gateways, raft, accounts, JetStream, then the export); `Send` to `Unsubscribe` are
`requestMany`, whose callback puts replies into a bounded channel and may block on it;
`ReadPlain`, `ReadAccounts`, `ReadJsz`, `ReadBad` and `ReadNotEnabled` read one reply each.
What a reply says is chosen when it is read. `jss` are the JetStream replies with the
details they have by now: `mergeStreamDetails` works in place on a later reply, and
`jsAccInfos` points to the one that stands for an account. The two nested loops of the merge
(over streams, and over a stream's consumers) are recursive functions of the loop's index. A
server names the streams of an account, and the consumers of a stream, once
(`StatzRequestsAssumption`; nats-server keeps both in maps by name). `Init` also begins with
replies given by a user of the package (`WithStats`), which are merged alike.
`StreamSeries` and `ConsumerSeries` are what `Collect` exports of it all. `silent`, `seen` and
`answers` are history variables: what was told.

## 3. The runs

| run | instance | shows |
|---|---|---|
| `pool_safety` | 3 users, 2 keys, 3 connections, `Close(true)`; 540 thousand states up to symmetry | `CountIsUsers`, `CacheConsistent`, `CredentialsMatch`, `NoConnLeak`, `ReplacedIsListed`, `NeverClosedUnderUser` |
| `pool_live` | 2 users, 1 key, 3 connections | `GetReturns`, `LastUserShuts`, and the refinement `ImplementsLease` with its liveness |
| `pool_unforced` | the same, with `Close(false)` | `CacheConsistent` and `ReplacedIsListed` survive even that |
| `obs_serial` | 2 callers, 2 IDs, 2 configurations, 3 listeners, no two calls of one ID at a time | `RegisteredRuns`, `NoOrphan`, `GaugeCounts`, `RetiredStops` |
| `obs_overlap` | 1 ID, calls of it overlap | violates `ConfigMapHasAllRunning` |
| `obs_gauge` | 1 ID, one call of it at a time, and `Stop` | violates `GaugeIsRunningListeners` |
| `config_handled` | topics of 1 to 3 tokens, positions -1 to 4; for advisories two subjects of 1 to 3 tokens | `AcceptedIsHandled`, `AdvisoryAccount`, `SubsEndWithConn` |
| `config_optional` | the same | violates `ServicePositionIsOptional` |
| `poll_survey` | 3 polls of 2 servers; 1, 2 or any number expected | `FreshStats`, `StatsHaveRtt`, `SurveyedAsExpected`, `MissingCounted`, `PollEnds`, and the refinement `ImplementsSurvey` |
| `poll_late` | 2 polls | violates `LateRepliesCounted` |
| `statz_requests` | 3 servers, any number or 2 expected, 1 account with 4 possible reports of streams and consumers; 1.06 million states | `AsExpected`, `BlockedByExcess`, `LeftOutWhenSilent`, `MergedIsUnion`, `SeriesAreDistinct`, `OwnValuesExported`, `LeadersExported` |
| `lifecycle` | 2 callers, 2 watcher goroutines, 1 file in a lower directory, 2 configurations, 3 listeners, 2 changes, 3 calls, 1 lost connection; 2.6 million states up to symmetry | `QuietAfterStop`, `ServesWhenUp`, `InStep`, `NobodyStalls` |

The type invariants are checked with the first run of each module. Each property
has in `PROJECT.json` a mutant of the code, defined in its module next to what it
changes ("Mutant: ..."), that breaks it.

`InStep` says that when all events are handled, what the manager has is the last version of each
file. It leaves out the files in `stray`, which the code does lose track of: a file that
changes while a starting surveyor walks the directory or while the goroutine of an
earlier watcher, which `Stop` does not wait for, is still about (the older version may be
set last); one that is moved away or renamed (`handleWatcherEvent` has no case for it);
and one whose listener could not start, which nobody tries again. A write of a valid file in
settled times, in a directory that is watched, heals it. `ServesWhenUp` leaves out a surveyor
that a failed `Start` has left up (`failed`): it keeps `running` set (line 523), and with its
connection open the next `Start` returns at once, without what the failed one has not made; a
`Stop` repairs this. A `Start` that fails at its first connection leaves the surveyor down and
excuses nothing.

`InStep` says of a valid file's listener that it has its connection, too, but for the files in
`crossed`: a `Set` that has started its listener when `Stop` closes all connections, and comes to
its second critical section only after the next `Start`, installs a listener that hears nothing
any more; a later write of the same configuration finds it there and returns at once
(`observation.go:516`), so that only a write of another one brings the file back. It takes the
goroutine of the earlier watcher, which `Stop` does not wait for: with three changes of the file
(`lifecycle` has two) TLC finds `InStep` violated when this exception is left out.

`NobodyStalls` says that while a `Start` or a `Stop` is under way, one of them finds all that it
needs for its next step (`CanGoOn`), without waiting for a goroutine; and that who finds it has a
step (`ENABLED`), so that `CanGoOn` is what the actions say.

### Findings

The four runs that violate a property show where the code does not do what its
comments or help texts say.

1. `obs_overlap`: `Set` installs its listener over whatever the map holds by then
   (`observation.go:541`). When two Sets of one ID overlap and neither found a
   listener at first, the first one's listener stays subscribed, in no map, and
   nothing can stop it. The watcher's goroutine and the directory walk of a surveyor
   that starts both call `Set`.
2. `obs_gauge`: `Stop` sets the gauge to 0 (line 473) although a `Set` may have
   counted a listener that it has not installed; undoing it makes the gauge -1.
3. `config_optional`: `Validate` panics (line 218) on a configuration that leaves the
   service name position unset, which the comment at line 180 calls optional.
4. `poll_late`: a reply after its poll's timeout but before the next poll counts as
   "extra", not as late (`collector_statz.go:1024`); the help text (line 690) counts
   every reply that is received too late.

Two things the models show of the pool that contradict no text: `Close(false)` returns
connections for users that will return them again, which makes counts wrap, and it
takes the locks in the other order than `Get`, so both can wait for each other for
ever; `surveyor.go:581` calls `Close(true)` only. And each `Get` while a server is away
lists its connection once more in `openConns`, without a limit until it closes.

The same holds of what `StatzRequests` shows beside its properties. Since the merge is in
place, a later server's answer takes in the streams of earlier ones (line 1322), and
`Collect` exports them a second time, under the later server's name;
`OwnValuesExported` and `SeriesAreDistinct` say what survives it: no server's own series is
lost or doubled. With leaders only, a stream of which no
leader is told (on servers without a cluster) is exported by nobody.
A request whose error is swallowed leaves its part of the survey empty, with `nats_up` 1. One
server that answers "jetstream not enabled" makes `getJSInfos` return with nothing (line
1298). And a callback of `requestMany` that finds the channel full when the request ends
stays blocked for ever (line 2304): `BlockedByExcess` says what it takes.

### Bounds, and why they are enough

- `MaxTries` is 2 (10 in the code): one retry and giving up both happen.
- `MaxCount` is 7 or 3 (2^64-1 in the code): above the number of users, so that only an
  error can wrap. `TypeCorrect` and `CountCorrect` are proved for every `MaxCount`.
- `MaxOpen` is 1: no `Get` starts while an open connection is listed more often than
  that. Gets already under way list it again, so entries of two and more occur.
- Three connections for three users and two keys: one cached, one replaced and still
  in use, one on its way out. Two users on one key make every pair of steps of `Get`
  meet; the third shares a flight or brings the other key.
- `MaxDrift` is 1: `Stop` does not start once the gauge is below zero.
- Three listeners and two callers: one in the map and one in each caller's hands.
- `MaxPolls` is 3: a reply may be late by one or two polls, and a server may be missing
  from two incomplete polls in a row, which `MissingCounted` needs.
- Two servers, of which one or two or any number are expected: too few, enough and
  too many replies. Three servers in `statz_requests`: with two expected, one answers in
  excess of the read ones and one of the channel.
- `ChanSize` is 1 (100 in the code), `ZeroConnSkip` 2 (3): full and exhausted in few steps.
  Both are arbitrary in the proofs. The four reports of an account have no stream, one
  stream with a consumer led here or there, and two streams in another order with more
  consumers, so that a merge has to skip, to append and to descend.
- In `lifecycle`, one file suffices for two goroutines and a walk to meet on one ID, and
  it is in the lower directory, whose creation the watcher has to follow. Two
  changes: one that is read and one that comes after. Three calls: `Start`, and two that
  overlap it or each other; the surveyor may be lost and started again. Two goroutines:
  that of the watcher and one that outlived its own. `MaxDrift` is beyond reach.

`CHECK_DEADLOCK FALSE` is said of `pool_unforced` (the lock order above),
`config_*` (a rejected configuration is the end), `poll_*` (after `MaxPolls`) and
`lifecycle` (after `MaxCalls`); there, `NobodyStalls` says that no `Start` or `Stop` is left
waiting.

### Fairness

- A step that waits for a lock is strongly fair: a `sync.Mutex` is handed to a waiter
  that has waited for a millisecond. That is why an endless series of other goroutines'
  `Get` cannot starve one.
- Steps that wait for nothing, or for a dial or a listener's connection that ends with
  an error if nothing else, are weakly fair. The timers of `poll` and of the callback
  fire; since a reply may be received just before, `poll` as a whole is strongly fair.
- Nothing makes a user return its connection, a server reconnect or reply, or a new
  `Get`, `Set`, `Close` or scrape start. `GetReturns` nevertheless holds: a `Get` ends with
  a connection or an error after at most `MaxTries` flights.

## 4. The proofs

`ConnPoolProofs`, for every set of users (finite), keys and connections, every
`MaxTries` and `MaxCount` not below the number of users. `AnyInv` holds however `Close` is
called; each of its parts is preserved under those before it:

- `ControlInv`: the types; who has a key and a connection at which step (`HandInv`);
  one flight for a key (`OneFlight`).
- `PoolInv`: the cache is consistent; a connection just dialled is referred to by its
  flight alone, counted, listed and returned by nobody (`StoreInv`); a flight that finishes
  and a user that waits to be counted have connections of the right credentials
  (`FinishInv`, `CredentialsMatch`). `StoreInv` is what makes recycling and `DialOk`
  harmless, `OneFlight` what makes `Store` harmless.
- `ListInv`: between `ListOpen` and `Store` the cached connection, if not closed, is
  listed (`DialListed`), so what `Store` replaces is in `openConns`.

`IInv` adds what needs `Close` to be called with force, as in `surveyor.go`
(`CloseModes \subseteq {TRUE}`), because `Close(false)` returns connections for users that
will return them again: `ForcedOnly`; that what a user holds is open unless its last user has
gone (`UseInv`); `CountIsUsers` (the count of a connection nobody refers to is that of no
holder); and `OwnedInv`, which says who owns each open socket: this gives `NoConnLeak`.

`TypeCorrect`, `CacheCorrect`, `CredentialsCorrect` and `ReplacedListed` follow from `AnyInv`
and so hold for both modes; the cache is right even where the counts have gone wrong.
`CountCorrect`, `NoLeak`, the action property `NotClosedInUse`, and `RefinesLease` (every step
of the pool is a step of `ConnLease` or a stutter, under the refinement mapping TLC checks in
`pool_live`) follow from `IInv`.

`StatzPollProofs`, for every finite set of servers, every number of polls and any
expected numbers: `TypeInv` (a poll in progress has begun), `Fresh` (what the callback
holds answers the current poll, because it keeps the lock that `Begin` needs), `Room`
(while `poll` receives it is short of its number, so one more cannot exceed it), `Timed`
(only the reply in the callback's hands lacks its time), `Known` (`heard` is the known
servers and the latest responders) and `Once` (a reply is under way, in the callback's hands,
received or dropped, one at a time, and nobody has answered a ping not yet sent). They give
`OnlyFresh`, `AllTimed`, `WithinExpected` and the action property `CountsMissing`; and
`RefinesSurvey`, that is `ImplementsSurvey` as TLC checks it: each step of the survey is one
of `Survey` or a stutter. There, `Once` makes `Receive` gather an answer that the survey did
not have; `Fresh` makes it an answer to its own ping, and the number of answers that of
replies (`CountSenders`); `Known` makes the servers' marks and the history agree.

`ObsManagerProofs`, for any callers, IDs, configurations and listeners (finitely many).
`MapInv` needs no assumption on overlaps: what waits to be installed is known to its
caller alone (`Fresh`), no two IDs share a listener (`Distinct`), and what a caller will
stop it has taken out of the map, or still has to replace where it found it (`OldOne`). So
no call stops what the map offers: `MapRuns`. With `~Overlap`, what a `Set` replaces is
what it found (`Seen`), hence `NoneOrphaned`; and a `Stop` that raced nobody has found
every other caller idle (`Counted`), so all running listeners are in the map when it
resets the gauge to zero: `GaugeExact`.

`ConfigProofs`, for topics of any length, all subjects and any positions: a validated
position is a wildcard token of the topic (`Accepted`), so it exists in every subject that the
topic matches, and the labels are tokens of that subject: `Handled`. For advisories, whoever is
subscribed has passed the validation and holds its connection (`Subscribed`), so a subject
that is delivered has the token (`DeliveredHasToken`), and it is that of its own subscription
if the subjects differ: `AdvisoryNamed`, `NoSubLeft`.

`StatzRequestsProofs`, for any finite set of servers, any accounts, expected numbers, size of
the channel and limit of silent surveys. `RInv` says what is left of a request at each stage;
with it, `Room` (while replies are received there are fewer than expected, and good
replies only take the place of those read) gives `NoMoreThanExpected`; `Conserved` (the
servers that answered are those still coming, in the channel, blocked or gathered) gives
`OnlyExcessBlocks`; `OnceEach` (a server is in one of these places, once) and `SkipInv` (the
counter is the number of silent reports up to its limit) give `SilentLeftOut`.

`StatzMergeProofs`, under the assumption on names above, for all details the servers may
report. The provers cannot use an induction theorem that takes an operator, so the loops are
followed with sets: the numbers up to which a loop's function exists, or has a property, have
no least exception (`Least`, `Counting`). `AddedAdds` and `MergeMerges` say what a merge
returns: what it began with, each name of either side once, and of each stream the consumers
of both. `JInv` carries this to the replies: each one's details begin with its server's own
report, and no server has two (`RepliesInv`); `jsAccInfos` points for every account that was
told of to a reply that has the union of what was told (`InfosInv`); and from the export to the
next reading there are none (`WhenInv`). From it follow `MergeIsUnion`, `DistinctSeries`, `OwnExported` and
`LedExported`; with `BoundInv`, on the channel and the lists of servers, `RequestsTyped`.

`SurveyorProofs`, for any callers, files, watchers and listeners, any numbers of calls and
changes. `SystemTyped` has the lock's part: who is in the middle of `Start` or `Stop` has the
lock, so there is one such caller. `SystemInv` adds what is there at each of its steps
(`Stages`), that a surveyor that is not up has nothing left but listeners that a `Set` under
way has started since and will undo (`Down`), and that one that is up and not `failed` has all
of it, or as much as its `Start` has come to (`Serving`). Steps of the files, the watcher's
goroutine and the walk leave all of this aside (`AsideKeeps`). `Down` is why what runs beside
`Stop` does no harm: a listener is either cut off by `Close` or in the hands of a `Set` that
finds the manager stopped. From these follow `UpServes` and `StoppedIsQuiet`. With them,
`MapInv` of the manager holds in the whole system, `Close` included (`CloseSpares`), which gives
`RegisteredRuns` there: `SystemMapRuns`. `CutInv` says which listeners may have been cut off:
none that is in the map under an ID outside `crossed`, or that a `Set` will put there. It is kept
because `Close` finds the map empty (`MapInv`), a listener that starts is one that did not run,
and a file leaves `crossed` when no `Set` of it has such a listener (`CutManages`).

`InStepProofs` follows one file that is no stray, and gives `WatchedInStep`. Before the
walk of a `Start` nothing of the file is known (`Blank`), and while a watcher is on no earlier
goroutine is about (`Alone`). Once the directory is watched, `Followed` says where the file's
state is on its way: a file that is gone has no listener or its removal is queued or under way
(`GoneIsTold`); a valid one runs as it is, or is about to be set so by the only caller that
sets it, or an event about it is queued after any removal (`ValidIsTold`); a walk sets what is
there (`WalkedIsThere`); and of a file whose lower directory is not watched, whatever is queued
is followed by a removal, and the directory itself is queued or ahead of a walk (`SubIsTold`).
The lemmas on queues say how this survives taking the first event and adding a last one. Most
steps of the goroutine, the walk and the manager move one caller's place and are alike in what
the invariant sees (`AlikeKeeps`); those that are not are `TakeWrite` and `TakeRemove`, a
walk's first step (`FirstFollowed`), `Start` and `Stop`, and the changes of files, which tell
the watcher. When nothing is on its way, what is left of `Followed`, with `MapInv` and `CutInv`,
is `InStep`.

`NoneWaitsInACircle` is the part of `NobodyStalls` without `ENABLED`, for calls that may overlap:
who has the watcher's lock or the manager's across its steps has the surveyor's as well
(`Stages`), a walker in the manager is in its walk (`Tasks`, `WalkerTasks`), and `stopCh` has room
for what `stop` sends. So who is in the middle of `Start` or `Stop` waits for nobody.

Only model-checked:

- of `NobodyStalls`, that `CanGoOn` implies `ENABLED`;
- liveness (`GetReturns`, `LastUserShuts`, `PollEnds`, `RetiredStops`, and that of
  `ConnLease`, whose safety is `RefinesLease`), which is beyond the prover, as is `ENABLED`;
- the four properties that are violated.

## 5. Not modelled

- Formatting, parsing and the values of metrics, apart from who reports which stream and
  consumer under which labels; the content of configurations apart from token positions;
  the metrics of each kind of advisory; the hashing of credentials (a key).
- The names of the surveyor's own metrics, which `Collect` computes by counting (line
  2211) and then does not use.
- Time. That an excess reply can hold `poll` up for half a second, that a ping's replies
  are awaited for so long, is not said; timers fire at any moment.
- A reply that is delivered twice, or that cannot be decoded (which is as silence).
- In `StatzPoll`, the requests that follow the ping, but for their failure: they use
  none of its state. `doneCh`, which nothing sends on.
- In `Surveyor`: `ExpectedServers = 0` (no collector), a directory that is missing or not
  configured, a disabled HTTP server: each leaves out one step. The second pair of
  watcher and manager, which runs after the first and shares nothing with it but
  connections, which `ConnPool` covers.
- An overflow of inotify's queue: a lost event is a file out of step.
- HTTP requests, authentication, command line: nothing there interleaves.

## 6. Plan

Done: every component above that is not left out in section 5 has its module; every safety
property of the runs that hold is a theorem, but for the `ENABLED` in `NobodyStalls`; and the pool
and the survey refine their abstract specifications. What could come next: the requests
that follow a survey (`StatzRequests`) as a refinement of `Survey` as well. They too gather answers
to their own question at most once, but read them from a channel that outlives them.
