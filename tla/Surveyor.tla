------------------------------ MODULE Surveyor ------------------------------
(***************************************************************************)
(* Start and Stop of the surveyor (surveyor/surveyor.go), with what they   *)
(* start and stop: its connection, the collector, the HTTP server, and a   *)
(* watcher with its manager (there are two such pairs, for observations    *)
(* and for JetStream advisories, which share nothing but connections; this *)
(* has one).                                                               *)
(*                                                                         *)
(* Both are called by several goroutines and keep the surveyor's lock, but *)
(* for Start while it calls Stop to get rid of a closed connection.        *)
(***************************************************************************)
EXTENDS FSWatcher

CONSTANTS
    Nobody,    \* nobody has the surveyor's lock
    MaxCalls,  \* bound: so many calls of Start and Stop
    MaxLosses  \* bound: the connection is closed so often by others

ASSUME SurveyorAssumption == Nobody \notin Walkers /\ MaxCalls \in Nat /\ MaxLosses \in Nat

VARIABLES
    lock,       \* who has the surveyor's lock
    at,         \* where a caller of Start or Stop is
    again,      \* its Stop is one that Start has called
    up,         \* Surveyor.running
    conn,       \* Surveyor.conn: nil, or the state of the connection
    statzC,     \* Surveyor.statzC is not nil
    registered, \* the registry has the collector
    http,       \* Surveyor.listener and httpServer are not nil
    cut,        \* listeners whose connection was closed by the provider's Close
    crossed,    \* history: files that a Set had started a listener for when that last happened
    calls,      \* how many calls there have been
    losses,     \* how often the connection was closed by others
    failed      \* history: a Start has failed and left the surveyor up since it was last stopped

callVars   == <<lock, at, again, calls>>
ownVars    == <<up, conn, statzC, registered, http, cut, crossed, losses, failed>>
systemVars == <<vars, watcherVars, callVars, ownVars>>

SurveyorTypeOK ==
    /\ WatcherTypeOK
    /\ lock \in Walkers \cup {Nobody}
    /\ at \in [Walkers -> {"idle", "relock", "connect", "collect", "manage", "watch",
                           "walk", "serve", "stop", "unserve", "unwatch", "sweep", "close"}]
    /\ again \in [Walkers -> BOOLEAN]
    /\ up \in BOOLEAN /\ statzC \in BOOLEAN /\ registered \in BOOLEAN /\ http \in BOOLEAN
    /\ conn \in {"nil", "open", "closed"}
    /\ cut \subseteq Listeners /\ crossed \subseteq IDs
    /\ calls \in 0..MaxCalls /\ losses \in 0..MaxLosses
    /\ failed \in BOOLEAN
    \* Who is in the middle of Start or of Stop has the lock.
    /\ \A a \in Walkers : lock = a <=> at[a] \notin {"idle", "relock", "stop"}

SurveyorInit ==
    /\ WatcherInit
    /\ lock = Nobody
    /\ at = [a \in Walkers |-> "idle"]
    /\ again = [a \in Walkers |-> FALSE]
    /\ up = FALSE
    /\ conn = "nil"
    /\ statzC = FALSE /\ registered = FALSE /\ http = FALSE
    /\ cut = {} /\ crossed = {}
    /\ calls = 0 /\ losses = 0
    /\ failed = FALSE

\* The caller goes on to a next step, with the lock if it has it.
GoesTo(a, next) == at' = [at EXCEPT ![a] = next] /\ UNCHANGED <<lock, again, calls>>

Enters(a, next) == lock = Nobody /\ lock' = a /\ at' = [at EXCEPT ![a] = next]

\* It gives up the lock and returns.  Mutant: it keeps the lock.
ReturnsLocked(a) == at' = [at EXCEPT ![a] = "idle"] /\ UNCHANGED <<lock, again, calls>>

Returns(a) == lock' = Nobody /\ at' = [at EXCEPT ![a] = "idle"] /\ UNCHANGED <<again, calls>>

OthersKeep == UNCHANGED <<vars, watcherVars>>

-----------------------------------------------------------------------------
(* Start                                                                   *)

\* "already running".
Already == up /\ conn = "open"

\* When it is so, Start returns at once.  Else it has the lock by now, which it
\* gives up to stop a surveyor that has lost its connection.
StartCall(a) ==
    /\ at[a] = "idle" /\ lock = Nobody
    /\ ~Already
    /\ IF up
         THEN /\ at' = [at EXCEPT ![a] = "stop"]
              /\ again' = [again EXCEPT ![a] = TRUE]
              /\ UNCHANGED lock
         ELSE Enters(a, "connect") /\ UNCHANGED again
    /\ calls < MaxCalls /\ calls' = calls + 1
    /\ UNCHANGED ownVars /\ OthersKeep

\* Start has the lock again after its Stop, and goes on whatever happened between.
Relock(a) ==
    /\ at[a] = "relock"
    /\ Enters(a, "connect")
    /\ UNCHANGED <<again, calls, ownVars>> /\ OthersKeep

Connect(a) ==
    /\ at[a] = "connect"
    /\ conn' = "open" /\ up' = TRUE
    /\ GoesTo(a, "collect")
    /\ UNCHANGED <<statzC, registered, http, cut, crossed, losses, failed>> /\ OthersKeep

ConnectFails(a) ==
    /\ at[a] = "connect"
    /\ conn' = "nil" /\ failed' = (failed \/ up)
    /\ Returns(a)
    /\ UNCHANGED <<up, statzC, registered, http, cut, crossed, losses>> /\ OthersKeep

\* createStatszCollector, unless there is a collector.
Collect(a) ==
    /\ at[a] = "collect"
    /\ IF statzC THEN UNCHANGED registered ELSE registered' = TRUE
    /\ statzC' = TRUE
    /\ GoesTo(a, "manage")
    /\ UNCHANGED <<up, conn, http, cut, crossed, losses, failed>> /\ OthersKeep

CollectFails(a) ==
    /\ at[a] = "collect" /\ ~statzC
    /\ statzC' = TRUE /\ failed' = TRUE
    /\ Returns(a)
    /\ UNCHANGED <<up, conn, registered, http, cut, crossed, losses>> /\ OthersKeep

\* startServiceObservations: the manager, and if the directory is there, a
\* watcher and a walk.  What earlier goroutines may still do is unknown.
Manage(a) ==
    /\ at[a] = "manage"
    /\ IF started
         THEN GoesTo(a, "serve") /\ UNCHANGED <<vars, stray>>
         ELSE /\ Start
              /\ stray' = IF \E g \in Goroutines : Superseded(g) THEN IDs ELSE {}
              /\ GoesTo(a, "watch")
    /\ UNCHANGED <<ownVars, fileVars, watchVars, queue, taskVars>>

\* The directory is watched, or there is a watcher already or none can be made;
\* it is walked in any case.
Watch(a) ==
    /\ at[a] = "watch"
    /\ IF watcher = NoGoroutine THEN StartWatcher ELSE UNCHANGED <<watchVars, taskVars>>
    /\ GoesTo(a, "walk")
    /\ UNCHANGED <<vars, fileVars, queue, stray, ownVars>>

WatchFails(a) ==
    /\ at[a] = "watch"
    /\ GoesTo(a, "walk")
    /\ UNCHANGED <<ownVars>> /\ OthersKeep

WalkBegin(a) ==
    /\ at[a] = "walk"
    /\ Becomes(a, "walk", <<>>, {Top})
    /\ GoesTo(a, "serve")
    /\ UNCHANGED <<vars, fileVars, watchVars, queue, stray, ownVars>>

\* startHTTP, unless there is a server.
Serve(a) ==
    /\ at[a] = "serve" /\ task[a] = "none"
    /\ http' = TRUE
    /\ Returns(a)
    /\ UNCHANGED <<up, conn, statzC, registered, cut, crossed, losses, failed>> /\ OthersKeep

ServeFails(a) ==
    /\ at[a] = "serve" /\ task[a] = "none" /\ ~http
    /\ failed' = TRUE
    /\ Returns(a)
    /\ UNCHANGED <<up, conn, statzC, registered, http, cut, crossed, losses>> /\ OthersKeep

-----------------------------------------------------------------------------
(* Stop                                                                    *)

\* A Stop of its own; one of a surveyor that is stopped returns at once.
StopCall(a) ==
    /\ at[a] = "idle" /\ up
    /\ Enters(a, "unserve")
    /\ calls < MaxCalls /\ calls' = calls + 1
    /\ UNCHANGED <<again, ownVars>> /\ OthersKeep

After(a) == IF again[a] THEN "relock" ELSE "idle"

\* The Stop that Start has called.
StopEnters(a) ==
    /\ at[a] = "stop" /\ lock = Nobody
    /\ IF up THEN Enters(a, "unserve") /\ UNCHANGED again
             ELSE /\ at' = [at EXCEPT ![a] = "relock"]
                  /\ again' = [again EXCEPT ![a] = FALSE]
                  /\ UNCHANGED lock
    /\ UNCHANGED <<calls, ownVars>> /\ OthersKeep

\* Mutant: the surveyor keeps the collector that it has unregistered.
KeepsCollector == UNCHANGED statzC

DropsCollector == statzC' = FALSE

\* The HTTP server is shut down and the collector unregistered.
Unserve(a) ==
    /\ at[a] = "unserve"
    /\ http' = FALSE
    /\ DropsCollector
    /\ registered' = (registered /\ ~statzC)
    /\ GoesTo(a, "unwatch")
    /\ UNCHANGED <<up, conn, cut, crossed, losses, failed>> /\ OthersKeep

Unwatch(a) ==
    /\ at[a] = "unwatch"
    /\ IF watcher = NoGoroutine
         THEN GoesTo(a, "sweep") /\ UNCHANGED watchVars
         ELSE \/ StopWatcherBegin(a) /\ GoesTo(a, "unwatch")
              \/ StopWatcherEnd(a) /\ GoesTo(a, "sweep")
    /\ UNCHANGED <<vars, fileVars, queue, taskVars, stray, ownVars>>

\* The manager's Stop, whose further steps are the manager's.
Sweep(a) ==
    /\ at[a] = "sweep"
    /\ IF started THEN StopBegin(a) ELSE UNCHANGED vars
    /\ GoesTo(a, "close")
    /\ UNCHANGED <<watcherVars, ownVars>>

Referenced(l) ==
    (\E i \in IDs : listenerMap[i] = l) \/ \E p \in Callers : new[p] = l \/ old[p] = l

\* The provider closes all its connections.  What runs and is known to nobody is
\* gone for good; a Set that has started its listener will not know.  Mutant: only the surveyor's own connection is closed.
CloseOwn == UNCHANGED <<cut, running>>

CloseAll ==
    /\ cut' = {l \in Listeners : running[l] /\ Referenced(l)}
    /\ running' = [l \in Listeners |-> running[l] /\ Referenced(l)]

CloseConns(a) ==
    /\ at[a] = "close" /\ step[a] = "idle"
    /\ CloseAll
    /\ crossed' = {id[p] : p \in {q \in Callers : step[q] = "install"}}
    /\ conn' = "nil" /\ up' = FALSE /\ failed' = FALSE
    /\ lock' = Nobody
    /\ at' = [at EXCEPT ![a] = After(a)]
    /\ again' = [again EXCEPT ![a] = FALSE]
    /\ UNCHANGED <<started, listenerMap, config, gauge, callerVars, raced, watcherVars,
                   calls, statzC, registered, http, losses>>

\* The connection is closed by whoever else can.
Lose ==
    /\ conn = "open" /\ losses < MaxLosses
    /\ conn' = "closed"
    /\ losses' = losses + 1
    /\ UNCHANGED <<callVars, up, statzC, registered, http, cut, crossed, failed>> /\ OthersKeep

-----------------------------------------------------------------------------

\* A Set installs a listener that has its connection, and no Set of the file that has
\* another one is still under way.
Renews(p) ==
    /\ SetInstall(p)
    /\ \A q \in Callers : (step[q] = "install" /\ id[q] = id[p]) => new[q] \notin cut

\* A listener that starts has a connection of its own again.
Manages(p) ==
    /\ ManagerStep(p)
    /\ cut' = {l \in cut : running'[l] /\ running[l]}
    /\ crossed' = IF Renews(p) THEN crossed \ {id[p]} ELSE crossed
    /\ UNCHANGED <<callVars, up, conn, statzC, registered, http, losses, failed>>

Works(g) == GoroutineStep(g) /\ UNCHANGED <<callVars, ownVars>>

Walks(a) == (WalkStep(a) \/ WalkEnd(a)) /\ UNCHANGED <<callVars, ownVars>>

StartStep(a) ==
    \/ Relock(a) \/ Connect(a) \/ ConnectFails(a) \/ Collect(a) \/ CollectFails(a)
    \/ Manage(a) \/ Watch(a) \/ WatchFails(a) \/ WalkBegin(a) \/ Walks(a) \/ Serve(a) \/ ServeFails(a)

StopStep(a) == StopEnters(a) \/ Unserve(a) \/ Unwatch(a) \/ Sweep(a) \/ CloseConns(a)

\* What goes on by itself once calls and events are there.
Proceeds ==
    \/ \E a \in Walkers : StartStep(a) \/ StopStep(a)
    \/ \E g \in Goroutines : Works(g)
    \/ \E p \in Callers : Manages(p)

SurveyorNext ==
    \/ \E a \in Walkers : StartCall(a) \/ StopCall(a)
    \/ Proceeds
    \/ Lose
    \/ FilesChange /\ UNCHANGED <<callVars, ownVars>>

SurveyorSpec == SurveyorInit /\ [][SurveyorNext]_systemVars

-----------------------------------------------------------------------------
(* What the surveyor guarantees.                                           *)

Connected == {l \in RunningListeners : l \notin cut}

\* Nothing is left of a surveyor that is stopped: no listener is subscribed, not
\* one that a Set started while Stop was under way, nor one that two Sets of the
\* walk and the watcher made an orphan; and a scrape finds no collector.
QuietAfterStop ==
    (~up /\ lock = Nobody) =>
        /\ AllIdle => Connected = {}
        /\ ~registered /\ ~http /\ conn = "nil" /\ watcher = NoGoroutine /\ ~started

\* A surveyor that is up serves, unless a Start has failed half way since it was
\* last stopped: whatever Starts and Stops overlapped, it has a connection, a
\* collector that the registry knows, a manager, and its HTTP server.
ServesWhenUp ==
    (up /\ lock = Nobody /\ ~failed) =>
        conn # "nil" /\ statzC /\ registered /\ started /\ http

AllQuiet ==
    /\ lock = Nobody /\ AllIdle
    /\ \A p \in Callers : task[p] \in {"none", "select"}
    /\ \A g \in Goroutines : queue[g] = <<>>

\* "Files are watched and updated": when all events are handled, what the manager
\* has is the last version of each file, and nothing that is removed.  Not so for
\* files that changed while the directory was walked, or were moved away, or whose
\* listener could not start.  The listener has its connection, too, unless a Set of
\* the file was under way when Stop last closed all connections, and no other has
\* taken its place since.
InStep ==
    (up /\ started /\ watcher # NoGoroutine /\ AllQuiet) =>
        \A f \in IDs \ stray :
            /\ disk[f] \in Configs =>
                 /\ listenerMap[f] # NoListener /\ config[listenerMap[f]] = disk[f]
                 /\ f \notin crossed => listenerMap[f] \in Connected
            /\ disk[f] = Absent => listenerMap[f] = NoListener

\* What the next step of a walk, or of the Set in it, takes.
CanWalk(a) ==
    \/ step[a] \in {"start", "undo", "retire"}
    \/ step[a] = "install" /\ Free
    \/ InTask(a, "walk") /\ (todo[a] \subseteq IDs \/ wlock = NoGoroutine)
    \/ InTask(a, "list")
    \/ InTask(a, "set") /\ Free /\ MayCall(hand[a][1])

\* What the next step of a Start or a Stop takes.
CanGoOn(a) ==
    \/ at[a] \in {"relock", "stop"} /\ lock = Nobody
    \/ at[a] \in {"connect", "collect", "watch", "walk", "unserve"}
    \/ at[a] = "manage" /\ (started \/ Free)
    \/ at[a] = "serve" /\ (task[a] = "none" \/ CanWalk(a))
    \/ at[a] = "unwatch" /\ (wlock = NoGoroutine \/ (wlock = a /\ Room(watcher)))
    \/ at[a] = "sweep" /\ (started => InTask(a, "none") /\ Free)
    \/ at[a] = "close" /\ step[a] \in {"idle", "sweep"}

\* While a Start or a Stop is under way, one of them can go on by itself, without
\* waiting for a goroutine: Stop keeps the watcher's lock, which the goroutine may
\* be waiting for, while it tells the goroutine to end; and it keeps the
\* surveyor's and the manager's.
SomebodyGoesOn ==
    (gauge > -MaxDrift /\ \E a \in Walkers : at[a] # "idle") => \E a \in Walkers : CanGoOn(a)

\* And who can go on does have a step.
NobodyStalls ==
    /\ SomebodyGoesOn
    /\ gauge > -MaxDrift =>
         \A a \in Walkers : CanGoOn(a) => ENABLED (StartStep(a) \/ StopStep(a) \/ Manages(a))
=============================================================================
