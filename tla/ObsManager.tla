----------------------------- MODULE ObsManager -----------------------------
(***************************************************************************)
(* The manager of service observations (surveyor/observation.go) and, step *)
(* for step the same, the manager of JetStream advisories                  *)
(* (surveyor/jetstream_advisories.go).                                     *)
(*                                                                         *)
(* A manager maps the ID of a configuration to the listener that runs it.  *)
(* Goroutines call it at will: the filesystem watcher, the directory walk  *)
(* of a surveyor that starts, the surveyor that stops, and the users of    *)
(* the package.  Set and Delete give up the manager's lock while they      *)
(* start or stop a listener, so their steps interleave; Stop keeps it.     *)
(***************************************************************************)
EXTENDS Integers, FiniteSets

CONSTANTS
    Callers,     \* goroutines that call the manager
    IDs,         \* IDs of configurations
    Configs,     \* what else a configuration says
    Listeners,   \* listener objects, recycled once nothing refers to them
    NoListener,  \* nil *serviceObsListener
    NoID,        \* what an idle caller works on
    NoConfig,    \* the configuration of no listener
    Overlap,     \* may Sets and Deletes of one ID run at the same time?
    MaxDrift     \* bound: no Stop starts once the gauge is this far off zero

ASSUME ObsManagerAssumption ==
    /\ IsFiniteSet(Listeners)
    /\ NoListener \notin Listeners
    /\ NoID \notin IDs
    /\ NoConfig \notin Configs
    /\ Overlap \in BOOLEAN
    /\ MaxDrift \in Nat

VARIABLES
    started,      \* listenerMap is not nil
    listenerMap,  \* the listener of each ID
    config,       \* the configuration of each listener
    running,      \* the listener is subscribed and holds a connection
    gauge,        \* the metric "... listeners that are running"
    step,         \* where each caller is
    id,           \* the ID it works on
    wanted,       \* the configuration it sets
    new,          \* the listener it has started
    old,          \* the listener it found in the map
    raced         \* history: a Stop has overlapped a Set or a Delete

callerVars == <<step, id, wanted, new, old>>
vars == <<started, listenerMap, config, running, gauge, callerVars, raced>>

ListenerOrNil == Listeners \cup {NoListener}

TypeOK ==
    /\ started \in BOOLEAN
    /\ listenerMap \in [IDs -> ListenerOrNil]
    /\ config \in [Listeners -> Configs \cup {NoConfig}]
    /\ running \in [Listeners -> BOOLEAN]
    /\ gauge \in Int
    /\ step \in [Callers -> {"idle", "start", "install", "undo", "retire", "sweep"}]
    /\ id \in [Callers -> IDs \cup {NoID}]
    /\ wanted \in [Callers -> Configs \cup {NoConfig}]
    /\ new \in [Callers -> ListenerOrNil]
    /\ old \in [Callers -> ListenerOrNil]
    /\ raced \in BOOLEAN
    /\ \A p \in Callers : id[p] = NoID <=> step[p] \in {"idle", "sweep"}

\* Only Stop holds the manager's lock across its steps.
Free == \A p \in Callers : step[p] # "sweep"

\* No other caller works on the ID, or that is allowed.
MayCall(i) == Overlap \/ \A p \in Callers : id[p] # i

Unused(l) ==
    /\ ~running[l]
    /\ \A i \in IDs : listenerMap[i] # l
    /\ \A p \in Callers : new[p] # l /\ old[p] # l

Init ==
    /\ started = FALSE
    /\ listenerMap = [i \in IDs |-> NoListener]
    /\ config = [l \in Listeners |-> NoConfig]
    /\ running = [l \in Listeners |-> FALSE]
    /\ gauge = 0
    /\ step = [p \in Callers |-> "idle"]
    /\ id = [p \in Callers |-> NoID]
    /\ wanted = [p \in Callers |-> NoConfig]
    /\ new = [p \in Callers |-> NoListener]
    /\ old = [p \in Callers |-> NoListener]
    /\ raced = FALSE

Goto(p, s) == step' = [step EXCEPT ![p] = s]

\* Mutant: the caller's ID is not forgotten.
ReturnBusy(p) ==
    /\ Goto(p, "idle")
    /\ wanted' = [wanted EXCEPT ![p] = NoConfig]
    /\ new' = [new EXCEPT ![p] = NoListener]
    /\ old' = [old EXCEPT ![p] = NoListener]
    /\ UNCHANGED id

\* The call returns.
Return(p) ==
    /\ Goto(p, "idle")
    /\ id' = [id EXCEPT ![p] = NoID]
    /\ wanted' = [wanted EXCEPT ![p] = NoConfig]
    /\ new' = [new EXCEPT ![p] = NoListener]
    /\ old' = [old EXCEPT ![p] = NoListener]

\* A listener's Stop: it does nothing when the listener is not running.
\* Mutant: the gauge stays.
StopUncounted(l) ==
    /\ running' = [running EXCEPT ![l] = FALSE]
    /\ UNCHANGED gauge

StopListener(l) ==
    /\ running' = [running EXCEPT ![l] = FALSE]
    /\ gauge' = IF running[l] THEN gauge - 1 ELSE gauge

-----------------------------------------------------------------------------
(* Start and Stop of the manager                                           *)

Start ==
    /\ Free
    /\ ~started
    /\ started' = TRUE
    /\ UNCHANGED <<listenerMap, config, running, gauge, callerVars, raced>>

StopBegin(p) ==
    /\ step[p] = "idle"
    /\ Free
    /\ started
    /\ gauge > -MaxDrift
    /\ raced' = (raced \/ \E q \in Callers : step[q] # "idle")
    /\ Goto(p, "sweep")
    /\ UNCHANGED <<started, listenerMap, config, running, gauge, id, wanted, new, old>>

StopOne(p) ==
    /\ step[p] = "sweep"
    /\ \E i \in IDs :
         /\ listenerMap[i] # NoListener
         /\ running[listenerMap[i]]
         /\ StopListener(listenerMap[i])
    /\ UNCHANGED <<started, listenerMap, config, callerVars, raced>>

\* All are stopped: the gauge is set to zero, the map to nil.
StopEnd(p) ==
    /\ step[p] = "sweep"
    /\ \A i \in IDs : listenerMap[i] # NoListener => ~running[listenerMap[i]]
    /\ gauge' = 0
    /\ started' = FALSE
    /\ listenerMap' = [i \in IDs |-> NoListener]
    /\ Return(p)
    /\ UNCHANGED <<config, running, raced>>

-----------------------------------------------------------------------------
(* Set, of a valid configuration                                           *)

\* Set looks the ID up.  On a stopped manager it fails, and for the same
\* configuration it returns: neither changes anything.
SetLook(p, i, c) ==
    /\ step[p] = "idle"
    /\ MayCall(i)
    /\ Free
    /\ started
    /\ listenerMap[i] # NoListener => config[listenerMap[i]] # c
    /\ Goto(p, "start")
    /\ id' = [id EXCEPT ![p] = i]
    /\ wanted' = [wanted EXCEPT ![p] = c]
    /\ old' = [old EXCEPT ![p] = listenerMap[i]]
    /\ UNCHANGED <<started, listenerMap, config, running, gauge, new, raced>>

\* The new listener gets a connection, subscribes, and counts itself in.
SetStart(p) ==
    /\ step[p] = "start"
    /\ \E l \in Listeners :
         /\ Unused(l)
         /\ config' = [config EXCEPT ![l] = wanted[p]]
         /\ running' = [running EXCEPT ![l] = TRUE]
         /\ new' = [new EXCEPT ![p] = l]
    /\ gauge' = gauge + 1
    /\ Goto(p, "install")
    /\ UNCHANGED <<started, listenerMap, id, wanted, old, raced>>

\* No connection, or no subscription: Set drops the new listener and fails.
SetStartFails(p) ==
    /\ step[p] = "start"
    /\ Return(p)
    /\ UNCHANGED <<started, listenerMap, config, running, gauge, raced>>

\* Set takes the lock again.  When the manager was stopped meanwhile, the new
\* listener is to be undone; else it takes the place of whatever is there.
\* Mutant: Set does not look whether it was.
StillStartedAssumed == TRUE

StillStarted == started

\* Set found a listener at first.  Mutant: it does not remember.
ReplacesNever(p) == FALSE

Replaces(p) == old[p] # NoListener

SetInstall(p) ==
    /\ step[p] = "install"
    /\ Free
    /\ StillStarted
    /\ listenerMap' = [listenerMap EXCEPT ![id[p]] = new[p]]
    /\ IF Replaces(p)
         THEN Goto(p, "retire") /\ UNCHANGED <<id, wanted, new, old>>
         ELSE Return(p)
    /\ UNCHANGED <<started, config, running, gauge, raced>>

SetRefused(p) ==
    /\ step[p] = "install"
    /\ Free
    /\ ~StillStarted
    /\ Goto(p, "undo")
    /\ UNCHANGED <<started, listenerMap, config, running, gauge, id, wanted, new, old, raced>>

SetUndo(p) ==
    /\ step[p] = "undo"
    /\ StopListener(new[p])
    /\ Return(p)
    /\ UNCHANGED <<started, listenerMap, config, raced>>

\* The last step of Set and of Delete: the listener found at first is stopped.
Retire(p) ==
    /\ step[p] = "retire"
    /\ StopListener(old[p])
    /\ Return(p)
    /\ UNCHANGED <<started, listenerMap, config, raced>>

-----------------------------------------------------------------------------
(* Delete, which fails without a change on a stopped manager and for an ID *)
(* that is not there.                                                      *)

DeleteLook(p, i) ==
    /\ step[p] = "idle"
    /\ MayCall(i)
    /\ Free
    /\ started
    /\ listenerMap[i] # NoListener
    /\ listenerMap' = [listenerMap EXCEPT ![i] = NoListener]
    /\ old' = [old EXCEPT ![p] = listenerMap[i]]
    /\ id' = [id EXCEPT ![p] = i]
    /\ Goto(p, "retire")
    /\ UNCHANGED <<started, config, running, gauge, wanted, new, raced>>

-----------------------------------------------------------------------------

\* The steps of a call that has begun.
Proceed(p) ==
    \/ StopOne(p) \/ StopEnd(p)
    \/ SetStart(p) \/ SetStartFails(p)
    \/ SetInstall(p) \/ SetRefused(p) \/ SetUndo(p)
    \/ Retire(p)

Next ==
    \/ Start
    \/ \E p \in Callers :
         \/ StopBegin(p)
         \/ \E i \in IDs, c \in Configs : SetLook(p, i, c)
         \/ \E i \in IDs : DeleteLook(p, i)
         \/ Proceed(p)

Spec == Init /\ [][Next]_vars

\* The calls a listener makes return, and a mutex is handed on in turn.
LiveSpec == Spec /\ \A p \in Callers : SF_vars(Proceed(p))

-----------------------------------------------------------------------------
(* What the manager guarantees.                                            *)

AllIdle == \A p \in Callers : step[p] = "idle"

RunningListeners == {l \in Listeners : running[l]}

Registered(l) == \E i \in IDs : listenerMap[i] = l

\* A listener is not stopped while the map offers it, whatever overlaps, but by
\* a Stop that is about to drop the map; and a stopped manager has none.
RegisteredRuns ==
    /\ Free => \A i \in IDs : listenerMap[i] # NoListener => running[listenerMap[i]]
    /\ ~started => \A i \in IDs : listenerMap[i] = NoListener

\* A listener that runs is in the map, or some call is about to put it there or
\* to stop it: none is forgotten with its connection and its subscription.
NoOrphan ==
    \A l \in RunningListeners :
       \/ Registered(l)
       \/ \E p \in Callers : \/ step[p] \in {"install", "undo"} /\ new[p] = l
                             \/ step[p] = "retire" /\ old[p] = l

\* The gauge counts the running listeners, as long as no Stop has overlapped
\* another call.
GaugeCounts == (~raced /\ Free) => gauge = Cardinality(RunningListeners)

\* A listener that is replaced, deleted, or came too late is stopped.
RetiredStops ==
    \A l \in Listeners : (running[l] /\ ~Registered(l)) ~> (~running[l] \/ Registered(l))

\* What ConfigMap's comment says of the map: when no call is under way, it has
\* all running observations.
ConfigMapHasAllRunning == AllIdle => \A l \in RunningListeners : Registered(l)

\* What the gauge's help text says, when no call is under way.
GaugeIsRunningListeners == AllIdle => gauge = Cardinality(RunningListeners)
=============================================================================
