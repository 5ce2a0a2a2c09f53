----------------------------- MODULE FSWatcher ------------------------------
(***************************************************************************)
(* The filesystem watcher of service observations (surveyor/observation.go *)
(* 571-756) over their manager.  The watcher of JetStream advisories       *)
(* (surveyor/jetstream_advisories.go 798-983) differs from it in names.    *)
(*                                                                         *)
(* A configuration is a JSON file in a directory, or in a directory below  *)
(* it, and its path is its ID.  A surveyor that starts walks the directory *)
(* and sets what it finds; the goroutine of the watcher sets and deletes   *)
(* what the events of fsnotify tell it.  Both call the manager, and each   *)
(* start of the watcher has a goroutine of its own.                        *)
(*                                                                         *)
(* A step is a system call (a file is read, a directory listed or          *)
(* watched), a critical section of the watcher's lock, a rendezvous on a   *)
(* channel, or a step of the manager.                                      *)
(***************************************************************************)
EXTENDS ObsManager, Sequences

CONSTANTS
    Walkers,     \* callers that walk the directory: they start the surveyor
    Goroutines,  \* callers that handle events, one for each start of the watcher
    SubFiles,    \* the IDs that are files of the lower directory
    Top, Sub,    \* the directory that is configured, the one below it
    Absent, Bad, \* what is at a path: no file, a file that is no valid configuration
    NoGoroutine, \* w.watcher is nil
    MaxChanges   \* bound: so many changes of files

ASSUME FSWatcherAssumption ==
    /\ Callers = Walkers \cup Goroutines /\ Walkers \cap Goroutines = {}
    /\ SubFiles \subseteq IDs /\ IsFiniteSet(SubFiles) /\ Top # Sub /\ {Top, Sub} \cap IDs = {}
    /\ Absent \notin Configs /\ Bad \notin Configs /\ Absent # Bad
    /\ NoGoroutine \notin Callers
    /\ MaxChanges \in Nat

VARIABLES
    disk,     \* what is at each path
    subThere, \* the lower directory exists
    changes,  \* how many changes there have been
    watcher,  \* serviceObsFSWatcher.watcher, as the goroutine that reads its events
    watched,  \* the directories it watches
    queue,    \* its events, and what is left of those of earlier watchers
    wlock,    \* who is in stop() with the watcher's lock
    task,     \* where a caller is in the watcher's code
    hand,     \* the directory it will list, or <<path, configuration>> it will set
    todo,     \* the paths it will visit, or the IDs it will delete
    stray     \* history: files that the manager may not be in step with

fileVars  == <<disk, subThere, changes>>
watchVars == <<watcher, watched, wlock>>
taskVars  == <<task, hand, todo>>
watcherVars == <<fileVars, watchVars, queue, taskVars, stray>>

Ops == {"create", "write", "remove", "rename"}

WatcherTypeOK ==
    /\ TypeOK
    /\ disk \in [IDs -> Configs \cup {Absent, Bad}]
    /\ subThere \in BOOLEAN
    /\ changes \in 0..MaxChanges
    /\ watcher \in Goroutines \cup {NoGoroutine}
    /\ watched \subseteq {Top, Sub}
    /\ queue \in [Goroutines -> Seq(Ops \X (IDs \cup {Sub}))]
    /\ wlock \in Callers \cup {NoGoroutine}
    /\ task \in [Callers -> {"none", "select", "walk", "list", "set", "drop"}]
    /\ todo \in [Callers -> SUBSET (IDs \cup {Top, Sub})]
    /\ stray \subseteq IDs

WatcherInit ==
    /\ Init
    /\ disk \in [IDs -> Configs \cup {Absent}]
    /\ subThere \in BOOLEAN
    /\ ~subThere => \A f \in SubFiles : disk[f] = Absent
    /\ changes = 0
    /\ watcher = NoGoroutine
    /\ watched = {}
    /\ queue = [g \in Goroutines |-> <<>>]
    /\ wlock = NoGoroutine
    /\ task = [p \in Callers |-> "none"]
    /\ hand = [p \in Callers |-> <<>>]
    /\ todo = [p \in Callers |-> {}]
    /\ stray = {}

Becomes(p, t, h, paths) ==
    /\ task' = [task EXCEPT ![p] = t]
    /\ hand' = [hand EXCEPT ![p] = h]
    /\ todo' = [todo EXCEPT ![p] = paths]

\* A goroutine whose watcher has been stopped, and that has not ended.
Superseded(g) == g \in Goroutines /\ g # watcher /\ task[g] # "none"

\* The watcher's own account of the directory is all that there is: nobody walks
\* it for a start of the surveyor, and no earlier goroutine is about.
Settled ==
    /\ \A p \in Walkers : task[p] = "none"
    /\ \A g \in Goroutines : ~Superseded(g)

-----------------------------------------------------------------------------
(* Files change.  inotify tells of the directories that are watched.       *)

DirOf(f) == IF f \in SubFiles THEN Sub ELSE Top

Notified(events) ==
    IF watcher = NoGoroutine THEN queue
                             ELSE [queue EXCEPT ![watcher] = @ \o events]

EventIn(d, op, name) == IF d \in watched THEN <<<<op, name>>>> ELSE <<>>

\* A file is created, written or removed.  A valid file that is written in
\* settled times, in a directory that is watched, puts an end to what was missed
\* before.
Change(f, content) ==
    /\ changes < MaxChanges
    /\ f \in SubFiles => subThere
    /\ disk[f] # content
    /\ disk' = [disk EXCEPT ![f] = content]
    /\ queue' = Notified(EventIn(DirOf(f), CASE content = Absent -> "remove"
                                             [] disk[f] = Absent -> "create"
                                             [] OTHER -> "write", f))
    /\ changes' = changes + 1
    /\ stray' = IF ~Settled THEN stray \cup {f}
                ELSE IF content \in Configs /\ {Top, DirOf(f)} \subseteq watched THEN stray \ {f}
                ELSE stray
    /\ UNCHANGED <<vars, subThere, watchVars, taskVars>>

\* A file is moved out of the directory, or to a name that is not a JSON file's.
MoveAway(f) ==
    /\ changes < MaxChanges
    /\ disk[f] # Absent
    /\ disk' = [disk EXCEPT ![f] = Absent]
    /\ queue' = Notified(EventIn(DirOf(f), "rename", f))
    /\ changes' = changes + 1
    /\ stray' = stray \cup {f}
    /\ UNCHANGED <<vars, subThere, watchVars, taskVars>>

\* The lower directory appears, with any files.
MakeSub ==
    /\ changes < MaxChanges
    /\ ~subThere
    /\ subThere' = TRUE
    /\ \E some \in [SubFiles -> Configs \cup {Absent}] :
         disk' = [f \in IDs |-> IF f \in SubFiles THEN some[f] ELSE disk[f]]
    /\ queue' = Notified(EventIn(Top, "create", Sub))
    /\ changes' = changes + 1
    /\ stray' = IF Settled THEN stray ELSE stray \cup SubFiles
    /\ UNCHANGED <<vars, watchVars, taskVars>>

\* It is removed with its files; their removal may be told in any order.
RemoveSub ==
    /\ changes < MaxChanges
    /\ subThere
    /\ subThere' = FALSE
    /\ disk' = [f \in IDs |-> IF f \in SubFiles THEN Absent ELSE disk[f]]
    /\ LET there == {f \in SubFiles : disk[f] # Absent}
       IN  \E order \in {s \in [1..Cardinality(there) -> there] :
                           \A i, j \in 1..Cardinality(there) : s[i] = s[j] => i = j} :
             queue' = Notified((IF Sub \in watched
                                  THEN [i \in DOMAIN order |-> <<"remove", order[i]>>] ELSE <<>>)
                                 \o EventIn(Top, "remove", Sub))
    /\ watched' = watched \ {Sub}
    /\ changes' = changes + 1
    /\ stray' = IF Settled THEN stray ELSE stray \cup SubFiles
    /\ UNCHANGED <<vars, watcher, wlock, taskVars>>

FilesChange ==
    \/ \E f \in IDs : MoveAway(f) \/ \E content \in Configs \cup {Absent, Bad} : Change(f, content)
    \/ MakeSub \/ RemoveSub

-----------------------------------------------------------------------------
(* The walk of a directory, which is also how an event on a single file is *)
(* handled                                                                 *)

InTask(p, t) == task[p] = t /\ step[p] = "idle"

\* A directory that is there can be watched.  Mutant: only the one configured is.
WatchesTop(d) == watcher # NoGoroutine /\ d = Top

Watches(d) == watcher # NoGoroutine /\ (d = Sub => subThere)

\* A directory is added to what is watched, and then listed.
WalkDirectory(p) ==
    /\ InTask(p, "walk")
    /\ wlock = NoGoroutine
    /\ \E d \in todo[p] \cap {Top, Sub} :
         /\ watched' = IF Watches(d) THEN watched \cup {d} ELSE watched
         /\ Becomes(p, "list", d, todo[p] \ {d})
    /\ UNCHANGED <<vars, fileVars, watcher, wlock, queue, stray>>

Entries(d) ==
    {f \in IDs : DirOf(f) = d /\ disk[f] # Absent} \cup (IF d = Top /\ subThere THEN {Sub} ELSE {})

WalkList(p) ==
    /\ InTask(p, "list")
    /\ Becomes(p, "walk", <<>>, todo[p] \cup Entries(hand[p]))
    /\ UNCHANGED <<vars, fileVars, watchVars, queue, stray>>

\* A file is read.  One that is gone, or is no valid configuration, is passed over.
WalkRead(p) ==
    /\ InTask(p, "walk")
    /\ \E f \in todo[p] \cap IDs :
         IF disk[f] \in Configs
           THEN Becomes(p, "set", <<f, disk[f]>>, todo[p] \ {f})
           ELSE Becomes(p, "walk", <<>>, todo[p] \ {f})
    /\ UNCHANGED <<vars, fileVars, watchVars, queue, stray>>

\* Set fails at once on a stopped manager, and has nothing to do when the same
\* configuration runs.
SetAtOnce(f, c) == ~started \/ (listenerMap[f] # NoListener /\ config[listenerMap[f]] = c)

WalkSet(p) ==
    /\ InTask(p, "set")
    /\ LET f == hand[p][1]  c == hand[p][2]
       IN  IF SetAtOnce(f, c) THEN Free /\ UNCHANGED vars ELSE SetLook(p, f, c)
    /\ Becomes(p, "walk", <<>>, todo[p])
    /\ UNCHANGED <<fileVars, watchVars, queue, stray>>

\* The goroutine goes back to its select; a walker goes on with the start.
WalkEnd(p) ==
    /\ InTask(p, "walk") /\ todo[p] = {}
    /\ Becomes(p, IF p \in Goroutines THEN "select" ELSE "none", <<>>, {})
    /\ UNCHANGED <<vars, fileVars, watchVars, queue, stray>>

-----------------------------------------------------------------------------
(* The goroutine                                                           *)

TakeEvent(g, ops) ==
    /\ InTask(g, "select")
    /\ queue[g] # <<>> /\ Head(queue[g])[1] \in ops
    /\ queue' = [queue EXCEPT ![g] = Tail(@)]
    /\ UNCHANGED <<vars, fileVars, watchVars, stray>>

\* handleCreateEvent and handleWriteEvent.
TakeWrite(g) ==
    /\ TakeEvent(g, {"create", "write"})
    /\ Becomes(g, "walk", <<>>, {Head(queue[g])[2]})

\* The running IDs that are the path, or below it.
Below(path) ==
    {i \in IDs : listenerMap[i] # NoListener /\ (i = path \/ (path = Sub /\ i \in SubFiles))}

\* handleRemoveEvent reads the map; then it deletes what it found.
TakeRemove(g) ==
    /\ TakeEvent(g, {"remove"})
    /\ Free
    /\ Becomes(g, "drop", <<>>, Below(Head(queue[g])[2]))

DropOne(g) ==
    /\ InTask(g, "drop")
    /\ \E i \in todo[g] :
         /\ IF started /\ listenerMap[i] # NoListener
              THEN DeleteLook(g, i) ELSE Free /\ UNCHANGED vars
         /\ Becomes(g, "drop", <<>>, todo[g] \ {i})
    /\ UNCHANGED <<fileVars, watchVars, queue, stray>>

DropEnd(g) ==
    /\ InTask(g, "drop") /\ todo[g] = {}
    /\ Becomes(g, "select", <<>>, {})
    /\ UNCHANGED <<vars, fileVars, watchVars, queue, stray>>

\* handleWatcherEvent has no case for a rename.
TakeRename(g) == TakeEvent(g, {"rename"}) /\ UNCHANGED taskVars

\* stopCh, or the closed channel of events, is what select finds.
Exit(g) ==
    /\ InTask(g, "select") /\ Superseded(g)
    /\ Becomes(g, "none", <<>>, {})
    /\ queue' = [queue EXCEPT ![g] = <<>>]
    /\ UNCHANGED <<vars, fileVars, watchVars, stray>>

-----------------------------------------------------------------------------
(* start and stop                                                          *)

\* There is no watcher yet, and fsnotify makes one.
StartWatcher ==
    /\ wlock = NoGoroutine /\ watcher = NoGoroutine
    /\ \E g \in Goroutines :
         /\ task[g] = "none"
         /\ watcher' = g
         /\ Becomes(g, "select", <<>>, {})
    /\ UNCHANGED <<watched, wlock>>

\* stop() has the watcher's lock while it sends on stopCh, which has room for it.
\* Mutant: it has none, so the goroutine has to be there to receive.
RoomUnbuffered(g) == InTask(g, "select")

Room(g) == TRUE

StopWatcherBegin(p) ==
    /\ wlock = NoGoroutine /\ watcher # NoGoroutine
    /\ wlock' = p
    /\ UNCHANGED <<watcher, watched>>

StopWatcherEnd(p) ==
    /\ wlock = p
    /\ Room(watcher)
    /\ watcher' = NoGoroutine
    /\ watched' = {}
    /\ wlock' = NoGoroutine

-----------------------------------------------------------------------------

\* A step of the manager in a call that has begun, a Stop's but for its end.
ManagerStep(p) ==
    /\ Proceed(p)
    /\ stray' = IF SetStartFails(p) THEN stray \cup {id[p]} ELSE stray
    /\ UNCHANGED <<fileVars, watchVars, queue, taskVars>>

WalkStep(p) == WalkDirectory(p) \/ WalkList(p) \/ WalkRead(p) \/ WalkSet(p)

GoroutineStep(g) ==
    \/ WalkStep(g) \/ WalkEnd(g) \/ TakeWrite(g) \/ TakeRemove(g) \/ DropOne(g) \/ DropEnd(g)
    \/ TakeRename(g) \/ Exit(g)
=============================================================================
