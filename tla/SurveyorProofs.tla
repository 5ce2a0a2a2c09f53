--------------------------- MODULE SurveyorProofs ---------------------------
(***************************************************************************)
(* Proofs about the surveyor's Start and Stop, for any number of callers,  *)
(* files, watchers and listeners, and for any bounds.                      *)
(***************************************************************************)
EXTENDS Surveyor, ObsManagerProofs

-----------------------------------------------------------------------------
(* Types.  That of the hand depends on the task.                           *)

InHand ==
    /\ hand = [p \in Callers |-> hand[p]]
    /\ \A p \in Callers :
         /\ task[p] = "set" => hand[p] \in IDs \X Configs
         /\ task[p] = "list" => hand[p] \in {Top, Sub}
         /\ task[p] = "drop" => todo[p] \subseteq IDs

SystemTypes == SurveyorTypeOK /\ InHand

\* What the manager's proofs know of a step: it is one of the manager's, or the
\* provider's Close, which takes running listeners down and changes nothing else.
CloseMove ==
    /\ \E a \in Walkers : at[a] = "close" /\ step[a] # "sweep"
    /\ CloseAll
    /\ UNCHANGED <<started, listenerMap, config, gauge, callerVars, raced>>

LEMMA ManagerMoves ==
    ASSUME SystemTypes, [SurveyorNext]_systemVars
    PROVE  [Next]_vars \/ CloseMove
<1> USE FSWatcherAssumption
<1>1. ASSUME NEW p \in Callers, WalkStep(p) PROVE [Next]_vars
  <2>1. CASE WalkSet(p)
    <3>1. hand[p] \in IDs \X Configs
      BY <2>1 DEF WalkSet, InTask, SystemTypes, InHand
    <3>2. hand[p][1] \in IDs /\ hand[p][2] \in Configs
      BY <3>1
    <3>3. UNCHANGED vars \/ SetLook(p, hand[p][1], hand[p][2])
      BY <2>1 DEF WalkSet
    <3> QED
      BY <3>2, <3>3 DEF Next
  <2> QED
    BY <1>1, <2>1 DEF WalkStep, WalkDirectory, WalkList, WalkRead
<1>2. ASSUME NEW g \in Goroutines, GoroutineStep(g) PROVE [Next]_vars
  <2>1. CASE DropOne(g)
    <3>1. todo[g] \subseteq IDs
      BY <2>1 DEF DropOne, InTask, SystemTypes, InHand
    <3>2. UNCHANGED vars \/ \E i \in IDs : DeleteLook(g, i)
      BY <2>1, <3>1 DEF DropOne
    <3> QED
      BY <3>2 DEF Next
  <2> QED
    BY <1>1, <1>2, <2>1 DEF GoroutineStep, WalkEnd, TakeWrite, TakeRemove, TakeEvent, DropEnd,
       TakeRename, Exit
<1>3. ASSUME NEW a \in Walkers, StartStep(a) PROVE [Next]_vars
  BY <1>1, <1>3 DEF StartStep, Relock, Connect, ConnectFails, Collect, CollectFails, Manage, Watch,
     WatchFails, WalkBegin, Walks, WalkEnd, Serve, ServeFails, OthersKeep, Next
<1>4. ASSUME NEW a \in Walkers, StopStep(a) PROVE [Next]_vars \/ CloseMove
  BY <1>4 DEF StopStep, StopEnters, Unserve, Unwatch, Sweep, CloseConns, CloseMove, OthersKeep, Next
<1>5. ASSUME NEW p \in Callers, Manages(p) PROVE Next
  BY <1>5 DEF Manages, ManagerStep, Next
<1>6. CASE FilesChange
  BY <1>6 DEF FilesChange, MoveAway, Change, MakeSub, RemoveSub
<1>7. ASSUME NEW a \in Walkers, StartCall(a) \/ StopCall(a) PROVE UNCHANGED vars
  BY <1>7 DEF StartCall, StopCall, OthersKeep
<1>8. CASE Lose
  BY <1>8 DEF Lose, OthersKeep
<1>9. CASE UNCHANGED systemVars
  BY <1>9 DEF systemVars
<1> QED
  BY <1>2, <1>3, <1>4, <1>5, <1>6, <1>7, <1>8, <1>9 DEF SurveyorNext, Proceeds, Works

\* The manager keeps its types, whoever moves.
LEMMA ManagerTypes ==
    ASSUME SystemTypes, [SurveyorNext]_systemVars
    PROVE  TypeOK'
<1>0. TypeOK
  BY DEF SystemTypes, SurveyorTypeOK, WatcherTypeOK
<1>1. CASE [Next]_vars
  BY <1>0, <1>1, TypeNext
<1>2. CASE CloseMove
  BY <1>0, <1>2 DEF CloseMove, CloseAll, TypeOK, callerVars
<1> QED
  BY <1>1, <1>2, ManagerMoves

\* What a caller is up to has its type.
TaskTypes ==
    /\ task \in [Callers -> {"none", "select", "walk", "list", "set", "drop"}]
    /\ todo \in [Callers -> SUBSET (IDs \cup {Top, Sub})]
    /\ InHand

\* What may be a task's: its directory, its pair, or its IDs.
Fits(t, h, paths) ==
    /\ t \in {"none", "select", "walk", "list", "set", "drop"}
    /\ paths \subseteq IDs \cup {Top, Sub}
    /\ t = "set" => h \in IDs \X Configs
    /\ t = "list" => h \in {Top, Sub}
    /\ t = "drop" => paths \subseteq IDs

LEMMA BecomesTypes ==
    ASSUME TaskTypes, NEW p \in Callers, NEW t, NEW h, NEW paths, Fits(t, h, paths),
           Becomes(p, t, h, paths)
    PROVE  TaskTypes'
<1>1. task' \in [Callers -> {"none", "select", "walk", "list", "set", "drop"}]
  BY DEF TaskTypes, Becomes, Fits
<1>2. todo' \in [Callers -> SUBSET (IDs \cup {Top, Sub})]
  BY DEF TaskTypes, Becomes, Fits
<1>3. hand' = [q \in Callers |-> hand'[q]]
  BY DEF TaskTypes, InHand, Becomes
<1>4. ASSUME NEW q \in Callers
      PROVE  /\ task'[q] = "set" => hand'[q] \in IDs \X Configs
             /\ task'[q] = "list" => hand'[q] \in {Top, Sub}
             /\ task'[q] = "drop" => todo'[q] \subseteq IDs
  <2>1. CASE q = p
    <3>1. task'[q] = t /\ hand'[q] = h /\ todo'[q] = paths
      BY <2>1 DEF TaskTypes, InHand, Becomes
    <3> QED
      BY <3>1 DEF Fits
  <2>2. CASE q # p
    <3>1. task'[q] = task[q] /\ hand'[q] = hand[q] /\ todo'[q] = todo[q]
      BY <2>2 DEF TaskTypes, InHand, Becomes
    <3> QED
      BY <3>1 DEF TaskTypes, InHand
  <2> QED
    BY <2>1, <2>2
<1> QED
  BY <1>1, <1>2, <1>3, <1>4 DEF TaskTypes, InHand

\* The rest of the watcher's types.
Events == Ops \X (IDs \cup {Sub})

PlaceTypes ==
    /\ disk \in [IDs -> Configs \cup {Absent, Bad}]
    /\ subThere \in BOOLEAN
    /\ changes \in 0..MaxChanges
    /\ watcher \in Goroutines \cup {NoGoroutine}
    /\ watched \subseteq {Top, Sub}
    /\ queue \in [Goroutines -> Seq(Events)]
    /\ wlock \in Callers \cup {NoGoroutine}
    /\ stray \subseteq IDs

LEMMA NotifiedTypes ==
    ASSUME PlaceTypes, NEW events \in Seq(Events)
    PROVE  Notified(events) \in [Goroutines -> Seq(Events)]
<1>1. CASE watcher = NoGoroutine
  BY <1>1 DEF Notified, PlaceTypes
<1>2. CASE watcher # NoGoroutine
  <2>1. watcher \in Goroutines /\ queue[watcher] \o events \in Seq(Events)
    BY <1>2 DEF PlaceTypes
  <2> QED
    BY <1>2, <2>1 DEF Notified, PlaceTypes
<1> QED
  BY <1>1, <1>2

LEMMA EventTypes ==
    ASSUME NEW d, NEW op \in Ops, NEW name \in IDs \cup {Sub}
    PROVE  EventIn(d, op, name) \in Seq(Events)
<1>1. <<op, name>> \in Events
  BY DEF Events
<1>2. <<<<op, name>>>> \in Seq(Events) /\ <<>> \in Seq(Events)
  BY <1>1
<1> QED
  BY <1>2 DEF EventIn

LEMMA FilesTypes ==
    ASSUME PlaceTypes, FilesChange
    PROVE  PlaceTypes'
<1> USE FSWatcherAssumption
<1>0. ASSUME changes < MaxChanges, changes' = changes + 1
      PROVE  changes' \in 0..MaxChanges
  BY <1>0 DEF PlaceTypes
<1>1. ASSUME NEW f \in IDs, MoveAway(f) PROVE PlaceTypes'
  <2>1. EventIn(DirOf(f), "rename", f) \in Seq(Events)
    BY EventTypes DEF Ops
  <2>2. queue' \in [Goroutines -> Seq(Events)]
    BY <1>1, <2>1, NotifiedTypes DEF MoveAway
  <2> QED
    BY <1>0, <1>1, <2>2 DEF MoveAway, PlaceTypes, watchVars
<1>2. ASSUME NEW f \in IDs, NEW content \in Configs \cup {Absent, Bad}, Change(f, content)
      PROVE  PlaceTypes'
  <2>1. PICK op \in Ops : queue' = Notified(EventIn(DirOf(f), op, f))
    <3>1. (CASE content = Absent -> "remove" [] disk[f] = Absent -> "create" [] OTHER -> "write")
            \in Ops
      BY DEF Ops
    <3> QED
      BY <1>2, <3>1 DEF Change
  <2>2. EventIn(DirOf(f), op, f) \in Seq(Events)
    BY EventTypes
  <2>3. queue' \in [Goroutines -> Seq(Events)]
    BY <2>1, <2>2, NotifiedTypes
  <2>4. stray' \subseteq IDs
    BY <1>2 DEF Change, PlaceTypes
  <2> QED
    BY <1>0, <1>2, <2>3, <2>4 DEF Change, PlaceTypes, watchVars
<1>3. CASE MakeSub
  <2>1. EventIn(Top, "create", Sub) \in Seq(Events)
    BY EventTypes DEF Ops
  <2>2. queue' \in [Goroutines -> Seq(Events)]
    BY <1>3, <2>1, NotifiedTypes DEF MakeSub
  <2>3. stray' \subseteq IDs
    BY <1>3 DEF MakeSub, PlaceTypes
  <2>4. disk' \in [IDs -> Configs \cup {Absent, Bad}]
    BY <1>3 DEF MakeSub, PlaceTypes
  <2> QED
    BY <1>0, <1>3, <2>2, <2>3, <2>4 DEF MakeSub, PlaceTypes, watchVars
<1>4. CASE RemoveSub
  <2> DEFINE there == {f \in SubFiles : disk[f] # Absent}
  <2>0. Cardinality(there) \in Nat
    BY FS_Subset, FS_CardinalityType
  <2>1. PICK order \in [1..Cardinality(there) -> there] :
          queue' = Notified((IF Sub \in watched
                               THEN [i \in DOMAIN order |-> <<"remove", order[i]>>] ELSE <<>>)
                              \o EventIn(Top, "remove", Sub))
    BY <1>4 DEF RemoveSub
  <2> DEFINE told == [i \in DOMAIN order |-> <<"remove", order[i]>>]
  <2>2. told \in [1..Cardinality(there) -> Events]
    BY DEF Events, Ops
  <2>3. told \in Seq(Events)
    BY <2>0, <2>2
  <2>4. EventIn(Top, "remove", Sub) \in Seq(Events)
    BY EventTypes DEF Ops
  <2> DEFINE first == IF Sub \in watched THEN told ELSE <<>>
  <2>5. first \in Seq(Events)
    BY <2>3
  <2>6. queue' \in [Goroutines -> Seq(Events)]
    <3> HIDE DEF first
    <3>1. first \o EventIn(Top, "remove", Sub) \in Seq(Events)
      BY <2>4, <2>5
    <3>2. queue' = Notified(first \o EventIn(Top, "remove", Sub))
      BY <2>1 DEF first
    <3> QED
      BY <3>1, <3>2, NotifiedTypes
  <2>7. stray' \subseteq IDs
    BY <1>4 DEF RemoveSub, PlaceTypes
  <2>8. disk' \in [IDs -> Configs \cup {Absent, Bad}]
    BY <1>4 DEF RemoveSub, PlaceTypes
  <2> QED
    BY <1>0, <1>4, <2>6, <2>7, <2>8 DEF RemoveSub, PlaceTypes
<1> QED
  BY <1>1, <1>2, <1>3, <1>4 DEF FilesChange

\* A step of the walk or of a watcher's goroutine, with that of the manager in it.
LEMMA StepTypes ==
    ASSUME SystemTypes, NEW p \in Callers,
           WalkStep(p) \/ WalkEnd(p) \/ (p \in Goroutines /\ GoroutineStep(p))
    PROVE  PlaceTypes' /\ TaskTypes'
<1> USE FSWatcherAssumption
<1>0. PlaceTypes /\ TaskTypes
  BY DEF SystemTypes, SurveyorTypeOK, WatcherTypeOK, PlaceTypes, TaskTypes, Events
<1>1. CASE WalkDirectory(p)
  <2>1. PICK d \in todo[p] \cap {Top, Sub} :
          /\ watched' = IF Watches(d) THEN watched \cup {d} ELSE watched
          /\ Becomes(p, "list", d, todo[p] \ {d})
    BY <1>1 DEF WalkDirectory
  <2>2. Fits("list", d, todo[p] \ {d})
    BY <1>0 DEF TaskTypes, Fits
  <2>3. TaskTypes'
    BY <1>0, <2>1, <2>2, BecomesTypes
  <2> QED
    BY <1>0, <1>1, <2>1, <2>3 DEF WalkDirectory, PlaceTypes, fileVars
<1>2. CASE WalkList(p)
  <2>1. Fits("walk", <<>>, todo[p] \cup Entries(hand[p]))
    BY <1>0 DEF TaskTypes, Fits, Entries
  <2>2. TaskTypes'
    BY <1>0, <1>2, <2>1, BecomesTypes DEF WalkList
  <2> QED
    BY <1>0, <1>2, <2>2 DEF WalkList, PlaceTypes, fileVars, watchVars
<1>3. CASE WalkRead(p)
  <2>1. PICK f \in todo[p] \cap IDs :
          IF disk[f] \in Configs THEN Becomes(p, "set", <<f, disk[f]>>, todo[p] \ {f})
                                ELSE Becomes(p, "walk", <<>>, todo[p] \ {f})
    BY <1>3 DEF WalkRead
  <2>2. Fits("walk", <<>>, todo[p] \ {f}) /\ (disk[f] \in Configs => Fits("set", <<f, disk[f]>>, todo[p] \ {f}))
    BY <1>0 DEF TaskTypes, Fits
  <2>3. TaskTypes'
    BY <1>0, <2>1, <2>2, BecomesTypes
  <2> QED
    BY <1>0, <1>3, <2>3 DEF WalkRead, PlaceTypes, fileVars, watchVars
<1>4. CASE WalkSet(p)
  <2>1. Fits("walk", <<>>, todo[p])
    BY <1>0 DEF TaskTypes, Fits
  <2>2. TaskTypes'
    BY <1>0, <1>4, <2>1, BecomesTypes DEF WalkSet
  <2> QED
    BY <1>0, <1>4, <2>2 DEF WalkSet, PlaceTypes, fileVars, watchVars
<1>5. CASE WalkEnd(p)
  <2>1. Fits(IF p \in Goroutines THEN "select" ELSE "none", <<>>, {})
    BY DEF Fits
  <2>2. TaskTypes'
    BY <1>0, <1>5, <2>1, BecomesTypes DEF WalkEnd
  <2> QED
    BY <1>0, <1>5, <2>2 DEF WalkEnd, PlaceTypes, fileVars, watchVars
<1>6. ASSUME p \in Goroutines, NEW ops, TakeEvent(p, ops) PROVE PlaceTypes' /\ Head(queue[p]) \in Events
  <2>1. queue[p] \in Seq(Events) /\ queue[p] # <<>>
    BY <1>0, <1>6 DEF TakeEvent, PlaceTypes
  <2>2. Head(queue[p]) \in Events /\ Tail(queue[p]) \in Seq(Events)
    BY <2>1
  <2>3. queue' \in [Goroutines -> Seq(Events)]
    BY <1>0, <1>6, <2>2 DEF TakeEvent, PlaceTypes
  <2> QED
    BY <1>0, <1>6, <2>2, <2>3 DEF TakeEvent, PlaceTypes, fileVars, watchVars
<1>7. CASE p \in Goroutines /\ TakeWrite(p)
  <2>1. PlaceTypes' /\ Head(queue[p]) \in Events
    BY <1>6, <1>7 DEF TakeWrite
  <2>2. Fits("walk", <<>>, {Head(queue[p])[2]})
    BY <2>1 DEF Events, Fits
  <2> QED
    BY <1>0, <1>7, <2>1, <2>2, BecomesTypes DEF TakeWrite
<1>8. CASE p \in Goroutines /\ TakeRemove(p)
  <2>1. PlaceTypes'
    BY <1>6, <1>8 DEF TakeRemove
  <2>2. Fits("drop", <<>>, Below(Head(queue[p])[2]))
    BY DEF Below, Fits
  <2> QED
    BY <1>0, <1>8, <2>1, <2>2, BecomesTypes DEF TakeRemove
<1>9. CASE p \in Goroutines /\ TakeRename(p)
  <2>1. PlaceTypes'
    BY <1>6, <1>9 DEF TakeRename
  <2> QED
    BY <1>0, <1>9, <2>1 DEF TakeRename, TaskTypes, InHand, taskVars
<1>10. CASE DropOne(p)
  <2>1. PICK i \in todo[p] : Becomes(p, "drop", <<>>, todo[p] \ {i})
    BY <1>10 DEF DropOne
  <2>2. Fits("drop", <<>>, todo[p] \ {i})
    BY <1>0, <1>10 DEF DropOne, InTask, TaskTypes, InHand, Fits
  <2>3. TaskTypes'
    BY <1>0, <2>1, <2>2, BecomesTypes
  <2> QED
    BY <1>0, <1>10, <2>3 DEF DropOne, PlaceTypes, fileVars, watchVars
<1>11. CASE DropEnd(p)
  <2>1. Fits("select", <<>>, {})
    BY DEF Fits
  <2>2. TaskTypes'
    BY <1>0, <1>11, <2>1, BecomesTypes DEF DropEnd
  <2> QED
    BY <1>0, <1>11, <2>2 DEF DropEnd, PlaceTypes, fileVars, watchVars
<1>12. CASE p \in Goroutines /\ Exit(p)
  <2>1. Fits("none", <<>>, {})
    BY DEF Fits
  <2>2. TaskTypes'
    BY <1>0, <1>12, <2>1, BecomesTypes DEF Exit
  <2>3. queue' \in [Goroutines -> Seq(Events)]
    <3>1. <<>> \in Seq(Events)
      OBVIOUS
    <3> QED
      BY <1>0, <1>12, <3>1 DEF Exit, PlaceTypes
  <2> QED
    BY <1>0, <1>12, <2>2, <2>3 DEF Exit, PlaceTypes, fileVars, watchVars
<1> QED
  BY <1>1, <1>2, <1>3, <1>4, <1>5, <1>7, <1>8, <1>9, <1>10, <1>11, <1>12 DEF WalkStep, GoroutineStep

\* The types of Start's and Stop's own variables.
CallTypes ==
    /\ lock \in Walkers \cup {Nobody}
    /\ at \in [Walkers -> {"idle", "relock", "connect", "collect", "manage", "watch",
                           "walk", "serve", "stop", "unserve", "unwatch", "sweep", "close"}]
    /\ again \in [Walkers -> BOOLEAN]
    /\ calls \in 0..MaxCalls
    /\ \A a \in Walkers : lock = a <=> at[a] \notin {"idle", "relock", "stop"}

OwnTypes ==
    /\ up \in BOOLEAN /\ statzC \in BOOLEAN /\ registered \in BOOLEAN /\ http \in BOOLEAN
    /\ conn \in {"nil", "open", "closed"}
    /\ cut \subseteq Listeners /\ crossed \subseteq IDs
    /\ losses \in 0..MaxLosses
    /\ failed \in BOOLEAN

LEMMA TypesInParts ==
    SystemTypes <=> TypeOK /\ PlaceTypes /\ TaskTypes /\ CallTypes /\ OwnTypes
  BY DEF SystemTypes, SurveyorTypeOK, WatcherTypeOK, PlaceTypes, TaskTypes, CallTypes, OwnTypes, Events

\* Who has the lock keeps it and goes on, gives it up, or takes it when it is free.
LEMMA LockTypes ==
    ASSUME CallTypes, NEW a \in Walkers,
           \/ \E next \in {"collect", "manage", "watch", "walk", "serve", "unwatch", "sweep", "close"} :
                GoesTo(a, next) /\ at[a] \notin {"idle", "relock", "stop"}
           \/ Returns(a) /\ at[a] \notin {"idle", "relock", "stop"}
           \/ \E next \in {"connect", "unserve"} :
                /\ Enters(a, next)
                /\ UNCHANGED again
                /\ calls' = calls \/ (calls < MaxCalls /\ calls' = calls + 1)
    PROVE  CallTypes'
<1>1. CASE \E next \in {"collect", "manage", "watch", "walk", "serve", "unwatch", "sweep", "close"} :
             GoesTo(a, next) /\ at[a] \notin {"idle", "relock", "stop"}
  BY <1>1 DEF GoesTo, CallTypes
<1>2. CASE Returns(a) /\ at[a] \notin {"idle", "relock", "stop"}
  BY <1>2, SurveyorAssumption DEF Returns, CallTypes
<1>3. CASE \E next \in {"connect", "unserve"} :
                /\ Enters(a, next)
                /\ UNCHANGED again
                /\ calls' = calls \/ (calls < MaxCalls /\ calls' = calls + 1)
  <2>1. calls' \in 0..MaxCalls
    BY <1>3, SurveyorAssumption DEF CallTypes
  <2>2. lock = Nobody /\ lock' = a
    BY <1>3 DEF Enters
  <2> QED
    BY <1>3, <2>1, <2>2, SurveyorAssumption DEF Enters, CallTypes
<1> QED
  BY <1>1, <1>2, <1>3

LEMMA SystemInit == SurveyorInit => SystemTypes
<1> SUFFICES ASSUME SurveyorInit
             PROVE  SystemTypes
  OBVIOUS
<1> USE FSWatcherAssumption, SurveyorAssumption DEF SurveyorInit, WatcherInit
<1>1. TypeOK
  BY TypeInit
<1>2. PlaceTypes
  <2>1. <<>> \in Seq(Events)
    OBVIOUS
  <2> QED
    BY <2>1 DEF PlaceTypes
<1>3. TaskTypes
  BY DEF TaskTypes, InHand
<1>4. CallTypes
  BY DEF CallTypes
<1>5. OwnTypes
  <2>1. up \in BOOLEAN /\ statzC \in BOOLEAN /\ registered \in BOOLEAN /\ http \in BOOLEAN
    BY Zenon
  <2>2. failed \in BOOLEAN /\ conn \in {"nil", "open", "closed"}
    BY Zenon
  <2>4. cut \subseteq Listeners /\ crossed \subseteq IDs
    BY Zenon
  <2>3. losses \in 0..MaxLosses
    OBVIOUS
  <2> QED
    BY <2>1, <2>2, <2>3, <2>4 DEF OwnTypes
<1> QED
  BY <1>1, <1>2, <1>3, <1>4, <1>5, TypesInParts

LEMMA SystemNext ==
    ASSUME SystemTypes, [SurveyorNext]_systemVars
    PROVE  SystemTypes'
<1> USE FSWatcherAssumption, SurveyorAssumption
<1>0. TypeOK /\ PlaceTypes /\ TaskTypes /\ CallTypes /\ OwnTypes
  BY TypesInParts
<1> DEFINE Typed == (PlaceTypes /\ TaskTypes /\ CallTypes /\ OwnTypes)'
<1>1. ASSUME UNCHANGED fileVars, UNCHANGED watchVars, UNCHANGED queue, UNCHANGED stray
      PROVE  PlaceTypes'
  BY <1>0, <1>1 DEF fileVars, watchVars, PlaceTypes
<1>2. ASSUME UNCHANGED taskVars PROVE TaskTypes'
  BY <1>0, <1>2 DEF taskVars, TaskTypes, InHand
<1>3. ASSUME UNCHANGED callVars PROVE CallTypes'
  BY <1>0, <1>3 DEF callVars, CallTypes
<1>4. ASSUME UNCHANGED ownVars PROVE OwnTypes'
  BY <1>0, <1>4 DEF ownVars, OwnTypes
<1>5. ASSUME OthersKeep PROVE PlaceTypes' /\ TaskTypes'
  BY <1>1, <1>2, <1>5 DEF OthersKeep, watcherVars
<1>6. ASSUME NEW a \in Walkers, StartCall(a) PROVE Typed
  <2>1. CallTypes'
    <3>1. CASE up
      <4>1. calls' \in 0..MaxCalls
        BY <1>0, <1>6 DEF StartCall, CallTypes
      <4> QED
        BY <1>0, <1>6, <3>1, <4>1 DEF StartCall, CallTypes
    <3>2. CASE ~up
      BY <1>0, <1>6, <3>2, LockTypes DEF StartCall
    <3> QED
      BY <3>1, <3>2
  <2> QED
    BY <1>4, <1>5, <1>6, <2>1 DEF StartCall
<1>7. ASSUME NEW a \in Walkers, StopCall(a) PROVE Typed
  <2>1. CallTypes'
    BY <1>0, <1>7, LockTypes DEF StopCall
  <2> QED
    BY <1>4, <1>5, <1>7, <2>1 DEF StopCall
<1>8. ASSUME NEW a \in Walkers, StartStep(a) PROVE Typed
  <2>1. CASE Relock(a)
    <3>1. Enters(a, "connect") /\ UNCHANGED <<again, calls>>
      BY <2>1 DEF Relock
    <3>2. CallTypes'
      BY <1>0, <3>1, LockTypes
    <3> QED
      BY <1>4, <1>5, <2>1, <3>2 DEF Relock
  <2>2. CASE Connect(a) \/ Collect(a)
    <3>1. CallTypes'
      BY <1>0, <2>2, LockTypes DEF Connect, Collect
    <3>2. OwnTypes'
      BY <1>0, <2>2 DEF Connect, Collect, OwnTypes
    <3> QED
      BY <1>5, <2>2, <3>1, <3>2 DEF Connect, Collect
  <2>3. CASE ConnectFails(a) \/ CollectFails(a) \/ Serve(a) \/ ServeFails(a)
    <3>1. CallTypes'
      BY <1>0, <2>3, LockTypes DEF ConnectFails, CollectFails, Serve, ServeFails
    <3>2. OwnTypes'
      BY <1>0, <2>3 DEF ConnectFails, CollectFails, Serve, ServeFails, OwnTypes
    <3> QED
      BY <1>5, <2>3, <3>1, <3>2 DEF ConnectFails, CollectFails, Serve, ServeFails
  <2>4. CASE Manage(a)
    <3>1. CallTypes'
      BY <1>0, <2>4, LockTypes DEF Manage
    <3>2. PlaceTypes'
      BY <1>0, <2>4 DEF Manage, PlaceTypes, fileVars, watchVars
    <3> QED
      BY <1>2, <1>4, <2>4, <3>1, <3>2 DEF Manage
  <2>5. CASE Watch(a)
    <3>1. CallTypes'
      BY <1>0, <2>5, LockTypes DEF Watch
    <3>2. CASE watcher = NoGoroutine
      <4>1. PICK g \in Goroutines : watcher' = g /\ Becomes(g, "select", <<>>, {})
        BY <2>5, <3>2 DEF Watch, StartWatcher
      <4>2. Fits("select", <<>>, {})
        BY DEF Fits
      <4>3. TaskTypes'
        BY <1>0, <4>1, <4>2, BecomesTypes
      <4>4. PlaceTypes'
        BY <1>0, <2>5, <3>2, <4>1 DEF Watch, StartWatcher, PlaceTypes, fileVars
      <4> QED
        BY <1>4, <2>5, <3>1, <4>3, <4>4 DEF Watch
    <3>3. CASE watcher # NoGoroutine
      BY <1>1, <1>2, <1>4, <2>5, <3>1, <3>3 DEF Watch
    <3> QED
      BY <3>2, <3>3
  <2>6. CASE WatchFails(a)
    <3>1. CallTypes'
      BY <1>0, <2>6, LockTypes DEF WatchFails
    <3> QED
      BY <1>4, <1>5, <2>6, <3>1 DEF WatchFails
  <2>7. CASE WalkBegin(a)
    <3>1. CallTypes'
      BY <1>0, <2>7, LockTypes DEF WalkBegin
    <3>2. Fits("walk", <<>>, {Top})
      BY DEF Fits
    <3>3. TaskTypes'
      BY <1>0, <2>7, <3>2, BecomesTypes DEF WalkBegin
    <3> QED
      BY <1>1, <1>4, <2>7, <3>1, <3>3 DEF WalkBegin
  <2>8. CASE Walks(a)
    <3>0. a \in Callers /\ (WalkStep(a) \/ WalkEnd(a))
      BY <2>8 DEF Walks
    <3>1. PlaceTypes' /\ TaskTypes'
      BY <3>0, StepTypes
    <3> QED
      BY <1>3, <1>4, <2>8, <3>1 DEF Walks
  <2> QED
    BY <1>8, <2>1, <2>2, <2>3, <2>4, <2>5, <2>6, <2>7, <2>8 DEF StartStep
<1>9. ASSUME NEW a \in Walkers, StopStep(a) PROVE Typed
  <2>1. CASE StopEnters(a)
    <3>1. CallTypes'
      <4>1. CASE up
        <5>1. Enters(a, "unserve") /\ UNCHANGED <<again, calls>>
          BY <2>1, <4>1 DEF StopEnters
        <5> QED
          BY <1>0, <5>1, LockTypes
      <4>2. CASE ~up
        BY <1>0, <2>1, <4>2 DEF StopEnters, CallTypes
      <4> QED
        BY <4>1, <4>2
    <3> QED
      BY <1>4, <1>5, <2>1, <3>1 DEF StopEnters
  <2>2. CASE Unserve(a)
    <3>1. CallTypes'
      BY <1>0, <2>2, LockTypes DEF Unserve
    <3>2. OwnTypes'
      BY <1>0, <2>2 DEF Unserve, DropsCollector, OwnTypes
    <3> QED
      BY <1>5, <2>2, <3>1, <3>2 DEF Unserve
  <2>3. CASE Unwatch(a)
    <3>1. CallTypes'
      BY <1>0, <2>3, LockTypes DEF Unwatch
    <3>2. PlaceTypes'
      BY <1>0, <2>3 DEF Unwatch, StopWatcherBegin, StopWatcherEnd, PlaceTypes, fileVars, watchVars
    <3> QED
      BY <1>2, <1>4, <2>3, <3>1, <3>2 DEF Unwatch
  <2>4. CASE Sweep(a)
    <3>1. CallTypes'
      BY <1>0, <2>4, LockTypes DEF Sweep
    <3> QED
      BY <1>1, <1>2, <1>4, <2>4, <3>1 DEF Sweep, watcherVars
  <2>5. CASE CloseConns(a)
    <3>1. CallTypes'
      BY <1>0, <2>5 DEF CloseConns, After, CallTypes
    <3>2. OwnTypes'
      <4>1. crossed' \subseteq IDs
        BY <1>0, <2>5 DEF CloseConns, TypeOK
      <4>2. cut' \subseteq Listeners
        BY <2>5 DEF CloseConns, CloseAll
      <4> QED
        BY <1>0, <2>5, <4>1, <4>2 DEF CloseConns, OwnTypes
    <3> QED
      BY <1>1, <1>2, <2>5, <3>1, <3>2 DEF CloseConns, watcherVars
  <2> QED
    BY <1>9, <2>1, <2>2, <2>3, <2>4, <2>5 DEF StopStep
<1>10. ASSUME NEW g \in Goroutines, Works(g) PROVE Typed
  <2>1. PlaceTypes' /\ TaskTypes'
    BY <1>10, StepTypes DEF Works
  <2> QED
    BY <1>3, <1>4, <1>10, <2>1 DEF Works
<1>11. ASSUME NEW p \in Callers, Manages(p) PROVE Typed
  <2>1. stray' \subseteq IDs
    BY <1>0, <1>11 DEF Manages, ManagerStep, PlaceTypes, TypeOK, SetStartFails
  <2>2. PlaceTypes'
    BY <1>0, <1>11, <2>1 DEF Manages, ManagerStep, PlaceTypes, fileVars, watchVars
  <2>3. OwnTypes'
    BY <1>0, <1>11 DEF Manages, OwnTypes
  <2> QED
    BY <1>2, <1>3, <1>11, <2>2, <2>3 DEF Manages, ManagerStep
<1>12. ASSUME Lose PROVE Typed
  <2>0. losses' \in 0..MaxLosses
    BY <1>0, <1>12 DEF Lose, OwnTypes
  <2>1. OwnTypes'
    BY <1>0, <1>12, <2>0 DEF Lose, OwnTypes
  <2> QED
    BY <1>3, <1>5, <1>12, <2>1 DEF Lose
<1>13. ASSUME FilesChange /\ UNCHANGED <<callVars, ownVars>> PROVE Typed
  <2>1. PlaceTypes'
    BY <1>0, <1>13, FilesTypes
  <2>2. UNCHANGED taskVars
    BY <1>13 DEF FilesChange, MoveAway, Change, MakeSub, RemoveSub
  <2>3. UNCHANGED callVars /\ UNCHANGED ownVars
    BY <1>13
  <2> QED
    BY <1>2, <1>3, <1>4, <2>1, <2>2, <2>3
<1>14. ASSUME UNCHANGED systemVars PROVE Typed
  <2>1. UNCHANGED watcherVars /\ UNCHANGED callVars /\ UNCHANGED ownVars
    BY <1>14 DEF systemVars
  <2>2. UNCHANGED fileVars /\ UNCHANGED watchVars /\ UNCHANGED queue /\ UNCHANGED taskVars
          /\ UNCHANGED stray
    BY <2>1 DEF watcherVars
  <2> QED
    BY <1>1, <1>2, <1>3, <1>4, <2>1, <2>2
<1> HIDE DEF Typed
<1>15. Typed
  BY <1>6, <1>7, <1>8, <1>9, <1>10, <1>11, <1>12, <1>13, <1>14 DEF SurveyorNext, Proceeds
<1>16. TypeOK'
  BY ManagerTypes
<1>17. (PlaceTypes /\ TaskTypes /\ CallTypes /\ OwnTypes)'
  BY <1>15 DEF Typed
<1> QED
  BY <1>16, <1>17 DEF SystemTypes, SurveyorTypeOK, WatcherTypeOK, PlaceTypes, TaskTypes, CallTypes,
     OwnTypes, Events

\* All variables of the surveyor, its watcher and its manager have their types; who is
\* in the middle of Start or of Stop has the surveyor's lock, so there is but one.
THEOREM SystemTyped == SurveyorSpec => []SurveyorTypeOK
<1>1. SystemTypes => SurveyorTypeOK
  BY DEF SystemTypes
<1>2. SystemTypes /\ [SurveyorNext]_systemVars => SystemTypes'
  BY SystemNext
<1> QED
  BY <1>1, <1>2, SystemInit, PTL DEF SurveyorSpec

-----------------------------------------------------------------------------
(* The inductive invariant.                                                *)

\* What is there and what is gone at each stage of a Start or a Stop.
Stages ==
    /\ \A p \in Callers : step[p] = "sweep" => p \in Walkers /\ at[p] = "close"
    /\ registered => statzC
    /\ watcher # NoGoroutine => started
    /\ wlock # NoGoroutine => wlock \in Walkers /\ at[wlock] = "unwatch" /\ watcher # NoGoroutine
    /\ \A a \in Walkers :
         /\ at[a] \in {"unwatch", "sweep", "close"} => ~http /\ ~statzC
         /\ at[a] \in {"watch", "sweep", "close"} => watcher = NoGoroutine
         /\ at[a] = "watch" => started
         /\ at[a] = "close" /\ step[a] # "sweep" => ~started
         /\ at[a] \notin {"idle", "relock", "stop", "connect"} => up
         /\ task[a] # "none" => at[a] = "serve"

\* Between a Stop and the next connection nothing is left; a Set that was under way
\* may have started a listener since, which it has in its hands.
Down ==
    ~up => /\ conn = "nil" /\ ~statzC /\ ~http /\ ~started
           /\ watcher = NoGoroutine
           /\ \A l \in Connected : \E p \in Callers : step[p] \in {"install", "undo"} /\ new[p] = l

\* What a Start has set up by each stage, unless one has failed; the next one
\* begins with what is whole, or with nothing.
Outside == {"idle", "relock", "stop", "connect"}

Whole == conn # "nil" /\ statzC /\ started /\ http

Serving ==
    ~failed => /\ statzC => registered
               /\ (up /\ \A a \in Walkers : at[a] \in Outside) => Whole
               /\ \A a \in Walkers :
                    /\ at[a] \in {"collect", "manage", "watch", "walk", "serve"} => conn # "nil"
                    /\ at[a] \in {"manage", "watch", "walk", "serve"} => statzC
                    /\ at[a] \in {"watch", "walk", "serve"} => started

SystemInv == SystemTypes /\ Stages /\ Down /\ Serving

\* Steps of the walk, of the goroutines and of the files leave what Start and Stop
\* look at alone; the manager's part in them is the first step of a Set or a Delete.
Aside ==
    /\ UNCHANGED <<callVars, ownVars, watcher, wlock, started, running>>
    /\ \A p \in Callers : step'[p] = step[p] \/ (step[p] = "idle" /\ step'[p] \in {"start", "retire"})
    /\ new' = new
    /\ \A a \in Walkers : task[a] = "none" => task'[a] = "none"

LEMMA LookAside ==
    ASSUME SystemTypes, NEW p \in Callers,
           \/ UNCHANGED vars
           \/ \E i, c : SetLook(p, i, c)
           \/ \E i : DeleteLook(p, i)
    PROVE  /\ UNCHANGED <<started, running, new>>
           /\ \A q \in Callers : step'[q] = step[q] \/ (step[q] = "idle" /\ step'[q] \in {"start", "retire"})
<1>0. TypeOK
  BY TypesInParts
<1>1. CASE UNCHANGED vars
  BY <1>1 DEF vars, callerVars
<1>2. CASE \E i, c : SetLook(p, i, c)
  BY <1>0, <1>2 DEF SetLook, Goto, TypeOK
<1>3. CASE \E i : DeleteLook(p, i)
  BY <1>0, <1>3 DEF DeleteLook, Goto, TypeOK
<1> QED
  BY <1>1, <1>2, <1>3

LEMMA BecomesAside ==
    ASSUME SystemTypes, NEW p \in Callers, NEW t, NEW h, NEW paths, Becomes(p, t, h, paths),
           p \in Walkers => task[p] # "none"
    PROVE  \A a \in Walkers : task[a] = "none" => task'[a] = "none"
<1>1. task \in [Callers -> {"none", "select", "walk", "list", "set", "drop"}]
  BY TypesInParts DEF TaskTypes
<1> QED
  BY <1>1, FSWatcherAssumption DEF Becomes

LEMMA StepsAside ==
    ASSUME SystemTypes, NEW p \in Callers,
           WalkStep(p) \/ WalkEnd(p) \/ (p \in Goroutines /\ GoroutineStep(p)),
           UNCHANGED <<callVars, ownVars>>
    PROVE  Aside
<1>1. p \in Walkers => p \notin Goroutines
  BY FSWatcherAssumption
<1>2. /\ UNCHANGED <<watcher, wlock>>
      /\ UNCHANGED vars \/ (\E i, c : SetLook(p, i, c)) \/ (\E i : DeleteLook(p, i))
  BY DEF WalkStep, GoroutineStep, WalkDirectory, WalkList, WalkRead, WalkSet, WalkEnd, TakeWrite,
     TakeRemove, TakeRename, TakeEvent, DropOne, DropEnd, Exit, watchVars
<1>3. /\ UNCHANGED <<started, running, new>>
      /\ \A q \in Callers : step'[q] = step[q] \/ (step[q] = "idle" /\ step'[q] \in {"start", "retire"})
  BY <1>2, LookAside
<1>4. \A a \in Walkers : task[a] = "none" => task'[a] = "none"
  <2>1. CASE TakeRename(p)
    BY <2>1 DEF TakeRename, taskVars
  <2>2. CASE ~TakeRename(p)
    <3>1. \E t, h, paths : Becomes(p, t, h, paths)
      BY <2>2 DEF WalkStep, GoroutineStep, WalkDirectory, WalkList, WalkRead, WalkSet, WalkEnd,
         TakeWrite, TakeRemove, DropOne, DropEnd, Exit
    <3>2. p \in Walkers => task[p] # "none"
      BY <1>1 DEF WalkStep, WalkDirectory, WalkList, WalkRead, WalkSet, WalkEnd, InTask
    <3> QED
      BY <3>1, <3>2, BecomesAside
  <2> QED
    BY <2>1, <2>2
<1> QED
  BY <1>2, <1>3, <1>4 DEF Aside

LEMMA FilesAside ==
    ASSUME FilesChange, UNCHANGED <<callVars, ownVars>>
    PROVE  Aside
<1>1. UNCHANGED <<vars, watcher, wlock, taskVars>>
  BY DEF FilesChange, MoveAway, Change, MakeSub, RemoveSub, watchVars
<1>2. UNCHANGED <<started, running, step, new, task>>
  BY <1>1 DEF vars, callerVars, taskVars
<1> QED
  BY <1>1, <1>2 DEF Aside

LEMMA AsideKeeps ==
    ASSUME SystemInv, Aside
    PROVE  (Stages /\ Down /\ Serving)'
<1>1. /\ UNCHANGED <<lock, at, again, up, conn, statzC, registered, http, cut, failed>>
      /\ UNCHANGED <<watcher, wlock, started, running, new>>
  BY DEF Aside, callVars, ownVars
<1>2. TypeOK /\ CallTypes
  BY TypesInParts DEF SystemInv
<1>3. Stages'
  BY <1>1, <1>2, FSWatcherAssumption DEF Aside, SystemInv, Stages, TypeOK
<1>4. Down'
  <2>1. UNCHANGED Connected
    BY <1>1 DEF Connected, RunningListeners
  <2> QED
    BY <1>1, <1>2, <2>1 DEF Aside, SystemInv, Down
<1>5. Serving'
  BY <1>1 DEF SystemInv, Serving, Whole
<1> QED
  BY <1>3, <1>4, <1>5

LEMMA InvInit == SurveyorInit => SystemInv
<1> SUFFICES ASSUME SurveyorInit
             PROVE  SystemInv
  OBVIOUS
<1> USE FSWatcherAssumption DEF SurveyorInit, WatcherInit, Init
<1>1. Stages
  BY DEF Stages
<1>2. Down
  BY DEF Down, Connected, RunningListeners
<1>3. Serving
  BY DEF Serving, Whole
<1> QED
  BY <1>1, <1>2, <1>3, SystemInit DEF SystemInv

\* A step of Start or Stop proper that changes nothing below it.
LEMMA CallsKeep ==
    ASSUME SystemInv, NEW a \in Walkers,
           \/ StartCall(a) \/ StopCall(a) \/ Relock(a) \/ Connect(a) \/ ConnectFails(a) \/ Collect(a)
           \/ CollectFails(a) \/ WatchFails(a) \/ Serve(a) \/ ServeFails(a) \/ StopEnters(a) \/ Unserve(a)
    PROVE  (Stages /\ Down /\ Serving)'
<1> USE FSWatcherAssumption, SurveyorAssumption DEF SystemInv, Stages, Down, Serving, Outside, Whole,
        TypeOK, CallTypes, OwnTypes
<1>0. TypeOK /\ PlaceTypes /\ CallTypes /\ OwnTypes
  BY TypesInParts
<1>1. UNCHANGED <<started, running, step, new, watcher, wlock, task>>
  BY DEF StartCall, StopCall, Relock, Connect, ConnectFails, Collect, CollectFails, WatchFails, Serve,
     ServeFails, StopEnters, Unserve, OthersKeep, vars, callerVars, watcherVars, watchVars, taskVars
<1>2. \A b \in Walkers : at[b] \notin {"idle", "relock", "stop"} => lock = b
  BY <1>0
<1>3. UNCHANGED Connected
  BY <1>1 DEF Connected, RunningListeners, StartCall, StopCall, Relock, Connect, ConnectFails, Collect,
     CollectFails, WatchFails, Serve, ServeFails, StopEnters, Unserve, ownVars
<1>4. CASE StartCall(a) \/ StopCall(a) \/ Relock(a) \/ StopEnters(a)
  BY <1>0, <1>1, <1>2, <1>3, <1>4 DEF StartCall, StopCall, Relock, StopEnters, Enters, ownVars
<1>5. CASE Connect(a)
  BY <1>0, <1>1, <1>2, <1>3, <1>5 DEF Connect, GoesTo
<1>6. CASE ConnectFails(a)
  BY <1>0, <1>1, <1>2, <1>3, <1>6 DEF ConnectFails, Returns
<1>7. CASE Collect(a)
  BY <1>0, <1>1, <1>2, <1>3, <1>7 DEF Collect, GoesTo
<1>8. CASE CollectFails(a)
  BY <1>0, <1>1, <1>2, <1>3, <1>8 DEF CollectFails, Returns
<1>9. CASE WatchFails(a)
  BY <1>0, <1>1, <1>2, <1>3, <1>9 DEF WatchFails, GoesTo, ownVars
<1>10. CASE Serve(a)
  BY <1>0, <1>1, <1>2, <1>3, <1>10 DEF Serve, Returns
<1>11. CASE ServeFails(a)
  BY <1>0, <1>1, <1>2, <1>3, <1>11 DEF ServeFails, Returns
<1>12. CASE Unserve(a)
  <2>1. /\ ~http' /\ ~statzC' /\ (registered' => registered /\ ~statzC)
        /\ UNCHANGED <<up, conn, failed>>
        /\ at' = [at EXCEPT ![a] = "unwatch"] /\ at[a] = "unserve"
    BY <1>12 DEF Unserve, DropsCollector, GoesTo
  <2>10. Stages'
    BY <1>0, <1>1, <1>2, <1>3, <2>1 DEF Stages
  <2>11. Down'
    BY <1>0, <1>1, <1>2, <1>3, <2>1 DEF Down
  <2>12. Serving'
    BY <1>0, <1>1, <1>2, <1>3, <2>1 DEF Serving
  <2> QED
    BY <2>10, <2>11, <2>12
<1> QED
  BY <1>4, <1>5, <1>6, <1>7, <1>8, <1>9, <1>10, <1>11, <1>12

\* A step of Start or Stop that reaches the watcher or the manager.
LEMMA ReachesKeep ==
    ASSUME SystemInv, NEW a \in Walkers,
           Manage(a) \/ Watch(a) \/ WalkBegin(a) \/ Unwatch(a) \/ Sweep(a)
    PROVE  (Stages /\ Down /\ Serving)'
<1> USE FSWatcherAssumption, SurveyorAssumption DEF SystemInv, Stages, Down, Serving, Outside, Whole,
        TypeOK, CallTypes, OwnTypes, PlaceTypes, TaskTypes
<1>0. TypeOK /\ PlaceTypes /\ TaskTypes /\ CallTypes /\ OwnTypes
  BY TypesInParts
<1>1. UNCHANGED <<up, conn, statzC, registered, http, cut, failed, running, new>>
  BY DEF Manage, Watch, WalkBegin, Unwatch, Sweep, ownVars, vars, callerVars, Start, StopBegin
<1>2. \A b \in Walkers : at[b] \notin {"idle", "relock", "stop"} => lock = b
  BY <1>0
<1>3. UNCHANGED Connected
  BY <1>1 DEF Connected, RunningListeners
<1>4. CASE Manage(a)
  <2>1. UNCHANGED <<step, task, watcher, wlock>>
    BY <1>4 DEF Manage, Start, vars, callerVars, watchVars, taskVars
  <2>2. /\ at[a] = "manage" /\ started'
        /\ at' = [at EXCEPT ![a] = IF started THEN "serve" ELSE "watch"]
    BY <1>4 DEF Manage, GoesTo, Start, vars
  <2>3. at'[a] = "serve" \/ (at'[a] = "watch" /\ watcher = NoGoroutine)
    <3>1. CASE started
      BY <1>0, <2>2, <3>1
    <3>2. CASE ~started
      <4>1. watcher = NoGoroutine
        BY <3>2
      <4>2. at'[a] = "watch"
        BY <1>0, <2>2, <3>2
      <4> QED
        BY <4>1, <4>2
    <3> QED
      BY <3>1, <3>2
  <2>4. \A b \in Walkers \ {a} : at'[b] = at[b] /\ at[b] \in {"idle", "relock", "stop"}
    <3>1. lock = a
      BY <1>2, <2>2
    <3>2. \E next : at' = [at EXCEPT ![a] = next]
      BY <2>2
    <3> QED
      BY <1>0, <1>2, <3>1, <3>2
  <2>5. wlock = NoGoroutine
    BY <1>0, <2>2, <2>4
  <2>10. Stages'
    BY <1>0, <1>1, <2>1, <2>2, <2>3, <2>4, <2>5 DEF Stages
  <2>11. Down'
    BY <1>0, <1>1, <1>2, <1>3, <2>1, <2>2 DEF Down
  <2>12. Serving'
    BY <1>0, <1>1, <1>2, <1>3, <2>1, <2>2 DEF Serving
  <2> QED
    BY <2>10, <2>11, <2>12
<1>5. CASE Watch(a)
  <2>1. UNCHANGED <<started, step>>
    BY <1>5 DEF Watch, vars, callerVars
  <2>2. \A b \in Walkers : task'[b] = task[b]
    BY <1>0, <1>5 DEF Watch, StartWatcher, Becomes, taskVars
  <2>3. UNCHANGED wlock
    BY <1>5 DEF Watch, StartWatcher, watchVars
  <2>4. at[a] = "watch" /\ at' = [at EXCEPT ![a] = "walk"]
    BY <1>5 DEF Watch, GoesTo
  <2>10. Stages'
    BY <1>0, <1>1, <1>2, <1>3, <2>1, <2>2, <2>3, <2>4 DEF Stages
  <2>11. Down'
    BY <1>0, <1>1, <1>2, <1>3, <2>1, <2>2, <2>3, <2>4 DEF Down
  <2>12. Serving'
    BY <1>0, <1>1, <1>2, <1>3, <2>1, <2>2, <2>3, <2>4 DEF Serving
  <2> QED
    BY <2>10, <2>11, <2>12
<1>6. CASE WalkBegin(a)
  <2>1. UNCHANGED <<started, step, watcher, wlock>>
    BY <1>6 DEF WalkBegin, vars, callerVars, watchVars
  <2>2. at[a] = "walk" /\ at' = [at EXCEPT ![a] = "serve"]
    BY <1>6 DEF WalkBegin, GoesTo
  <2>3. \A b \in Walkers \ {a} : task'[b] = task[b]
    BY <1>0, <1>6 DEF WalkBegin, Becomes
  <2>10. Stages'
    BY <1>0, <1>1, <1>2, <1>3, <2>1, <2>2, <2>3 DEF Stages
  <2>11. Down'
    BY <1>0, <1>1, <1>2, <1>3, <2>1, <2>2 DEF Down
  <2>12. Serving'
    BY <1>0, <1>1, <1>2, <1>3, <2>1, <2>2 DEF Serving
  <2> QED
    BY <2>10, <2>11, <2>12
<1>7. CASE Unwatch(a)
  <2>1. UNCHANGED <<started, step, task>>
    BY <1>7 DEF Unwatch, vars, callerVars, taskVars
  <2>2. at[a] = "unwatch"
    BY <1>7 DEF Unwatch
  <2>3. \/ UNCHANGED <<at, watcher>> /\ watcher # NoGoroutine /\ wlock' = a
        \/ /\ at' = [at EXCEPT ![a] = "sweep"] /\ watcher' = NoGoroutine
           /\ wlock' = NoGoroutine
    BY <1>0, <1>7 DEF Unwatch, StopWatcherBegin, StopWatcherEnd, GoesTo, watchVars
  <2>10. Stages'
    BY <1>0, <1>1, <1>2, <1>3, <2>1, <2>2, <2>3 DEF Stages
  <2>11. Down'
    BY <1>0, <1>1, <1>2, <1>3, <2>1, <2>2, <2>3 DEF Down
  <2>12. Serving'
    BY <1>0, <1>1, <1>2, <1>3, <2>1, <2>2, <2>3 DEF Serving
  <2> QED
    BY <2>10, <2>11, <2>12
<1>8. CASE Sweep(a)
  <2>1. UNCHANGED <<started, watcher, wlock, task>>
    BY <1>8 DEF Sweep, StopBegin, vars, callerVars, watcherVars, watchVars, taskVars
  <2>2. at[a] = "sweep" /\ at' = [at EXCEPT ![a] = "close"]
    BY <1>8 DEF Sweep, GoesTo
  <2>3. IF started THEN step' = [step EXCEPT ![a] = "sweep"] ELSE step' = step
    BY <1>8 DEF Sweep, StopBegin, Goto, vars, callerVars
  <2>4. watcher = NoGoroutine /\ wlock = NoGoroutine
    BY <2>2
  <2>5. \A q \in Callers : step'[q] = "sweep" => q \in Walkers /\ at'[q] = "close"
    BY <1>0, <2>2, <2>3
  <2>6. step'[a] = "sweep" \/ ~started
    BY <1>0, <2>3
  <2>7. \A b \in Walkers \ {a} : at'[b] = at[b] /\ step'[b] = step[b]
    BY <1>0, <2>2, <2>3
  <2>8. at'[a] = "close"
    BY <1>0, <2>2
  <2>10. Stages'
    BY <1>0, <1>1, <1>2, <2>1, <2>2, <2>4, <2>5, <2>6, <2>7, <2>8 DEF Stages
  <2>11. Down'
    BY <1>0, <1>1, <1>2, <1>3, <2>1, <2>2, <2>3 DEF Down
  <2>12. Serving'
    BY <1>0, <1>1, <1>2, <1>3, <2>1, <2>2, <2>3 DEF Serving
  <2> QED
    BY <2>10, <2>11, <2>12
<1> QED
  BY <1>4, <1>5, <1>6, <1>7, <1>8

LEMMA CloseKeeps ==
    ASSUME SystemInv, NEW a \in Walkers, CloseConns(a)
    PROVE  (Stages /\ Down /\ Serving)'
<1> USE FSWatcherAssumption, SurveyorAssumption DEF SystemInv, Stages, Down, Serving, Outside, Whole,
        TypeOK, CallTypes, OwnTypes
<1>0. TypeOK /\ CallTypes /\ OwnTypes
  BY TypesInParts
<1>1. UNCHANGED <<started, step, new, watcher, wlock, task, statzC, registered, http>>
  BY DEF CloseConns, callerVars, watcherVars, watchVars, taskVars
<1>2. \A b \in Walkers : at[b] \notin {"idle", "relock", "stop"} => lock = b
  BY <1>0
<1>3. Connected' = {}
  BY <1>0 DEF CloseConns, CloseAll, Connected, RunningListeners
<1> QED
  BY <1>0, <1>1, <1>2, <1>3 DEF CloseConns, After

\* The manager's steps: a Set that started a listener on a surveyor that is down is refused.
LEMMA ManagesKeep ==
    ASSUME SystemInv, NEW p \in Callers, Manages(p)
    PROVE  (Stages /\ Down /\ Serving)'
<1> USE FSWatcherAssumption, SurveyorAssumption
<1>0. TypeOK /\ CallTypes /\ OwnTypes
  BY TypesInParts DEF SystemInv
<1>1. UNCHANGED <<at, lock, up, conn, statzC, registered, http, failed, watcher, wlock, task>>
  BY DEF Manages, ManagerStep, callVars, watchVars, taskVars
<1>2. \A q \in Callers : q # p => step'[q] = step[q] /\ new'[q] = new[q]
  BY <1>0 DEF Manages, ManagerStep, Proceed, StopOne, StopEnd, SetStart, SetStartFails, SetInstall,
     SetRefused, SetUndo, Retire, Goto, Return, callerVars, TypeOK
<1>3. step'[p] # "sweep" \/ (step[p] = "sweep" /\ step'[p] = "sweep")
  BY <1>0 DEF Manages, ManagerStep, Proceed, StopOne, StopEnd, SetStart, SetStartFails, SetInstall,
     SetRefused, SetUndo, Retire, Goto, Return, callerVars, TypeOK
<1>4. started' = started \/ (started' = FALSE /\ step[p] = "sweep" /\ step'[p] = "idle")
  BY <1>0 DEF Manages, ManagerStep, Proceed, StopOne, StopEnd, SetStart, SetStartFails, SetInstall,
     SetRefused, SetUndo, Retire, Goto, Return, callerVars, TypeOK
<1>5. /\ step[p] = "sweep" => p \in Walkers /\ at[p] = "close"
      /\ step[p] = "sweep" /\ step'[p] # "sweep" => ~started'
  <2>1. step[p] = "sweep" => p \in Walkers /\ at[p] = "close"
    BY DEF SystemInv, Stages
  <2>2. step[p] = "sweep" => StopOne(p) \/ StopEnd(p)
    BY DEF Manages, ManagerStep, Proceed, SetStart, SetStartFails, SetInstall, SetRefused, SetUndo, Retire
  <2>3. step[p] = "sweep" /\ StopOne(p) => step'[p] = step[p]
    BY DEF StopOne, callerVars
  <2>4. StopEnd(p) => ~started'
    BY DEF StopEnd
  <2> QED
    BY <2>1, <2>2, <2>3, <2>4
<1>6. started' # started => p \in Walkers /\ at[p] = "close" /\ step'[p] = "idle" /\ ~started'
  BY <1>4, <1>5
<1>7. Stages'
  <2>1. \A q \in Callers : step'[q] = "sweep" => q \in Walkers /\ at'[q] = "close"
    BY <1>1, <1>2, <1>3, <1>5 DEF SystemInv, Stages
  <2>2. \A a \in Walkers : at[a] = "close" /\ step'[a] # "sweep" => ~started'
    BY <1>2, <1>4, <1>5, FSWatcherAssumption DEF SystemInv, Stages
  <2>3. \A a \in Walkers : at[a] = "watch" => started'
    <3>1. ASSUME NEW a \in Walkers, at[a] = "watch" PROVE started' = started
      <4>1. lock = a
        BY <1>0, <3>1 DEF CallTypes
      <4>2. ~(p \in Walkers /\ at[p] = "close")
        BY <1>0, <3>1, <4>1 DEF CallTypes
      <4> QED
        BY <1>6, <4>2
    <3> QED
      BY <3>1 DEF SystemInv, Stages
  <2>4. watcher # NoGoroutine => started'
    BY <1>6 DEF SystemInv, Stages
  <2> QED
    BY <1>1, <2>1, <2>2, <2>3, <2>4 DEF SystemInv, Stages
<1>8. Serving'
  BY <1>0, <1>1, <1>6 DEF SystemInv, Serving, Whole, Outside, CallTypes
<1>9. ASSUME ~up', NEW l \in Connected'
      PROVE  \E q \in Callers : step'[q] \in {"install", "undo"} /\ new'[q] = l
  <2>1. ~up /\ ~started
    BY <1>1, <1>9 DEF SystemInv, Down
  <2>2. l \in Listeners /\ running'[l] /\ (running[l] => l \notin cut)
    BY <1>9 DEF Connected, RunningListeners, Manages
  <2>3. CASE SetStart(p)
    <3>1. PICK k \in Listeners : running' = [running EXCEPT ![k] = TRUE] /\ new' = [new EXCEPT ![p] = k]
      BY <2>3 DEF SetStart
    <3>2. step'[p] = "install" /\ new'[p] = k
      BY <1>0, <2>3, <3>1 DEF SetStart, Goto, TypeOK
    <3>3. CASE l = k
      BY <3>2, <3>3
    <3>4. CASE l # k
      <4>1. l \in Connected
        BY <1>0, <2>2, <3>1, <3>4 DEF Connected, RunningListeners, TypeOK
      <4>2. PICK q \in Callers : step[q] \in {"install", "undo"} /\ new[q] = l
        BY <2>1, <4>1 DEF SystemInv, Down
      <4>3. q # p
        BY <2>3, <4>2 DEF SetStart
      <4> QED
        BY <1>2, <4>2, <4>3
    <3> QED
      BY <3>3, <3>4
  <2>4. CASE ~SetStart(p)
    <3>1. \/ running' = running
          \/ \E k : running' = [running EXCEPT ![k] = FALSE]
      BY <1>9, <2>4 DEF Manages, ManagerStep, Proceed, StopOne, StopEnd, SetStartFails, SetInstall,
         SetRefused, SetUndo, Retire, StopListener
    <3>2. running[l]
      BY <1>0, <2>2, <3>1 DEF TypeOK
    <3>3. l \in Connected
      BY <2>2, <3>2 DEF Connected, RunningListeners
    <3>4. PICK q \in Callers : step[q] \in {"install", "undo"} /\ new[q] = l
      BY <2>1, <3>3 DEF SystemInv, Down
    <3>5. CASE q = p
      <4>1. SetRefused(p) \/ SetUndo(p)
        BY <2>1, <2>4, <3>4, <3>5 DEF Manages, ManagerStep, Proceed, StopOne, StopEnd, SetStartFails,
           SetInstall, StillStarted, Retire
      <4>2. ~SetUndo(p)
        BY <1>0, <2>2, <3>4, <3>5 DEF SetUndo, StopListener, TypeOK
      <4> QED
        BY <1>0, <3>4, <3>5, <4>1, <4>2 DEF SetRefused, Goto, TypeOK
    <3>6. CASE q # p
      BY <1>2, <3>4, <3>6
    <3> QED
      BY <3>5, <3>6
  <2> QED
    BY <2>3, <2>4
<1>10. Down'
  BY <1>1, <1>6, <1>9 DEF SystemInv, Down
<1> QED
  BY <1>7, <1>8, <1>10

LEMMA LoseKeeps ==
    ASSUME SystemInv, Lose
    PROVE  (Stages /\ Down /\ Serving)'
<1>1. /\ UNCHANGED <<at, lock, up, statzC, registered, http, cut, failed>>
      /\ conn = "open" /\ conn' = "closed"
  BY DEF Lose, callVars
<1>2. UNCHANGED <<started, running, step, new, watcher, wlock, task>>
  BY DEF Lose, OthersKeep, vars, callerVars, watcherVars, watchVars, taskVars
<1>3. UNCHANGED Connected
  BY <1>1, <1>2 DEF Connected, RunningListeners
<1>4. Stages'
  BY <1>1, <1>2 DEF SystemInv, Stages
<1>5. Down'
  BY <1>1, <1>2, <1>3 DEF SystemInv, Down
<1>6. Serving'
  BY <1>1, <1>2 DEF SystemInv, Serving, Whole
<1> QED
  BY <1>4, <1>5, <1>6

LEMMA InvNext == SystemInv /\ [SurveyorNext]_systemVars => SystemInv'
<1> SUFFICES ASSUME SystemInv, [SurveyorNext]_systemVars
             PROVE  SystemInv'
  OBVIOUS
<1> DEFINE Kept == (Stages /\ Down /\ Serving)'
<1>0. SystemTypes /\ SystemTypes'
  BY SystemNext DEF SystemInv
<1>1. ASSUME NEW a \in Walkers, StartCall(a) \/ StopCall(a) \/ StartStep(a) \/ StopStep(a) PROVE Kept
  <2>1. CASE Walks(a)
    <3>1. /\ a \in Callers /\ (WalkStep(a) \/ WalkEnd(a))
          /\ UNCHANGED <<callVars, ownVars>>
      BY <2>1, FSWatcherAssumption DEF Walks
    <3> QED
      BY <1>0, <3>1, StepsAside, AsideKeeps
  <2>2. CASE ~Walks(a)
    BY <1>1, <2>2, CallsKeep, ReachesKeep, CloseKeeps DEF StartStep, StopStep
  <2> QED
    BY <2>1, <2>2
<1>2. ASSUME NEW g \in Goroutines, Works(g) PROVE Kept
  <2>1. g \in Callers /\ GoroutineStep(g) /\ UNCHANGED <<callVars, ownVars>>
    BY <1>2, FSWatcherAssumption DEF Works
  <2> QED
    BY <1>0, <2>1, StepsAside, AsideKeeps
<1>3. ASSUME NEW p \in Callers, Manages(p) PROVE Kept
  BY <1>3, ManagesKeep
<1>4. ASSUME Lose PROVE Kept
  BY <1>4, LoseKeeps
<1>5. ASSUME FilesChange, UNCHANGED <<callVars, ownVars>> PROVE Kept
  BY <1>5, FilesAside, AsideKeeps
<1>6. ASSUME UNCHANGED systemVars PROVE Kept
  <2>1. UNCHANGED <<vars, watcherVars, callVars, ownVars>>
    BY <1>6 DEF systemVars
  <2>2. Aside
    BY <2>1 DEF Aside, vars, callerVars, watcherVars, watchVars, taskVars
  <2> QED
    BY <2>2, AsideKeeps
<1> HIDE DEF Kept
<1>7. Kept
  BY <1>1, <1>2, <1>3, <1>4, <1>5, <1>6 DEF SurveyorNext, Proceeds
<1> QED
  BY <1>0, <1>7 DEF Kept, SystemInv

\* When a stopped surveyor's lock is free, nothing of it is left, however many Starts,
\* Stops, Sets and Deletes overlapped: a Set that started a listener after the
\* provider closed its connections finds the manager stopped, and stops it.
THEOREM StoppedIsQuiet == SurveyorSpec => []QuietAfterStop
<1>1. SystemInv => QuietAfterStop
  <2> SUFFICES ASSUME SystemInv, ~up, lock = Nobody
               PROVE  /\ AllIdle => Connected = {}
                      /\ ~registered /\ ~http /\ conn = "nil" /\ watcher = NoGoroutine /\ ~started
    BY DEF QuietAfterStop
  <2>1. AllIdle => Connected = {}
    BY DEF SystemInv, Down, AllIdle
  <2>2. ~registered /\ ~http /\ conn = "nil" /\ watcher = NoGoroutine /\ ~started
    BY DEF SystemInv, Down, Stages
  <2> QED
    BY <2>1, <2>2
<1> QED
  BY <1>1, InvInit, InvNext, PTL DEF SurveyorSpec

\* A surveyor that is up has what it serves with, unless a Start has failed and left
\* it up: a Start that finds a collector or a manager keeps it, and every Stop takes
\* down all of them before another Start can look.
THEOREM UpServes == SurveyorSpec => []ServesWhenUp
<1>1. SystemInv => ServesWhenUp
  <2> SUFFICES ASSUME SystemInv, up, lock = Nobody, ~failed
               PROVE  conn # "nil" /\ statzC /\ registered /\ started /\ http
    BY DEF ServesWhenUp
  <2>1. CallTypes
    BY TypesInParts DEF SystemInv
  <2>2. \A a \in Walkers : at[a] \in Outside
    BY <2>1, SurveyorAssumption DEF CallTypes, Outside
  <2> QED
    BY <2>2 DEF SystemInv, Serving, Whole
<1> QED
  BY <1>1, InvInit, InvNext, PTL DEF SurveyorSpec

-----------------------------------------------------------------------------
(* What the manager promises holds in the whole system, too.               *)

\* The provider's Close finds the manager stopped and its map empty; a listener that
\* it cuts off in the hands of a Set still counts as running, as the Set believes.
LEMMA CloseSpares ==
    ASSUME SystemInv, MapInv, CloseMove
    PROVE  MapInv'
<1> USE DEF MapInv
<1>0. UNCHANGED <<started, listenerMap, config, gauge, callerVars, raced>>
  BY DEF CloseMove
<1>1. TypeOK'
  BY <1>0 DEF CloseMove, CloseAll, TypeOK, callerVars
<1>2. ~started
  BY DEF SystemInv, Stages, CloseMove
<1>3. \A i \in IDs : listenerMap[i] = NoListener
  BY <1>2 DEF RegisteredRuns
<1>4. RegisteredRuns'
  BY <1>0, <1>3 DEF RegisteredRuns
<1>5. ASSUME NEW p \in Callers, step[p] = "install" PROVE running'[new[p]]
  <2>1. new[p] \in Listeners /\ running[new[p]]
    BY <1>5 DEF Hands, Fresh, TypeOK, ListenerOrNil
  <2> QED
    BY <2>1 DEF CloseMove, CloseAll, Referenced
<1>6. Fresh'
  BY <1>0, <1>5 DEF Fresh, Registered, callerVars
<1> QED
  BY <1>0, <1>1, <1>4, <1>6 DEF Hands, Distinct, OldOne, Sweeping, callerVars

LEMMA MapKept == SystemInv /\ MapInv /\ [SurveyorNext]_systemVars => MapInv'
<1> SUFFICES ASSUME SystemInv, MapInv, [SurveyorNext]_systemVars
             PROVE  MapInv'
  OBVIOUS
<1>1. CASE [Next]_vars
  BY <1>1, MapNext
<1>2. CASE CloseMove
  BY <1>2, CloseSpares
<1> QED
  BY <1>1, <1>2, ManagerMoves DEF SystemInv

\* Whatever Starts, Stops, walks and events overlap, the manager's map offers only
\* listeners that were not stopped, and none once it is stopped.
THEOREM SystemMapRuns == SurveyorSpec => []RegisteredRuns
<1>1. SurveyorInit => SystemInv /\ MapInv
  BY InvInit, MapInit DEF SurveyorInit, WatcherInit
<1>2. (SystemInv /\ MapInv) /\ [SurveyorNext]_systemVars => (SystemInv /\ MapInv)'
  BY InvNext, MapKept
<1>3. SystemInv /\ MapInv => RegisteredRuns
  BY DEF MapInv
<1> QED
  BY <1>1, <1>2, <1>3, PTL DEF SurveyorSpec

-----------------------------------------------------------------------------
(* Which listeners may be cut off: those that a Set had in its hands when  *)
(* the provider closed the connections.                                    *)

CutInv ==
    /\ \A l \in cut : running[l]
    /\ \A i \in IDs \ crossed :
         /\ listenerMap[i] \notin cut
         /\ \A p \in Callers : (step[p] = "install" /\ id[p] = i) => new[p] \notin cut

\* A step that starts no listener and puts none into the map.
NoNewOne ==
    /\ \A i \in IDs : listenerMap'[i] \in {listenerMap[i], NoListener}
    /\ \A p \in Callers :
         step'[p] = "install" => step[p] = "install" /\ id'[p] = id[p] /\ new'[p] = new[p]

\* The first steps of the manager's calls.
FirstStep ==
    \/ Start
    \/ \E p \in Callers : StopBegin(p) \/ (\E i, c : SetLook(p, i, c)) \/ (\E i : DeleteLook(p, i))
    \/ UNCHANGED vars

LEMMA FirstNoNew ==
    ASSUME TypeOK, FirstStep
    PROVE  NoNewOne /\ running' = running
<1>1. CASE Start \/ UNCHANGED vars
  BY <1>1 DEF Start, NoNewOne, vars, callerVars
<1>2. ASSUME NEW p \in Callers, StopBegin(p) \/ \E i, c : SetLook(p, i, c)
      PROVE  NoNewOne /\ running' = running
  <2>1. CASE StopBegin(p)
    BY <2>1 DEF StopBegin, Goto, NoNewOne, TypeOK
  <2>2. CASE \E i, c : SetLook(p, i, c)
    BY <2>2 DEF SetLook, Goto, NoNewOne, TypeOK
  <2> QED
    BY <1>2, <2>1, <2>2
<1>3. ASSUME NEW p \in Callers, NEW i, DeleteLook(p, i)
      PROVE  NoNewOne /\ running' = running
  BY <1>3 DEF DeleteLook, Goto, NoNewOne, TypeOK
<1> QED
  BY <1>1, <1>2, <1>3 DEF FirstStep

\* Where a listener may be cut off, or put into the map.
LEMMA CutMoves ==
    ASSUME SystemTypes, [SurveyorNext]_systemVars
    PROVE  \/ FirstStep /\ UNCHANGED <<cut, crossed>>
           \/ \E a \in Walkers : CloseConns(a)
           \/ \E p \in Callers : Manages(p)
<1> DEFINE Other == FirstStep /\ UNCHANGED <<cut, crossed>>
<1> USE FSWatcherAssumption
<1>1. ASSUME NEW p \in Callers,
             WalkStep(p) \/ WalkEnd(p) \/ (p \in Goroutines /\ GoroutineStep(p)),
             UNCHANGED ownVars
      PROVE  Other
  <2>1. UNCHANGED vars \/ (\E i, c : SetLook(p, i, c)) \/ (\E i : DeleteLook(p, i))
    BY <1>1 DEF WalkStep, GoroutineStep, WalkDirectory, WalkList, WalkRead, WalkSet, WalkEnd,
       TakeWrite, TakeRemove, TakeRename, TakeEvent, DropOne, DropEnd, Exit
  <2> QED
    BY <1>1, <2>1 DEF FirstStep, ownVars
<1>2. ASSUME NEW a \in Walkers, StartStep(a) PROVE Other
  <2>1. CASE Walks(a)
    BY <1>1, <2>1 DEF Walks
  <2>2. CASE ~Walks(a)
    BY <1>2, <2>2 DEF StartStep, Relock, Connect, ConnectFails, Collect, CollectFails, Manage, Watch,
       WatchFails, WalkBegin, Serve, ServeFails, OthersKeep, FirstStep, ownVars
  <2> QED
    BY <2>1, <2>2
<1>3. ASSUME NEW a \in Walkers, StopStep(a) PROVE Other \/ CloseConns(a)
  BY <1>3 DEF StopStep, StopEnters, Unserve, Unwatch, Sweep, OthersKeep, FirstStep, ownVars
<1>4. ASSUME NEW g \in Goroutines, Works(g) PROVE Other
  BY <1>1, <1>4 DEF Works
<1>5. ASSUME NEW a \in Walkers, StartCall(a) \/ StopCall(a) PROVE Other
  BY <1>5 DEF StartCall, StopCall, OthersKeep, FirstStep, ownVars
<1>6. ASSUME Lose \/ UNCHANGED systemVars PROVE Other
  BY <1>6 DEF Lose, OthersKeep, FirstStep, systemVars, ownVars
<1>7. ASSUME FilesChange, UNCHANGED <<callVars, ownVars>> PROVE Other
  BY <1>7 DEF FilesChange, MoveAway, Change, MakeSub, RemoveSub, FirstStep, ownVars
<1> HIDE DEF Other
<1>8. CASE Proceeds
  <2>1. Other \/ (\E a \in Walkers : CloseConns(a)) \/ \E p \in Callers : Manages(p)
    BY <1>2, <1>3, <1>4, <1>8 DEF Proceeds
  <2> QED
    BY <2>1 DEF Other
<1>9. CASE ~Proceeds
  <2>1. Other
    BY <1>5, <1>6, <1>7, <1>9 DEF SurveyorNext
  <2> QED
    BY <2>1 DEF Other
<1> QED
  BY <1>8, <1>9

\* A step of a call that has begun: a listener that it starts has not run before, so
\* it is not one that was cut off; one that it installs is the one in its hands.
LEMMA CutManages ==
    ASSUME MapInv, OwnTypes, CutInv, NEW p \in Callers, Manages(p)
    PROVE  CutInv'
<1>0. TypeOK /\ NoListener \notin cut
  BY ObsManagerAssumption DEF MapInv, OwnTypes
<1>1. /\ Proceed(p) /\ cut' = {l \in cut : running'[l] /\ running[l]}
      /\ crossed' = IF Renews(p) THEN crossed \ {id[p]} ELSE crossed
  BY DEF Manages, ManagerStep
<1>2. \A l \in cut' : running'[l]
  BY <1>1
<1>3. CASE NoNewOne /\ ~SetInstall(p)
  BY <1>0, <1>1, <1>2, <1>3 DEF Renews, NoNewOne, CutInv
<1>4. CASE SetStart(p)
  <2>1. crossed' = crossed
    BY <1>1, <1>4 DEF Renews, SetStart, SetInstall
  <2> QED
    BY <1>0, <1>1, <1>2, <1>4, <2>1 DEF SetStart, Unused, Goto, TypeOK, CutInv
<1>5. CASE SetInstall(p)
  <2>1. listenerMap' = [listenerMap EXCEPT ![id[p]] = new[p]] /\ step[p] = "install"
    BY <1>5 DEF SetInstall
  <2>2. ASSUME NEW q \in Callers, step'[q] = "install"
        PROVE  step[q] = "install" /\ id'[q] = id[q] /\ new'[q] = new[q]
    BY <1>0, <1>5, <2>2 DEF SetInstall, Goto, Return, TypeOK
  <2>3. ASSUME NEW i \in IDs \ crossed'
        PROVE  /\ listenerMap[i] \notin cut \/ i = id[p]
               /\ \A q \in Callers : (step[q] = "install" /\ id[q] = i) => new[q] \notin cut
    BY <1>1, <2>3 DEF Renews, CutInv
  <2>4. ASSUME NEW i \in IDs \ crossed' PROVE listenerMap'[i] \notin cut'
    <3>1. listenerMap'[i] = IF i = id[p] THEN new[p] ELSE listenerMap[i]
      BY <1>0, <2>1 DEF TypeOK
    <3> QED
      BY <1>1, <2>1, <2>3, <3>1
  <2> QED
    BY <1>1, <1>2, <2>2, <2>3, <2>4 DEF CutInv
<1>6. SetStart(p) \/ SetInstall(p) \/ NoNewOne
  <2>1. CASE StopOne(p) \/ SetRefused(p)
    BY <1>0, <2>1 DEF StopOne, SetRefused, Goto, NoNewOne, TypeOK, callerVars
  <2>2. CASE StopEnd(p) \/ SetStartFails(p) \/ SetUndo(p) \/ Retire(p)
    BY <1>0, <2>2 DEF StopEnd, SetStartFails, SetUndo, Retire, Return, Goto, NoNewOne, TypeOK
  <2> QED
    BY <1>1, <2>1, <2>2 DEF Proceed
<1> QED
  BY <1>3, <1>4, <1>5, <1>6

LEMMA CutKept == SystemInv /\ MapInv /\ CutInv /\ [SurveyorNext]_systemVars => CutInv'
<1> SUFFICES ASSUME SystemInv, MapInv, CutInv, [SurveyorNext]_systemVars
             PROVE  CutInv'
  OBVIOUS
<1>0. SystemTypes /\ TypeOK
  BY DEF SystemInv, MapInv
<1>1. CASE FirstStep /\ UNCHANGED <<cut, crossed>>
  <2>1. NoNewOne /\ running' = running
    BY <1>0, <1>1, FirstNoNew
  <2>2. NoListener \notin cut
    BY <1>0, ObsManagerAssumption, TypesInParts DEF OwnTypes
  <2> QED
    BY <1>1, <2>1, <2>2 DEF NoNewOne, CutInv
<1>2. ASSUME NEW a \in Walkers, CloseConns(a) PROVE CutInv'
  <2>1. ~started
    BY <1>2 DEF SystemInv, Stages, CloseConns
  <2>2. \A i \in IDs : listenerMap'[i] = NoListener
    BY <1>2, <2>1 DEF CloseConns, MapInv, RegisteredRuns
  <2>3. cut' \subseteq Listeners /\ \A l \in cut' : running'[l]
    BY <1>2 DEF CloseConns, CloseAll
  <2>4. \A p \in Callers : step'[p] = "install" => id'[p] \in crossed'
    BY <1>2 DEF CloseConns, callerVars
  <2> QED
    BY <2>2, <2>3, <2>4, ObsManagerAssumption DEF CutInv
<1>3. ASSUME NEW p \in Callers, Manages(p) PROVE CutInv'
  BY <1>0, <1>3, TypesInParts, CutManages
<1> QED
  BY <1>0, <1>1, <1>2, <1>3, CutMoves
=============================================================================
