-------------------------- MODULE ObsManagerProofs --------------------------
(***************************************************************************)
(* Proofs about the manager of observations, for any callers, IDs,         *)
(* configurations and listeners.                                           *)
(***************************************************************************)
EXTENDS ObsManager, FiniteSetTheorems, TLAPS

-----------------------------------------------------------------------------
(* The inductive invariant.  Its first part holds whatever overlaps.       *)

\* What a caller has in its hands at each step.
Hands ==
    \A p \in Callers :
       /\ step[p] \in {"install", "undo"} => new[p] # NoListener
       /\ step[p] = "retire" => old[p] # NoListener
       /\ step[p] \in {"idle", "start", "sweep"} => new[p] = NoListener
       /\ step[p] \in {"idle", "sweep"} => old[p] = NoListener

\* A listener that waits to be installed is known to its caller alone.
Fresh ==
    \A p \in Callers : step[p] \in {"install", "undo"} =>
       /\ ~Registered(new[p])
       /\ \A q \in Callers : old[q] # new[p]
       /\ \A q \in Callers \ {p} : new[q] # new[p]
       /\ step[p] = "install" => running[new[p]]

\* No two IDs have the same listener.
Distinct ==
    \A i, j \in IDs : (listenerMap[i] # NoListener /\ listenerMap[i] = listenerMap[j]) => i = j

\* What a caller will stop is, at most, where it found it.
OldOne ==
    \A p \in Callers : old[p] # NoListener =>
       \A i \in IDs : listenerMap[i] = old[p] => i = id[p] /\ step[p] \in {"start", "install"}

\* One Stop at a time, of a manager that was started.
Sweeping ==
    \A p \in Callers : step[p] = "sweep" =>
       started /\ \A q \in Callers : step[q] = "sweep" => q = p

MapInv == TypeOK /\ Hands /\ Fresh /\ Distinct /\ OldOne /\ Sweeping /\ RegisteredRuns

\* The second part: when calls of one ID do not overlap, what a Set is about to
\* replace is what it found, or was dropped by a Stop.
OneCall ==
    \A p, q \in Callers : (id[p] # NoID /\ id[p] = id[q]) => p = q

Seen ==
    \A p \in Callers : step[p] \in {"start", "install"} =>
       listenerMap[id[p]] \in {old[p], NoListener}

OwnedInv == OneCall /\ Seen /\ NoOrphan

\* The third part: the gauge, also while a Stop sweeps, which finds every other
\* caller idle unless it races.
Counted ==
    ~raced => /\ gauge = Cardinality(RunningListeners)
              /\ \A p, q \in Callers : (step[p] = "sweep" /\ p # q) => step[q] = "idle"

IInv == MapInv /\ OwnedInv /\ Counted

-----------------------------------------------------------------------------
(* Type correctness                                                        *)

LEMMA TypeInit == Init => TypeOK
<1> SUFFICES ASSUME Init
             PROVE  TypeOK
  OBVIOUS
<1>1. started \in BOOLEAN /\ raced \in BOOLEAN
  BY DEF Init
<1>2. gauge \in Int
  BY DEF Init
<1>3. running \in [Listeners -> BOOLEAN] /\ config \in [Listeners -> Configs \cup {NoConfig}]
  BY DEF Init
<1> QED
  BY <1>1, <1>2, <1>3 DEF Init, TypeOK, ListenerOrNil

LEMMA StopType ==
    ASSUME TypeOK, NEW l, StopListener(l)
    PROVE  running' \in [Listeners -> BOOLEAN] /\ gauge' \in Int
<1>1. running' \in [Listeners -> BOOLEAN]
  BY DEF StopListener, TypeOK
<1>2. gauge' = gauge \/ gauge' = gauge - 1
  BY Zenon DEF StopListener
<1> QED
  BY <1>1, <1>2 DEF TypeOK

LEMMA TypeNext == TypeOK /\ [Next]_vars => TypeOK'
<1> SUFFICES ASSUME TypeOK, [Next]_vars
             PROVE  TypeOK'
  OBVIOUS
<1> USE ObsManagerAssumption DEF TypeOK, ListenerOrNil, callerVars, Goto, Return
<1>1. CASE Start
  BY <1>1 DEF Start
<1>2. ASSUME NEW p \in Callers, StopBegin(p) PROVE TypeOK'
  BY <1>2 DEF StopBegin
<1>3. ASSUME NEW p \in Callers, NEW i \in IDs, NEW c \in Configs, SetLook(p, i, c)
      PROVE  TypeOK'
  BY <1>3 DEF SetLook
<1>4. ASSUME NEW p \in Callers, NEW i \in IDs, DeleteLook(p, i) PROVE TypeOK'
  BY <1>4 DEF DeleteLook
<1>5. ASSUME NEW p \in Callers, Proceed(p) PROVE TypeOK'
  <2>1. CASE StopOne(p)
    BY <2>1, StopType DEF StopOne
  <2>2. CASE StopEnd(p)
    <3>1. started' \in BOOLEAN
      BY <2>2 DEF StopEnd
    <3>2. gauge' \in Int
      BY <2>2 DEF StopEnd
    <3> QED
      BY <2>2, <3>1, <3>2 DEF StopEnd
  <2>3. CASE SetStart(p)
    BY <2>3 DEF SetStart
  <2>4. CASE SetStartFails(p)
    BY <2>4 DEF SetStartFails
  <2>5. CASE SetInstall(p)
    BY <2>5 DEF SetInstall
  <2>6. CASE SetRefused(p)
    BY <2>6 DEF SetRefused
  <2>7. CASE SetUndo(p) \/ Retire(p)
    BY <2>7, StopType DEF SetUndo, Retire
  <2> QED
    BY <1>5, <2>1, <2>2, <2>3, <2>4, <2>5, <2>6, <2>7 DEF Proceed
<1>6. CASE UNCHANGED vars
  BY <1>6 DEF vars
<1> QED
  BY <1>1, <1>2, <1>3, <1>4, <1>5, <1>6 DEF Next

\* The manager's variables have their types in every behaviour.
THEOREM TypeCorrect == Spec => []TypeOK
  BY TypeInit, TypeNext, PTL DEF Spec

-----------------------------------------------------------------------------
(* The map offers running listeners.                                       *)

LEMMA MapInit == Init => MapInv
  BY TypeInit DEF Init, MapInv, Hands, Fresh, Distinct, OldOne, Sweeping, RegisteredRuns, Registered

LEMMA MapNext == MapInv /\ [Next]_vars => MapInv'
<1> SUFFICES ASSUME MapInv, [Next]_vars
             PROVE  MapInv'
  OBVIOUS
<1>0. TypeOK'
  BY TypeNext DEF MapInv
<1> USE ObsManagerAssumption DEF MapInv, Hands, Fresh, Distinct, OldOne, Sweeping,
          RegisteredRuns, Registered, TypeOK, ListenerOrNil, callerVars, Goto, Return, Free
<1>1. CASE Start
  BY <1>0, <1>1 DEF Start
<1>2. ASSUME NEW p \in Callers, StopBegin(p) PROVE MapInv'
  BY <1>0, <1>2 DEF StopBegin
<1>3. ASSUME NEW p \in Callers, NEW i \in IDs, NEW c \in Configs, SetLook(p, i, c)
      PROVE  MapInv'
  BY <1>0, <1>3 DEF SetLook
<1>4. ASSUME NEW p \in Callers, NEW i \in IDs, DeleteLook(p, i) PROVE MapInv'
  BY <1>0, <1>4 DEF DeleteLook
<1>5. ASSUME NEW p \in Callers, Proceed(p) PROVE MapInv'
  <2>1. CASE StopOne(p)
    BY <1>0, <2>1 DEF StopOne, StopListener
  <2>2. CASE StopEnd(p)
    BY <1>0, <2>2 DEF StopEnd
  <2>3. CASE SetStart(p)
    BY <1>0, <2>3 DEF SetStart, Unused
  <2>4. CASE SetStartFails(p)
    BY <1>0, <2>4 DEF SetStartFails
  <2>5. CASE SetInstall(p)
    BY <1>0, <2>5 DEF SetInstall, Replaces, StillStarted
  <2>6. CASE SetRefused(p)
    BY <1>0, <2>6 DEF SetRefused, StillStarted
  <2>7. CASE SetUndo(p)
    BY <1>0, <2>7 DEF SetUndo, StopListener
  <2>8. CASE Retire(p)
    BY <1>0, <2>8 DEF Retire, StopListener
  <2> QED
    BY <1>5, <2>1, <2>2, <2>3, <2>4, <2>5, <2>6, <2>7, <2>8 DEF Proceed
<1>6. CASE UNCHANGED vars
  BY <1>0, <1>6 DEF vars
<1> QED
  BY <1>1, <1>2, <1>3, <1>4, <1>5, <1>6 DEF Next

\* Whatever overlaps, the map offers running listeners only, and a stopped
\* manager none: neither of two Sets or Deletes of an ID stops what the other
\* has installed.
THEOREM MapRuns == Spec => []RegisteredRuns
<1>1. MapInv => RegisteredRuns
  BY DEF MapInv
<1> QED
  BY <1>1, MapInit, MapNext, PTL DEF Spec

-----------------------------------------------------------------------------
(* No listener is orphaned when calls of one ID do not overlap.            *)

LEMMA OwnedInit == Init => OwnedInv
  BY DEF Init, OwnedInv, OneCall, Seen, NoOrphan, RunningListeners

LEMMA OwnedNext ==
    ASSUME ~Overlap, MapInv, OwnedInv, [Next]_vars
    PROVE  OwnedInv'
<1> USE ObsManagerAssumption DEF MapInv, Hands, OwnedInv, OneCall, Seen, NoOrphan, RunningListeners,
          Registered, TypeOK, ListenerOrNil, callerVars, Goto, Return, MayCall
<1>1. CASE Start
  BY <1>1 DEF Start
<1>2. ASSUME NEW p \in Callers, StopBegin(p) PROVE OwnedInv'
  BY <1>2 DEF StopBegin
<1>3. ASSUME NEW p \in Callers, NEW i \in IDs, NEW c \in Configs, SetLook(p, i, c)
      PROVE  OwnedInv'
  BY <1>3 DEF SetLook
<1>4. ASSUME NEW p \in Callers, NEW i \in IDs, DeleteLook(p, i) PROVE OwnedInv'
  BY <1>4 DEF DeleteLook
<1>5. ASSUME NEW p \in Callers, Proceed(p) PROVE OwnedInv'
  <2>1. CASE StopOne(p)
    BY <2>1 DEF StopOne, StopListener
  <2>2. CASE StopEnd(p)
    BY <2>2 DEF StopEnd
  <2>3. CASE SetStart(p)
    BY <2>3 DEF SetStart, Unused
  <2>4. CASE SetStartFails(p)
    BY <2>4 DEF SetStartFails
  <2>5. CASE SetInstall(p)
    BY <2>5 DEF SetInstall, Replaces, StillStarted
  <2>6. CASE SetRefused(p)
    BY <2>6 DEF SetRefused
  <2>7. CASE SetUndo(p)
    BY <2>7 DEF SetUndo, StopListener
  <2>8. CASE Retire(p)
    BY <2>8 DEF Retire, StopListener
  <2> QED
    BY <1>5, <2>1, <2>2, <2>3, <2>4, <2>5, <2>6, <2>7, <2>8 DEF Proceed
<1>6. CASE UNCHANGED vars
  BY <1>6 DEF vars
<1> QED
  BY <1>1, <1>2, <1>3, <1>4, <1>5, <1>6 DEF Next

\* Without overlapping calls of one ID, every listener that runs is in the map or in
\* the hands of a call that will put it there or stop it.
THEOREM NoneOrphaned == ASSUME ~Overlap PROVE Spec => []NoOrphan
<1>1. Init => MapInv /\ OwnedInv
  BY MapInit, OwnedInit
<1>2. MapInv /\ OwnedInv /\ [Next]_vars => (MapInv /\ OwnedInv)'
  BY MapNext, OwnedNext
<1>3. MapInv /\ OwnedInv => NoOrphan
  BY DEF OwnedInv
<1> QED
  BY <1>1, <1>2, <1>3, PTL DEF Spec

-----------------------------------------------------------------------------
(* The gauge.                                                              *)

LEMMA FiniteRunning == IsFiniteSet(RunningListeners)
  BY FS_Subset, ObsManagerAssumption DEF RunningListeners

LEMMA CountInit == Init => Counted
<1> SUFFICES ASSUME Init
             PROVE  Counted
  OBVIOUS
<1>1. RunningListeners = {}
  BY DEF Init, RunningListeners
<1>2. gauge = 0
  BY DEF Init
<1>3. \A p \in Callers : step[p] = "idle"
  BY DEF Init
<1> QED
  BY <1>1, <1>2, <1>3, FS_EmptySet DEF Counted

\* Stopping a listener keeps the gauge right, whether it is running or not.
LEMMA StopCounts ==
    ASSUME TypeOK, NEW l \in Listeners, StopListener(l), gauge = Cardinality(RunningListeners)
    PROVE  gauge' = Cardinality(RunningListeners')
<1>1. CASE running[l]
  <2>1. gauge' = gauge - 1
    BY <1>1 DEF StopListener
  <2>2. RunningListeners' = RunningListeners \ {l}
    BY DEF StopListener, RunningListeners, TypeOK
  <2>3. l \in RunningListeners
    BY <1>1 DEF RunningListeners
  <2>4. Cardinality(RunningListeners \ {l}) = Cardinality(RunningListeners) - 1
    BY <2>3, FiniteRunning, FS_RemoveElement
  <2> QED
    BY <2>1, <2>2, <2>4
<1>2. CASE ~running[l]
  <2>1. gauge' = gauge
    BY <1>2 DEF StopListener
  <2>2. RunningListeners' = RunningListeners
    BY <1>2 DEF StopListener, RunningListeners, TypeOK
  <2> QED
    BY <2>1, <2>2
<1> QED
  BY <1>1, <1>2

LEMMA CountNext ==
    ASSUME ~Overlap, IInv, [Next]_vars
    PROVE  Counted'
<1> SUFFICES ASSUME ~raced'
             PROVE  /\ gauge' = Cardinality(RunningListeners')
                    /\ \A p, q \in Callers : (step'[p] = "sweep" /\ p # q) => step'[q] = "idle"
  BY DEF Counted
<1> USE DEF IInv, MapInv, TypeOK, Hands, callerVars, Goto, Return, Free
<1>1. CASE Start \/ UNCHANGED vars
  <2>1. UNCHANGED <<raced, gauge, running, step>>
    BY <1>1 DEF Start, vars
  <2> QED
    BY <2>1 DEF Counted, RunningListeners
<1>2. ASSUME NEW p \in Callers, StopBegin(p) PROVE Counted'
  <2>1. ~raced /\ \A q \in Callers : step[q] = "idle"
    BY <1>2 DEF StopBegin
  <2>2. UNCHANGED <<gauge, running>>
    BY <1>2 DEF StopBegin
  <2> QED
    BY <1>2, <2>1, <2>2 DEF StopBegin, Counted, RunningListeners
<1>3. ASSUME NEW p \in Callers, NEW i \in IDs,
             DeleteLook(p, i) \/ \E c \in Configs : SetLook(p, i, c)
      PROVE  Counted'
  <2>1. UNCHANGED <<raced, gauge, running>>
    BY <1>3 DEF DeleteLook, SetLook
  <2>2. \A q \in Callers : step'[q] # "sweep"
    BY <1>3 DEF DeleteLook, SetLook
  <2> QED
    BY <2>1, <2>2 DEF Counted, RunningListeners
<1>4. ASSUME NEW p \in Callers, Proceed(p) PROVE Counted'
  <2>1. ~raced /\ gauge = Cardinality(RunningListeners)
    BY <1>4 DEF Counted, Proceed, StopOne, StopEnd, SetStart, SetStartFails, SetInstall,
                SetRefused, SetUndo, Retire
  <2>2. \A r, q \in Callers : (step'[r] = "sweep" /\ r # q) => step'[q] = "idle"
    BY <1>4, <2>1 DEF Counted, Proceed, StopOne, StopEnd, SetStart, SetStartFails, SetInstall,
                SetRefused, SetUndo, Retire
  <2>3. CASE StopOne(p)
    <3>1. PICK i \in IDs : listenerMap[i] # NoListener /\ StopListener(listenerMap[i])
      BY <2>3 DEF StopOne
    <3>2. listenerMap[i] \in Listeners
      BY <3>1 DEF ListenerOrNil
    <3> QED
      BY <2>1, <2>2, <3>1, <3>2, StopCounts DEF Counted
  <2>4. CASE StopEnd(p)
    <3>1. \A q \in Callers : step[q] \in {"idle", "sweep"}
      BY <2>1, <2>4 DEF StopEnd, Counted
    <3>2. \A l \in RunningListeners : Registered(l)
      BY <3>1 DEF OwnedInv, NoOrphan
    <3>3. RunningListeners = {}
      BY <3>2, <2>4, ObsManagerAssumption DEF StopEnd, Registered, RunningListeners
    <3>4. RunningListeners' = {}
      BY <3>3, <2>4 DEF StopEnd, RunningListeners
    <3>5. gauge' = 0
      BY <2>4 DEF StopEnd
    <3> QED
      BY <2>2, <3>4, <3>5, FS_EmptySet DEF Counted
  <2>5. CASE SetStart(p)
    <3>1. PICK l \in Listeners : Unused(l) /\ running' = [running EXCEPT ![l] = TRUE]
      BY <2>5 DEF SetStart
    <3>2. l \notin RunningListeners
      BY <3>1 DEF Unused, RunningListeners
    <3>3. RunningListeners' = RunningListeners \cup {l}
      BY <3>1 DEF RunningListeners
    <3>4. Cardinality(RunningListeners') = Cardinality(RunningListeners) + 1
      BY <3>2, <3>3, FiniteRunning, FS_AddElement
    <3>5. gauge' = gauge + 1
      BY <2>5 DEF SetStart
    <3> QED
      BY <2>1, <2>2, <3>4, <3>5 DEF Counted
  <2>6. CASE SetStartFails(p) \/ SetInstall(p) \/ SetRefused(p)
    <3>1. UNCHANGED <<gauge, running>>
      BY <2>6 DEF SetStartFails, SetInstall, SetRefused
    <3> QED
      BY <2>1, <2>2, <3>1 DEF Counted, RunningListeners
  <2>7. CASE SetUndo(p)
    <3>1. new[p] \in Listeners
      BY <2>7 DEF SetUndo, ListenerOrNil
    <3> QED
      BY <2>1, <2>2, <2>7, <3>1, StopCounts DEF SetUndo, Counted
  <2>8. CASE Retire(p)
    <3>1. old[p] \in Listeners
      BY <2>8 DEF Retire, ListenerOrNil
    <3> QED
      BY <2>1, <2>2, <2>8, <3>1, StopCounts DEF Retire, Counted
  <2> QED
    BY <1>4, <2>3, <2>4, <2>5, <2>6, <2>7, <2>8 DEF Proceed
<1> QED
  BY <1>1, <1>2, <1>3, <1>4 DEF Next, Counted

\* The gauge counts the running listeners until a Stop overlaps a Set or a Delete,
\* for calls of one ID that do not overlap: Stop's reset to zero is then right.
THEOREM GaugeExact == ASSUME ~Overlap PROVE Spec => []GaugeCounts
<1>1. Init => IInv
  BY MapInit, OwnedInit, CountInit DEF IInv
<1>2. IInv /\ [Next]_vars => IInv'
  BY MapNext, OwnedNext, CountNext DEF IInv
<1>3. IInv => GaugeCounts
  BY DEF IInv, Counted, GaugeCounts
<1> QED
  BY <1>1, <1>2, <1>3, PTL DEF Spec
=============================================================================
