---------------------------- MODULE InStepProofs ----------------------------
(***************************************************************************)
(* The proof that a watched surveyor is in step with its files, for any    *)
(* numbers of files, callers, watchers and listeners, and any bounds.      *)
(*                                                                         *)
(* The argument follows one file from its change on: while it is no stray, *)
(* what the manager does not say of it yet is told by an event in the      *)
(* watcher's queue, is ahead of a walk, or is in the hands of a Set or of  *)
(* a removal.                                                              *)
(***************************************************************************)
EXTENDS SurveyorProofs

-----------------------------------------------------------------------------
(* What a queue of events tells of a file                                  *)

TellsOf(e, name) == e[1] \in {"create", "write"} /\ e[2] = name

\* The paths whose events are about the file, too.
Paths(f) == {f} \cup (IF f \in SubFiles THEN {Sub} ELSE {})

\* The event makes the goroutine delete the file's listener.
Removes(e, f) == e[1] = "remove" /\ e[2] \in Paths(f)

NoRemoval(q, f) == \A i \in DOMAIN q : ~Removes(q[i], f)

\* The name is told of after any removal of the file.
Lasting(q, f, name) ==
    \E i \in DOMAIN q : TellsOf(q[i], name) /\ \A j \in DOMAIN q : Removes(q[j], f) => j < i

\* Whenever the name is told of, a removal of the file follows.
Overtaken(q, f, name) ==
    \A i \in DOMAIN q : TellsOf(q[i], name) => \E j \in DOMAIN q : i < j /\ Removes(q[j], f)

-----------------------------------------------------------------------------
(* Where a file is on its way to the manager                               *)

\* The caller is about to set this configuration of the file.
SettingTo(p, f, c) ==
    \/ task[p] = "set" /\ hand[p] = <<f, c>>
    \/ step[p] \in {"start", "install"} /\ id[p] = f /\ wanted[p] = c

Setting(p, f) == \E c \in Configs : SettingTo(p, f, c)

Walking(p) == task[p] \in {"walk", "list", "set"}

\* The caller's walk will come to the file if it is there; or to the lower directory.
Comes(p, f) ==
    \/ Walking(p) /\ (f \in todo[p] \/ DirOf(f) \in todo[p])
    \/ task[p] = "list" /\ hand[p] \in {DirOf(f), Top}

ComesToSub(p) ==
    \/ Walking(p) /\ Sub \in todo[p]
    \/ task[p] = "list" /\ hand[p] = Top

\* Its walk passes the lower directory by, or finds it to be there.
Away(p, f) ==
    /\ ~Setting(p, f)
    /\ Walking(p) => f \notin todo[p] /\ (Sub \in todo[p] => subThere)
    /\ task[p] = "list" => hand[p] # Sub

Dropping(f) == task[watcher] = "drop" /\ f \in todo[watcher]

Runs(f, c) == listenerMap[f] # NoListener /\ config[listenerMap[f]] = c

-----------------------------------------------------------------------------
(* The inductive invariant: what is so of all files                        *)

\* A caller in the manager is in a walk or a removal; who is not in the watcher's
\* code has no events; what will be installed has the configuration wanted.
Tasks ==
    /\ \A p \in Callers :
         /\ step[p] \in {"start", "install", "undo", "retire"} => task[p] \in {"walk", "drop"}
         /\ step[p] \in {"start", "install"} => wanted[p] \in Configs
         /\ step[p] = "install" => new[p] \in Listeners /\ config[new[p]] = wanted[p]
    /\ \A g \in Goroutines : task[g] = "none" => queue[g] = <<>>
    /\ watcher # NoGoroutine => task[watcher] # "none"

Places ==
    /\ \A f \in SubFiles : disk[f] # Absent => subThere
    /\ ~started => \A f \in IDs : listenerMap[f] = NoListener
    /\ watcher = NoGoroutine => watched = {}

\* Until the directory is watched, a walk of it is ahead.
WalkAhead ==
    (watcher # NoGoroutine /\ Top \notin watched) =>
        /\ \A a \in Walkers : task[a] # "none" =>
             task[a] = "walk" /\ todo[a] = {Top} /\ step[a] = "idle"
        /\ \E a \in Walkers : at[a] = "walk" \/ task[a] = "walk"

-----------------------------------------------------------------------------
(* What is so of a file that is no stray, from the start of the manager    *)

Begun == watcher # NoGoroutine \/ \E a \in Walkers : at[a] = "watch"

\* No earlier goroutine is about.
Alone == \A h \in Goroutines \ {watcher} : task[h] = "none"

\* Before the walk the watcher knows nothing.
Blank(f) ==
    Top \notin watched =>
        /\ listenerMap[f] = NoListener
        /\ watched = {}
        /\ watcher # NoGoroutine => queue[watcher] = <<>> /\ task[watcher] = "select"

\* A walk for a start sets what is there.
WalkedIsThere(f) ==
    \A a \in Walkers : \A c \in Configs : SettingTo(a, f, c) => disk[f] = c

\* A file that is gone has no listener and will have none, or its removal is ahead.
GoneIsTold(f) ==
    disk[f] = Absent =>
        \/ listenerMap[f] = NoListener /\ \A p \in Callers : ~Setting(p, f)
        \/ ~NoRemoval(queue[watcher], f)
        \/ Dropping(f)

\* A valid file runs as it is, or is about to be set so, or is told of last.
Told(f) == \E name \in Paths(f) : Lasting(queue[watcher], f, name)

Nears(f, c) ==
    /\ NoRemoval(queue[watcher], f) /\ ~Dropping(f)
    /\ \A p \in Callers : \A d \in Configs : SettingTo(p, f, d) => d = c
    /\ Runs(f, c) \/ \E p \in Callers : Comes(p, f) \/ SettingTo(p, f, c)

ValidIsTold(f) == \A c \in Configs : disk[f] = c => Told(f) \/ Nears(f, c)

\* While its directory is not watched, nothing runs or is told of the file that is
\* not also removed; and if the directory is there, that is told or ahead of a walk.
SubIsTold(f) ==
    (f \in SubFiles /\ Sub \notin watched) =>
        /\ Overtaken(queue[watcher], f, f)
        /\ ~subThere => Overtaken(queue[watcher], f, Sub)
        /\ \A a \in Walkers : Away(a, f)
        /\ NoRemoval(queue[watcher], f) =>
             Away(watcher, f) /\ (listenerMap[f] = NoListener \/ Dropping(f))
        /\ subThere => \/ Lasting(queue[watcher], f, Sub)
                       \/ /\ NoRemoval(queue[watcher], f) /\ ~Dropping(f)
                          /\ \E p \in Callers : ComesToSub(p)

Followed(f) == WalkedIsThere(f) /\ GoneIsTold(f) /\ ValidIsTold(f) /\ SubIsTold(f)

Tracked(f) ==
    /\ Begun => Alone /\ Blank(f)
    /\ (watcher # NoGoroutine /\ Top \in watched) => Followed(f)

StepInv ==
    /\ SystemInv /\ Tasks /\ Places /\ WalkAhead
    /\ \A f \in IDs \ stray : Tracked(f)

-----------------------------------------------------------------------------
(* Lemmas about queues                                                     *)

LEMMA TailPoints ==
    ASSUME NEW S, NEW q \in Seq(S), q # <<>>
    PROVE  /\ Len(q) \in Nat /\ DOMAIN q = 1..Len(q) /\ Head(q) = q[1]
           /\ Tail(q) \in Seq(S) /\ DOMAIN Tail(q) = 1..(Len(q) - 1)
           /\ \A i \in 1..(Len(q) - 1) : Tail(q)[i] = q[i + 1]
  OBVIOUS

LEMMA AppendPoints ==
    ASSUME NEW S, NEW q \in Seq(S), NEW r \in Seq(S)
    PROVE  /\ Len(q) \in Nat /\ Len(r) \in Nat /\ DOMAIN q = 1..Len(q) /\ DOMAIN r = 1..Len(r)
           /\ q \o r \in Seq(S) /\ DOMAIN (q \o r) = 1..(Len(q) + Len(r))
           /\ \A i \in 1..Len(q) : (q \o r)[i] = q[i]
           /\ \A i \in 1..Len(r) : (q \o r)[Len(q) + i] = r[i]
  OBVIOUS

\* The head is taken.
LEMMA TailNoRemoval ==
    ASSUME NEW S, NEW q \in Seq(S), q # <<>>, NEW f
    PROVE  NoRemoval(q, f) <=> ~Removes(Head(q), f) /\ NoRemoval(Tail(q), f)
<1>1. ASSUME NoRemoval(q, f) PROVE ~Removes(Head(q), f) /\ NoRemoval(Tail(q), f)
  BY <1>1, TailPoints DEF NoRemoval
<1>2. ASSUME ~Removes(Head(q), f), NoRemoval(Tail(q), f), NEW i \in DOMAIN q PROVE ~Removes(q[i], f)
  <2>1. CASE i = 1
    BY <1>2, <2>1, TailPoints
  <2>2. CASE i # 1
    <3>1. i - 1 \in DOMAIN Tail(q) /\ Tail(q)[i - 1] = q[i]
      BY <2>2, TailPoints
    <3> QED
      BY <1>2, <3>1 DEF NoRemoval
  <2> QED
    BY <2>1, <2>2
<1> QED
  BY <1>1, <1>2 DEF NoRemoval

LEMMA TailLasting ==
    ASSUME NEW S, NEW q \in Seq(S), q # <<>>, NEW f, NEW name, Lasting(q, f, name)
    PROVE  \/ Lasting(Tail(q), f, name)
           \/ TellsOf(Head(q), name) /\ NoRemoval(Tail(q), f)
<1>1. PICK i \in DOMAIN q : TellsOf(q[i], name) /\ \A j \in DOMAIN q : Removes(q[j], f) => j < i
  BY DEF Lasting
<1>2. CASE i = 1
  <2>1. ASSUME NEW j \in DOMAIN Tail(q) PROVE ~Removes(Tail(q)[j], f)
    <3>1. j + 1 \in DOMAIN q /\ Tail(q)[j] = q[j + 1] /\ ~(j + 1 < 1)
      BY TailPoints
    <3> QED
      BY <1>1, <1>2, <3>1
  <2>2. TellsOf(Head(q), name)
    BY <1>1, <1>2, TailPoints
  <2> QED
    BY <2>1, <2>2 DEF NoRemoval
<1>3. CASE i # 1
  <2>1. i - 1 \in DOMAIN Tail(q) /\ Tail(q)[i - 1] = q[i]
    BY <1>3, TailPoints
  <2>2. ASSUME NEW j \in DOMAIN Tail(q), Removes(Tail(q)[j], f) PROVE j < i - 1
    <3>1. j + 1 \in DOMAIN q /\ Tail(q)[j] = q[j + 1]
      BY TailPoints
    <3>2. j + 1 < i
      BY <1>1, <2>2, <3>1
    <3> QED
      BY <3>2, TailPoints
  <2> QED
    BY <1>1, <2>1, <2>2 DEF Lasting
<1> QED
  BY <1>2, <1>3

LEMMA TailOvertaken ==
    ASSUME NEW S, NEW q \in Seq(S), q # <<>>, NEW f, NEW name, Overtaken(q, f, name)
    PROVE  /\ Overtaken(Tail(q), f, name)
           /\ TellsOf(Head(q), name) => ~NoRemoval(Tail(q), f)
<1>1. ASSUME NEW i \in DOMAIN q, TellsOf(q[i], name)
      PROVE  \E j \in DOMAIN Tail(q) : i - 1 < j /\ Removes(Tail(q)[j], f)
  <2>1. PICK j \in DOMAIN q : i < j /\ Removes(q[j], f)
    BY <1>1 DEF Overtaken
  <2>2. j - 1 \in DOMAIN Tail(q) /\ Tail(q)[j - 1] = q[j] /\ i - 1 < j - 1
    BY <2>1, TailPoints
  <2> QED
    BY <2>1, <2>2
<1>2. Overtaken(Tail(q), f, name)
  <2>1. ASSUME NEW i \in DOMAIN Tail(q), TellsOf(Tail(q)[i], name)
        PROVE  \E j \in DOMAIN Tail(q) : i < j /\ Removes(Tail(q)[j], f)
    <3>1. i + 1 \in DOMAIN q /\ q[i + 1] = Tail(q)[i] /\ (i + 1) - 1 = i
      BY TailPoints
    <3> QED
      BY <1>1, <2>1, <3>1
  <2> QED
    BY <2>1 DEF Overtaken
<1>3. ASSUME TellsOf(Head(q), name) PROVE ~NoRemoval(Tail(q), f)
  <2>1. 1 \in DOMAIN q /\ TellsOf(q[1], name)
    BY <1>3, TailPoints
  <2> QED
    BY <1>1, <2>1 DEF NoRemoval
<1> QED
  BY <1>2, <1>3

\* Events are appended.
LEMMA AppendTells ==
    ASSUME NEW S, NEW q \in Seq(S), NEW r \in Seq(S), NEW f, NEW name
    PROVE  /\ NoRemoval(q \o r, f) <=> NoRemoval(q, f) /\ NoRemoval(r, f)
           /\ (Lasting(q, f, name) /\ NoRemoval(r, f)) => Lasting(q \o r, f, name)
           /\ (Overtaken(q, f, name) /\ \A i \in DOMAIN r : ~TellsOf(r[i], name))
                => Overtaken(q \o r, f, name)
<1> DEFINE s == q \o r
<1>0. /\ Len(q) \in Nat /\ Len(r) \in Nat /\ DOMAIN q = 1..Len(q) /\ DOMAIN r = 1..Len(r)
      /\ DOMAIN s = 1..(Len(q) + Len(r))
      /\ \A i \in 1..Len(q) : s[i] = q[i]
      /\ \A i \in 1..Len(r) : s[Len(q) + i] = r[i]
  BY AppendPoints
<1> HIDE DEF s
<1>1. \A i \in DOMAIN s : i \in DOMAIN q \/ (i - Len(q) \in DOMAIN r /\ s[i] = r[i - Len(q)])
  <2> TAKE i \in DOMAIN s
  <2>1. CASE i <= Len(q)
    BY <1>0, <2>1
  <2>2. CASE i > Len(q)
    <3>1. i - Len(q) \in 1..Len(r) /\ Len(q) + (i - Len(q)) = i
      BY <1>0, <2>2
    <3> QED
      BY <1>0, <3>1
  <2> QED
    BY <1>0, <2>1, <2>2
<1>2. \A i \in DOMAIN q : i \in DOMAIN s /\ s[i] = q[i]
  BY <1>0
<1>3. \A i \in DOMAIN r : Len(q) + i \in DOMAIN s /\ s[Len(q) + i] = r[i]
  BY <1>0
<1>4. NoRemoval(s, f) <=> NoRemoval(q, f) /\ NoRemoval(r, f)
  BY <1>1, <1>2, <1>3 DEF NoRemoval
<1>5. ASSUME Lasting(q, f, name), NoRemoval(r, f) PROVE Lasting(s, f, name)
  BY <1>1, <1>2, <1>5 DEF Lasting, NoRemoval
<1>6. ASSUME Overtaken(q, f, name), \A i \in DOMAIN r : ~TellsOf(r[i], name) PROVE Overtaken(s, f, name)
  BY <1>1, <1>2, <1>6 DEF Overtaken
<1> QED
  BY <1>4, <1>5, <1>6 DEF s

\* The last of them tells of the name, or removes the file.
LEMMA AppendLast ==
    ASSUME NEW S, NEW q \in Seq(S), NEW r \in Seq(S), r # <<>>, NEW f, NEW name
    PROVE  /\ TellsOf(r[Len(r)], name) => Lasting(q \o r, f, name)
           /\ Removes(r[Len(r)], f) => Overtaken(q \o r, f, name)
<1> DEFINE s == q \o r
           last == Len(q) + Len(r)
<1>0. /\ DOMAIN s = 1..last /\ last \in DOMAIN s /\ s[last] = r[Len(r)]
      /\ \A i \in DOMAIN s : i <= last
  <2>1. Len(r) \in 1..Len(r) /\ Len(q) \in Nat
    OBVIOUS
  <2> QED
    BY <2>1, AppendPoints
<1> HIDE DEF s, last
<1>1. ASSUME NEW e PROVE ~(TellsOf(e, name) /\ Removes(e, f))
  BY DEF TellsOf, Removes
<1>2. \A i \in DOMAIN s : i < last \/ i = last
  BY <1>0
<1>3. TellsOf(s[last], name) => Lasting(s, f, name)
  BY <1>0, <1>1, <1>2 DEF Lasting
<1>4. Removes(s[last], f) => Overtaken(s, f, name)
  BY <1>0, <1>1, <1>2 DEF Overtaken
<1> QED
  BY <1>0, <1>3, <1>4 DEF s

-----------------------------------------------------------------------------
(* A step of a caller, as the invariant of a file sees it                  *)

\* It leaves the other callers and the files alone.
Frame(p) ==
    /\ UNCHANGED <<disk, subThere, watcher>>
    /\ \A q \in Callers \ {p} :
         /\ task'[q] = task[q] /\ hand'[q] = hand[q] /\ todo'[q] = todo[q]
         /\ step'[q] = step[q] /\ id'[q] = id[q] /\ wanted'[q] = wanted[q]

\* What the queue tells of the file is as before.
ToldAlike(f) ==
    /\ NoRemoval(queue'[watcher], f) <=> NoRemoval(queue[watcher], f)
    /\ \A name \in Paths(f) :
         /\ Lasting(queue[watcher], f, name) => Lasting(queue'[watcher], f, name)
         /\ Overtaken(queue[watcher], f, name) => Overtaken(queue'[watcher], f, name)

\* The caller sets nothing that was not in its hands or on the disk; it goes on to where
\* it would come; and it puts in place what it had in its hands, or drops the file.
SetsAlike(p, f) ==
    /\ \A c \in Configs : SettingTo(p, f, c)' => SettingTo(p, f, c) \/ disk[f] = c
    /\ \A c \in Configs : SettingTo(p, f, c) => SettingTo(p, f, c)' \/ Runs(f, c)'

ComesAlike(p, f) ==
    /\ \A c \in Configs : (disk[f] = c /\ Comes(p, f)) => Comes(p, f)' \/ SettingTo(p, f, c)'
    /\ ComesToSub(p) => ComesToSub(p)' \/ ~subThere \/ Sub \in watched'
    /\ (f \in SubFiles /\ Sub \notin watched' /\ Away(p, f)) => Away(p, f)'

MapsAlike(p, f) ==
    /\ \A c \in Configs :
         (Runs(f, c) /\ ~Dropping(f) /\ \A d \in Configs : SettingTo(p, f, d) => d = c) => Runs(f, c)'
    /\ (listenerMap[f] = NoListener /\ ~Setting(p, f)) => listenerMap'[f] = NoListener
    /\ Dropping(f)' => Dropping(f)
    /\ Dropping(f) => Dropping(f)' \/ (listenerMap'[f] = NoListener /\ ~Setting(p, f)')

Alike(p, f) ==
    Frame(p) /\ watched \subseteq watched' /\ SetsAlike(p, f) /\ ComesAlike(p, f) /\ MapsAlike(p, f)

\* Who may have the file in its hands.
Movers == Walkers \cup {watcher}

OnlyMovers(f) == \A q \in Callers : Setting(q, f) => q \in Movers

LEMMA OthersSee ==
    ASSUME NEW p, Frame(p), NEW q \in Callers \ {p}, NEW f
    PROVE  /\ \A c : SettingTo(q, f, c)' <=> SettingTo(q, f, c)
           /\ Setting(q, f)' <=> Setting(q, f)
           /\ Comes(q, f)' <=> Comes(q, f)
           /\ ComesToSub(q)' <=> ComesToSub(q)
           /\ Away(q, f)' <=> Away(q, f)
           /\ q = watcher => (Dropping(f)' <=> Dropping(f))
  BY DEF Frame, SettingTo, Setting, Comes, ComesToSub, Away, Walking, Dropping

LEMMA AlikeKeeps ==
    ASSUME NEW f \in IDs, NEW p \in Movers, watcher \in Goroutines,
           Followed(f), OnlyMovers(f), Alike(p, f), ToldAlike(f)
    PROVE  Followed(f)'
<1> USE FSWatcherAssumption DEF Paths
<1>0. /\ watcher' = watcher /\ disk' = disk /\ subThere' = subThere
      /\ watcher \in Callers /\ p \in Callers /\ Movers \subseteq Callers
  BY DEF Alike, Frame, Movers
<1>1. WalkedIsThere(f)'
  <2> SUFFICES ASSUME NEW a \in Walkers, NEW c \in Configs, SettingTo(a, f, c)'
               PROVE  disk[f] = c
    BY <1>0 DEF WalkedIsThere
  <2>1. CASE a = p
    BY <2>1 DEF Followed, WalkedIsThere, Alike, SetsAlike
  <2>2. CASE a # p
    BY <2>2, OthersSee DEF Followed, WalkedIsThere, Alike
  <2> QED
    BY <2>1, <2>2
<1>2. ASSUME disk[f] = Absent PROVE \A q \in Walkers : ~Setting(q, f)
  BY <1>2 DEF Followed, WalkedIsThere, Setting
<1>3. GoneIsTold(f)'
  <2> SUFFICES ASSUME disk[f] = Absent, NoRemoval(queue'[watcher], f), ~Dropping(f)'
               PROVE  listenerMap'[f] = NoListener /\ \A q \in Callers : ~Setting(q, f)'
    BY <1>0 DEF GoneIsTold
  <2>1. NoRemoval(queue[watcher], f)
    BY DEF ToldAlike
  <2>2. ~Setting(p, f) => ~Setting(p, f)'
    BY DEF Alike, SetsAlike, Setting
  <2>3. CASE Dropping(f)
    <3>1. p = watcher
      BY <1>0, <2>3, OthersSee DEF Alike
    <3>2. listenerMap'[f] = NoListener /\ ~Setting(p, f)'
      BY <2>3 DEF Alike, MapsAlike
    <3>3. \A q \in Callers \ {p} : ~Setting(q, f)
      BY <1>2, <3>1 DEF OnlyMovers, Movers
    <3>4. \A q \in Callers \ {p} : ~Setting(q, f)'
      BY <3>3, OthersSee DEF Alike
    <3> QED
      BY <3>2, <3>4
  <2>4. CASE ~Dropping(f)
    <3>1. listenerMap[f] = NoListener /\ \A q \in Callers : ~Setting(q, f)
      BY <2>1, <2>4 DEF Followed, GoneIsTold
    <3>2. listenerMap'[f] = NoListener
      BY <1>0, <3>1 DEF Alike, MapsAlike
    <3>3. \A q \in Callers \ {p} : ~Setting(q, f)'
      BY <3>1, OthersSee DEF Alike
    <3> QED
      BY <1>0, <2>2, <3>1, <3>2, <3>3
  <2> QED
    BY <2>3, <2>4
<1>4. ValidIsTold(f)'
  <2> SUFFICES ASSUME NEW c \in Configs, disk[f] = c PROVE Told(f)' \/ Nears(f, c)'
    BY <1>0 DEF ValidIsTold
  <2>1. CASE Told(f)
    BY <1>0, <2>1 DEF Told, ToldAlike
  <2>2. CASE Nears(f, c)
    <3>1. NoRemoval(queue[watcher], f)' /\ ~Dropping(f)'
      BY <1>0, <2>2 DEF Nears, ToldAlike, Alike, MapsAlike
    <3>2. ASSUME NEW q \in Callers, NEW d \in Configs, SettingTo(q, f, d)' PROVE d = c
      <4>1. CASE q = p
        BY <2>2, <3>2, <4>1 DEF Nears, Alike, SetsAlike
      <4>2. CASE q # p
        BY <2>2, <3>2, <4>2, OthersSee DEF Nears, Alike
      <4> QED
        BY <4>1, <4>2
    <3>3. Runs(f, c)' \/ \E q \in Callers : Comes(q, f)' \/ SettingTo(q, f, c)'
      <4>1. CASE Runs(f, c)
        BY <1>0, <2>2, <4>1 DEF Nears, Alike, MapsAlike
      <4>2. ASSUME NEW q \in Callers, Comes(q, f) \/ SettingTo(q, f, c)
            PROVE  Runs(f, c)' \/ Comes(q, f)' \/ SettingTo(q, f, c)'
        <5>1. CASE q = p
          BY <4>2, <5>1 DEF Alike, ComesAlike, SetsAlike
        <5>2. CASE q # p
          BY <4>2, <5>2, OthersSee DEF Alike
        <5> QED
          BY <5>1, <5>2
      <4> QED
        BY <2>2, <4>1, <4>2 DEF Nears
    <3> QED
      BY <3>1, <3>2, <3>3 DEF Nears
  <2> QED
    BY <2>1, <2>2 DEF Followed, ValidIsTold
<1>5. SubIsTold(f)'
  <2> SUFFICES ASSUME f \in SubFiles, Sub \notin watched'
               PROVE  /\ Overtaken(queue'[watcher], f, f)
                      /\ ~subThere => Overtaken(queue'[watcher], f, Sub)
                      /\ \A a \in Walkers : Away(a, f)'
                      /\ NoRemoval(queue'[watcher], f) =>
                           Away(watcher, f)' /\ (listenerMap'[f] = NoListener \/ Dropping(f)')
                      /\ subThere => \/ Lasting(queue'[watcher], f, Sub)
                                     \/ /\ NoRemoval(queue'[watcher], f) /\ ~Dropping(f)'
                                        /\ \E q \in Callers : ComesToSub(q)'
    BY <1>0 DEF SubIsTold
  <2>0. /\ Overtaken(queue[watcher], f, f)
        /\ ~subThere => Overtaken(queue[watcher], f, Sub)
        /\ \A a \in Walkers : Away(a, f)
        /\ NoRemoval(queue[watcher], f) =>
             Away(watcher, f) /\ (listenerMap[f] = NoListener \/ Dropping(f))
        /\ subThere => \/ Lasting(queue[watcher], f, Sub)
                       \/ /\ NoRemoval(queue[watcher], f) /\ ~Dropping(f)
                          /\ \E q \in Callers : ComesToSub(q)
    BY DEF Followed, SubIsTold, Alike
  <2>1. Overtaken(queue'[watcher], f, f) /\ (~subThere => Overtaken(queue'[watcher], f, Sub))
    BY <2>0 DEF ToldAlike
  <2>2. ASSUME NEW q \in Callers, Away(q, f) PROVE Away(q, f)'
    <3>1. CASE q = p
      BY <2>2, <3>1 DEF Alike, ComesAlike
    <3>2. CASE q # p
      BY <2>2, <3>2, OthersSee DEF Alike
    <3> QED
      BY <3>1, <3>2
  <2>3. ASSUME NoRemoval(queue'[watcher], f)
        PROVE  Away(watcher, f)' /\ (listenerMap'[f] = NoListener \/ Dropping(f)')
    <3>1. Away(watcher, f) /\ (listenerMap[f] = NoListener \/ Dropping(f))
      BY <2>0, <2>3 DEF ToldAlike
    <3>2. ~Setting(p, f)
      BY <2>0, <3>1 DEF Movers, Away
    <3> QED
      BY <1>0, <2>2, <3>1, <3>2 DEF Alike, MapsAlike
  <2>4. ASSUME subThere
        PROVE  \/ Lasting(queue'[watcher], f, Sub)
               \/ /\ NoRemoval(queue'[watcher], f) /\ ~Dropping(f)'
                  /\ \E q \in Callers : ComesToSub(q)'
    <3>1. CASE Lasting(queue[watcher], f, Sub)
      BY <3>1 DEF ToldAlike
    <3>2. ASSUME NoRemoval(queue[watcher], f), ~Dropping(f), NEW q \in Callers, ComesToSub(q)
          PROVE  NoRemoval(queue'[watcher], f) /\ ~Dropping(f)' /\ ComesToSub(q)'
      <4>1. NoRemoval(queue'[watcher], f) /\ ~Dropping(f)'
        BY <3>2 DEF ToldAlike, Alike, MapsAlike
      <4>2. CASE q = p
        BY <2>4, <3>2, <4>1, <4>2 DEF Alike, ComesAlike
      <4>3. CASE q # p
        BY <3>2, <4>1, <4>3, OthersSee DEF Alike
      <4> QED
        BY <4>2, <4>3
    <3> QED
      BY <2>0, <2>4, <3>1, <3>2
  <2> QED
    BY <1>0, <2>0, <2>1, <2>2, <2>3, <2>4
<1> QED
  BY <1>1, <1>3, <1>4, <1>5 DEF Followed

-----------------------------------------------------------------------------
(* The steps of callers                                                    *)

LEMMA BecomesSees ==
    ASSUME TaskTypes, NEW p \in Callers, NEW t, NEW h, NEW paths, Becomes(p, t, h, paths)
    PROVE  /\ task'[p] = t /\ hand'[p] = h /\ todo'[p] = paths
           /\ \A q \in Callers \ {p} :
                task'[q] = task[q] /\ hand'[q] = hand[q] /\ todo'[q] = todo[q]
  BY DEF TaskTypes, InHand, Becomes

\* The manager does nothing in it, and the queue is as it was.
LEMMA TaskAlike ==
    ASSUME SystemTypes, NEW p \in Callers, NEW t, NEW h, NEW paths, Becomes(p, t, h, paths),
           UNCHANGED vars, UNCHANGED fileVars, UNCHANGED watcher, UNCHANGED queue
    PROVE  /\ \A f \in IDs : Frame(p) /\ ToldAlike(f)
           /\ task'[p] = t /\ hand'[p] = h /\ todo'[p] = paths
           /\ UNCHANGED <<listenerMap, config, step, id, wanted>>
<1>1. TaskTypes
  BY TypesInParts
<1>2. UNCHANGED <<disk, subThere, listenerMap, config, step, id, wanted>>
  BY DEF vars, callerVars, fileVars
<1>3. /\ task'[p] = t /\ hand'[p] = h /\ todo'[p] = paths
      /\ \A q \in Callers \ {p} :
            task'[q] = task[q] /\ hand'[q] = hand[q] /\ todo'[q] = todo[q]
  BY <1>1, BecomesSees
<1>4. Frame(p)
  BY <1>2, <1>3 DEF Frame
<1>5. \A f \in IDs : ToldAlike(f)
  BY DEF ToldAlike
<1> QED
  BY <1>2, <1>3, <1>4, <1>5

\* What is dropped is not changed by others, nor by a walk.
LEMMA DropsAlike ==
    ASSUME NEW p \in Callers, watcher \in Callers, Frame(p), NEW f,
           p = watcher => task[p] # "drop" /\ task'[p] # "drop"
    PROVE  Dropping(f)' <=> Dropping(f)
  BY OthersSee DEF Frame, Dropping

LEMMA WalkDirectoryAlike ==
    ASSUME SystemTypes, watcher \in Goroutines, NEW f \in IDs, NEW p \in Callers, WalkDirectory(p)
    PROVE  Alike(p, f) /\ ToldAlike(f)
<1> USE FSWatcherAssumption
<1>1. PICK d \in todo[p] \cap {Top, Sub} :
        /\ watched' = IF Watches(d) THEN watched \cup {d} ELSE watched
        /\ Becomes(p, "list", d, todo[p] \ {d})
  BY DEF WalkDirectory
<1>2. task[p] = "walk" /\ step[p] = "idle"
  BY DEF WalkDirectory, InTask
<1>3. /\ Frame(p) /\ ToldAlike(f)
      /\ task'[p] = "list" /\ hand'[p] = d /\ todo'[p] = todo[p] \ {d}
      /\ UNCHANGED <<listenerMap, config, step, id, wanted>>
  BY <1>1, TaskAlike DEF WalkDirectory
<1>4. \A c : ~SettingTo(p, f, c) /\ ~SettingTo(p, f, c)'
  BY <1>2, <1>3 DEF SettingTo
<1>5. SetsAlike(p, f)
  BY <1>4 DEF SetsAlike
<1>6. d = Sub /\ subThere => Sub \in watched'
  BY <1>1 DEF Watches
<1>7. ComesAlike(p, f)
  <2>1. ASSUME Comes(p, f) PROVE Comes(p, f)'
    BY <1>2, <1>3, <2>1 DEF Comes, Walking, DirOf
  <2>2. ComesToSub(p) => ComesToSub(p)' \/ ~subThere \/ Sub \in watched'
    BY <1>2, <1>3, <1>6 DEF ComesToSub, Walking
  <2>3. ASSUME Sub \notin watched', Away(p, f) PROVE Away(p, f)'
    <3>1. d # Sub
      BY <1>2, <1>6, <2>3 DEF Away, Walking
    <3>2. ~Setting(p, f)'
      BY <1>4 DEF Setting
    <3> QED
      BY <1>2, <1>3, <2>3, <3>1, <3>2 DEF Away, Walking, Frame
  <2> QED
    BY <2>1, <2>2, <2>3 DEF ComesAlike
<1>8. Dropping(f)' <=> Dropping(f)
  BY <1>2, <1>3, DropsAlike
<1>9. MapsAlike(p, f)
  <2>1. \A c : Runs(f, c)' <=> Runs(f, c)
    BY <1>3 DEF Runs
  <2> QED
    BY <1>3, <1>8, <2>1 DEF MapsAlike
<1>10. watched \subseteq watched'
  BY <1>1
<1> QED
  BY <1>3, <1>5, <1>7, <1>9, <1>10 DEF Alike

LEMMA WalkListAlike ==
    ASSUME SystemTypes, Places, watcher \in Goroutines, NEW f \in IDs, NEW p \in Callers, WalkList(p)
    PROVE  Alike(p, f) /\ ToldAlike(f)
<1> USE FSWatcherAssumption
<1>1. task[p] = "list" /\ step[p] = "idle" /\ hand[p] \in {Top, Sub}
  BY DEF WalkList, InTask, SystemTypes, InHand
<1>2. /\ Frame(p) /\ ToldAlike(f)
      /\ task'[p] = "walk" /\ todo'[p] = todo[p] \cup Entries(hand[p])
      /\ UNCHANGED <<listenerMap, config, step, id, wanted, watched>>
  BY TaskAlike DEF WalkList, watchVars
<1>3. \A c : ~SettingTo(p, f, c) /\ ~SettingTo(p, f, c)'
  BY <1>1, <1>2 DEF SettingTo
<1>4. SetsAlike(p, f)
  BY <1>3 DEF SetsAlike
<1>5. ComesAlike(p, f)
  <2>1. ASSUME NEW c \in Configs, disk[f] = c, Comes(p, f) PROVE Comes(p, f)'
    <3>1. disk[f] # Absent
      BY <2>1
    <3>2. f \in SubFiles => subThere
      BY <3>1 DEF Places
    <3>3. hand[p] = DirOf(f) => f \in Entries(hand[p])
      BY <3>1 DEF Entries
    <3>4. hand[p] = Top => f \in Entries(hand[p]) \/ DirOf(f) \in Entries(hand[p])
      BY <3>1, <3>2 DEF Entries, DirOf
    <3> QED
      BY <1>1, <1>2, <2>1, <3>3, <3>4 DEF Comes, Walking
  <2>2. ComesToSub(p) => ComesToSub(p)' \/ ~subThere
    BY <1>1, <1>2 DEF ComesToSub, Walking, Entries
  <2>3. ASSUME f \in SubFiles, Away(p, f) PROVE Away(p, f)'
    <3>1. ~Setting(p, f)'
      BY <1>3 DEF Setting
    <3>2. f \notin Entries(hand[p])
      BY <1>1, <2>3 DEF Away, Entries, DirOf
    <3>3. Sub \in Entries(hand[p]) => subThere
      BY DEF Entries
    <3> QED
      BY <1>1, <1>2, <2>3, <3>1, <3>2, <3>3 DEF Away, Walking, Frame
  <2> QED
    BY <2>1, <2>2, <2>3 DEF ComesAlike
<1>6. Dropping(f)' <=> Dropping(f)
  BY <1>1, <1>2, DropsAlike
<1>7. MapsAlike(p, f)
  <2>1. \A c : Runs(f, c)' <=> Runs(f, c)
    BY <1>2 DEF Runs
  <2> QED
    BY <1>2, <1>6, <2>1 DEF MapsAlike
<1> QED
  BY <1>2, <1>4, <1>5, <1>7 DEF Alike

LEMMA WalkReadAlike ==
    ASSUME SystemTypes, watcher \in Goroutines, NEW f \in IDs, NEW p \in Callers, WalkRead(p)
    PROVE  Alike(p, f) /\ ToldAlike(f)
<1> USE FSWatcherAssumption
<1>1. task[p] = "walk" /\ step[p] = "idle"
  BY DEF WalkRead, InTask
<1>2. PICK e \in todo[p] \cap IDs :
        IF disk[e] \in Configs THEN Becomes(p, "set", <<e, disk[e]>>, todo[p] \ {e})
                              ELSE Becomes(p, "walk", <<>>, todo[p] \ {e})
  BY DEF WalkRead
<1>3. PICK t, h :
        /\ t \in {"set", "walk"}
        /\ Becomes(p, t, h, todo[p] \ {e})
        /\ t = "set" => h = <<e, disk[e]>>
        /\ disk[e] \in Configs => t = "set"
  BY <1>2
<1>4. /\ Frame(p) /\ ToldAlike(f)
      /\ task'[p] = t /\ hand'[p] = h /\ todo'[p] = todo[p] \ {e}
      /\ UNCHANGED <<listenerMap, config, step, id, wanted, watched>>
  BY <1>3, TaskAlike DEF WalkRead, watchVars
<1>5. \A c : ~SettingTo(p, f, c)
  BY <1>1 DEF SettingTo
<1>6. \A c : SettingTo(p, f, c)' => e = f /\ disk[f] = c
  BY <1>1, <1>3, <1>4 DEF SettingTo
<1>7. SetsAlike(p, f)
  BY <1>5, <1>6 DEF SetsAlike
<1>8. ComesAlike(p, f)
  <2>1. ASSUME NEW c \in Configs, disk[f] = c, Comes(p, f) PROVE Comes(p, f)' \/ SettingTo(p, f, c)'
    <3>1. CASE e = f
      BY <1>3, <1>4, <2>1, <3>1 DEF SettingTo
    <3>2. CASE e # f
      BY <1>1, <1>3, <1>4, <2>1, <3>2 DEF Comes, Walking, DirOf
    <3> QED
      BY <3>1, <3>2
  <2>2. ComesToSub(p) => ComesToSub(p)'
    BY <1>1, <1>3, <1>4 DEF ComesToSub, Walking
  <2>3. ASSUME Away(p, f) PROVE Away(p, f)'
    <3>1. e # f
      BY <1>1, <2>3 DEF Away, Walking
    <3>2. ~Setting(p, f)'
      BY <1>6, <3>1 DEF Setting
    <3> QED
      BY <1>1, <1>3, <1>4, <2>3, <3>2 DEF Away, Walking, Frame
  <2> QED
    BY <2>1, <2>2, <2>3 DEF ComesAlike
<1>9. Dropping(f)' <=> Dropping(f)
  BY <1>1, <1>3, <1>4, DropsAlike
<1>10. MapsAlike(p, f)
  <2>1. \A c : Runs(f, c)' <=> Runs(f, c)
    BY <1>4 DEF Runs
  <2> QED
    BY <1>4, <1>9, <2>1 DEF MapsAlike
<1> QED
  BY <1>4, <1>7, <1>8, <1>10 DEF Alike

LEMMA WalkEndAlike ==
    ASSUME SystemTypes, watcher \in Goroutines, NEW f \in IDs, NEW p \in Callers, WalkEnd(p)
    PROVE  Alike(p, f) /\ ToldAlike(f)
<1> USE FSWatcherAssumption
<1>1. task[p] = "walk" /\ step[p] = "idle" /\ todo[p] = {}
  BY DEF WalkEnd, InTask
<1>2. PICK t \in {"select", "none"} : Becomes(p, t, <<>>, {})
  BY DEF WalkEnd
<1>3. /\ Frame(p) /\ ToldAlike(f)
      /\ task'[p] = t /\ todo'[p] = {}
      /\ UNCHANGED <<listenerMap, config, step, id, wanted, watched>>
  BY <1>2, TaskAlike DEF WalkEnd, watchVars
<1>4. \A c : ~SettingTo(p, f, c) /\ ~SettingTo(p, f, c)'
  BY <1>1, <1>3 DEF SettingTo
<1>5. SetsAlike(p, f)
  BY <1>4 DEF SetsAlike
<1>6. ComesAlike(p, f)
  <2>1. ~Comes(p, f) /\ ~ComesToSub(p)
    BY <1>1 DEF Comes, ComesToSub
  <2>2. Away(p, f)'
    BY <1>3, <1>4 DEF Away, Setting, Walking
  <2> QED
    BY <2>1, <2>2 DEF ComesAlike
<1>7. Dropping(f)' <=> Dropping(f)
  BY <1>1, <1>3, DropsAlike
<1>8. MapsAlike(p, f)
  <2>1. \A c : Runs(f, c)' <=> Runs(f, c)
    BY <1>3 DEF Runs
  <2> QED
    BY <1>3, <1>7, <2>1 DEF MapsAlike
<1> QED
  BY <1>3, <1>5, <1>6, <1>8 DEF Alike

LEMMA WalkSetAlike ==
    ASSUME SystemTypes, started, watcher \in Goroutines, NEW f \in IDs, NEW p \in Callers, WalkSet(p)
    PROVE  Alike(p, f) /\ ToldAlike(f)
<1> USE FSWatcherAssumption
<1> DEFINE e == hand[p][1]
           c == hand[p][2]
<1>0. TypeOK /\ TaskTypes
  BY TypesInParts
<1>1. task[p] = "set" /\ step[p] = "idle" /\ hand[p] = <<e, c>> /\ e \in IDs /\ c \in Configs
  <2>1. task[p] = "set" /\ step[p] = "idle" /\ hand[p] \in IDs \X Configs
    BY DEF WalkSet, InTask, SystemTypes, InHand
  <2> QED
    BY <2>1
<1>2. /\ task'[p] = "walk" /\ todo'[p] = todo[p]
      /\ \A q \in Callers \ {p} :
            task'[q] = task[q] /\ hand'[q] = hand[q] /\ todo'[q] = todo[q]
  BY <1>0, BecomesSees DEF WalkSet
<1>3. UNCHANGED <<disk, subThere, watcher, watched, queue>>
  BY DEF WalkSet, fileVars, watchVars
<1>4. /\ listenerMap' = listenerMap /\ config' = config
      /\ \A q \in Callers \ {p} : step'[q] = step[q] /\ id'[q] = id[q] /\ wanted'[q] = wanted[q]
      /\ \/ step'[p] = "idle" /\ listenerMap[e] # NoListener /\ config[listenerMap[e]] = c
         \/ step'[p] = "start" /\ id'[p] = e /\ wanted'[p] = c
  <2>1. CASE SetAtOnce(e, c)
    BY <1>1, <2>1 DEF WalkSet, SetAtOnce, vars, callerVars
  <2>2. CASE ~SetAtOnce(e, c)
    <3>1. SetLook(p, e, c)
      BY <2>2 DEF WalkSet
    <3> QED
      BY <1>0, <1>1, <3>1 DEF SetLook, Goto, TypeOK
  <2> QED
    BY <2>1, <2>2
<1> HIDE DEF e, c
<1>5. Frame(p)
  BY <1>2, <1>3, <1>4 DEF Frame
<1>6. ToldAlike(f)
  BY <1>3 DEF ToldAlike
<1>7. \A d : SettingTo(p, f, d) <=> (e = f /\ c = d)
  BY <1>1 DEF SettingTo
<1>8. \A d : SettingTo(p, f, d)' => (e = f /\ c = d)
  BY <1>2, <1>4 DEF SettingTo
<1>9. \A d : Runs(f, d)' <=> Runs(f, d)
  BY <1>4 DEF Runs
<1>10. SetsAlike(p, f)
  <2>1. ASSUME NEW d \in Configs, SettingTo(p, f, d) PROVE SettingTo(p, f, d)' \/ Runs(f, d)'
    <3>1. e = f /\ c = d
      BY <1>7, <2>1
    <3> QED
      BY <1>4, <1>9, <3>1 DEF SettingTo, Runs
  <2> QED
    BY <1>7, <1>8, <2>1 DEF SetsAlike
<1>11. ComesAlike(p, f)
  <2>1. Comes(p, f) => Comes(p, f)'
    BY <1>1, <1>2 DEF Comes, Walking
  <2>2. ComesToSub(p) => ComesToSub(p)'
    BY <1>1, <1>2 DEF ComesToSub, Walking
  <2>3. ASSUME Away(p, f) PROVE Away(p, f)'
    <3>1. ~Setting(p, f)'
      BY <1>7, <1>8, <2>3 DEF Away, Setting
    <3> QED
      BY <1>1, <1>2, <1>3, <2>3, <3>1 DEF Away, Walking
  <2> QED
    BY <2>1, <2>2, <2>3 DEF ComesAlike
<1>12. Dropping(f)' <=> Dropping(f)
  BY <1>1, <1>2, <1>5, DropsAlike
<1>13. MapsAlike(p, f)
  BY <1>4, <1>9, <1>12 DEF MapsAlike
<1> QED
  BY <1>3, <1>5, <1>6, <1>10, <1>11, <1>13 DEF Alike

\* A removal that is under way, of this file or of others.
LEMMA DropOneAlike ==
    ASSUME SystemTypes, started, NEW g \in Goroutines, watcher = g, NEW f \in IDs, DropOne(g)
    PROVE  Alike(g, f) /\ ToldAlike(f)
<1> USE FSWatcherAssumption
<1>0. TypeOK /\ TaskTypes /\ g \in Callers
  BY TypesInParts
<1>1. task[g] = "drop" /\ step[g] = "idle" /\ todo[g] \subseteq IDs
  BY DEF DropOne, InTask, SystemTypes, InHand
<1>2. PICK i \in todo[g] :
        /\ IF started /\ listenerMap[i] # NoListener
             THEN DeleteLook(g, i) ELSE Free /\ UNCHANGED vars
        /\ Becomes(g, "drop", <<>>, todo[g] \ {i})
  BY DEF DropOne
<1>3. UNCHANGED <<disk, subThere, watcher, watched, queue>>
  BY DEF DropOne, fileVars, watchVars
<1>4. /\ task'[g] = "drop" /\ todo'[g] = todo[g] \ {i}
      /\ \A q \in Callers \ {g} :
            task'[q] = task[q] /\ hand'[q] = hand[q] /\ todo'[q] = todo[q]
  BY <1>0, <1>2, BecomesSees
<1>5. /\ \A q \in Callers \ {g} : step'[q] = step[q] /\ id'[q] = id[q] /\ wanted'[q] = wanted[q]
      /\ step'[g] \in {"idle", "retire"}
      /\ config' = config
      /\ listenerMap'[i] = NoListener
      /\ \A e \in IDs \ {i} : listenerMap'[e] = listenerMap[e]
  <2>1. CASE listenerMap[i] # NoListener
    <3>1. DeleteLook(g, i)
      BY <1>2, <2>1
    <3> QED
      BY <1>0, <1>1, <3>1 DEF DeleteLook, Goto, TypeOK
  <2>2. CASE listenerMap[i] = NoListener
    BY <1>1, <1>2, <2>2 DEF vars, callerVars
  <2> QED
    BY <2>1, <2>2
<1>6. Frame(g)
  BY <1>3, <1>4, <1>5 DEF Frame
<1>7. ToldAlike(f)
  BY <1>3 DEF ToldAlike
<1>8. \A c : ~SettingTo(g, f, c) /\ ~SettingTo(g, f, c)'
  BY <1>1, <1>4, <1>5 DEF SettingTo
<1>9. SetsAlike(g, f)
  BY <1>8 DEF SetsAlike
<1>10. ComesAlike(g, f)
  <2>1. ~Comes(g, f) /\ ~ComesToSub(g)
    BY <1>1 DEF Comes, ComesToSub, Walking
  <2>2. Away(g, f)'
    BY <1>1, <1>4, <1>8 DEF Away, Setting, Walking
  <2> QED
    BY <2>1, <2>2 DEF ComesAlike
<1>11. MapsAlike(g, f)
  <2>1. Dropping(f) <=> f \in todo[g]
    BY <1>1 DEF Dropping
  <2>2. Dropping(f)' <=> (f \in todo[g] /\ f # i)
    BY <1>3, <1>4 DEF Dropping
  <2>3. ~Setting(g, f)'
    BY <1>8 DEF Setting
  <2>4. CASE f = i
    BY <1>5, <2>1, <2>2, <2>3, <2>4 DEF MapsAlike
  <2>5. CASE f # i
    <3>1. \A c : Runs(f, c)' <=> Runs(f, c)
      BY <1>5, <2>5 DEF Runs
    <3> QED
      BY <1>5, <2>1, <2>2, <2>5, <3>1 DEF MapsAlike
  <2> QED
    BY <2>4, <2>5
<1> QED
  BY <1>3, <1>6, <1>7, <1>9, <1>10, <1>11 DEF Alike

LEMMA DropEndAlike ==
    ASSUME SystemTypes, NEW g \in Goroutines, watcher = g, NEW f \in IDs, DropEnd(g)
    PROVE  Alike(g, f) /\ ToldAlike(f)
<1> USE FSWatcherAssumption
<1>1. task[g] = "drop" /\ step[g] = "idle" /\ todo[g] = {}
  BY DEF DropEnd, InTask
<1>2. /\ Frame(g) /\ ToldAlike(f)
      /\ task'[g] = "select" /\ todo'[g] = {}
      /\ UNCHANGED <<listenerMap, config, step, id, wanted, watched, watcher>>
  BY TaskAlike DEF DropEnd, watchVars
<1>3. \A c : ~SettingTo(g, f, c) /\ ~SettingTo(g, f, c)'
  BY <1>1, <1>2 DEF SettingTo
<1>4. SetsAlike(g, f)
  BY <1>3 DEF SetsAlike
<1>5. ComesAlike(g, f)
  <2>1. ~Comes(g, f) /\ ~ComesToSub(g)
    BY <1>1 DEF Comes, ComesToSub, Walking
  <2>2. Away(g, f)'
    BY <1>2, <1>3 DEF Away, Setting, Walking
  <2> QED
    BY <2>1, <2>2 DEF ComesAlike
<1>6. MapsAlike(g, f)
  <2>1. ~Dropping(f) /\ ~Dropping(f)'
    BY <1>1, <1>2 DEF Dropping
  <2>2. \A c : Runs(f, c)' <=> Runs(f, c)
    BY <1>2 DEF Runs
  <2> QED
    BY <1>2, <2>1, <2>2 DEF MapsAlike
<1> QED
  BY <1>2, <1>4, <1>5, <1>6 DEF Alike

\* The goroutine takes an event, whichever it is.
LEMMA TakeSees ==
    ASSUME SystemTypes, NEW g \in Goroutines, watcher = g, NEW ops, TakeEvent(g, ops)
    PROVE  /\ queue[g] \in Seq(Events) /\ queue[g] # <<>>
           /\ Head(queue[g]) \in Events /\ Head(queue[g])[1] \in ops
           /\ queue'[g] = Tail(queue[g])
           /\ task[g] = "select" /\ step[g] = "idle"
           /\ UNCHANGED <<disk, subThere, watched, watcher, listenerMap, config, step, id, wanted>>
<1>1. queue \in [Goroutines -> Seq(Events)]
  BY TypesInParts DEF PlaceTypes
<1>2. queue[g] \in Seq(Events) /\ queue[g] # <<>>
  BY <1>1 DEF TakeEvent
<1>3. Head(queue[g]) \in Events
  BY <1>2
<1>4. queue'[g] = Tail(queue[g])
  BY <1>1 DEF TakeEvent
<1> QED
  BY <1>2, <1>3, <1>4 DEF TakeEvent, InTask, fileVars, watchVars, vars, callerVars

\* An event on a path that is not about the file, or that nothing is done about.
LEMMA TakeElse ==
    ASSUME SystemTypes, NEW g \in Goroutines, watcher = g, NEW f \in IDs,
           \/ TakeRename(g)
           \/ /\ TakeWrite(g) \/ TakeRemove(g)
              /\ Head(queue[g])[2] \notin Paths(f)
    PROVE  Alike(g, f) /\ ToldAlike(f)
<1> USE FSWatcherAssumption
<1> DEFINE q == queue[g]
<1>0. TaskTypes /\ g \in Callers
  BY TypesInParts
<1>1. \E ops \in {{"rename"}, {"create", "write"}, {"remove"}} : TakeEvent(g, ops)
  BY DEF TakeRename, TakeWrite, TakeRemove
<1>2. /\ q \in Seq(Events) /\ q # <<>> /\ Head(q) \in Events
      /\ queue'[g] = Tail(q)
      /\ task[g] = "select" /\ step[g] = "idle"
      /\ UNCHANGED <<disk, subThere, watched, watcher, listenerMap, config, step, id, wanted>>
  BY <1>1, TakeSees
<1>3. ~Removes(Head(q), f) /\ \A name \in Paths(f) : ~TellsOf(Head(q), name)
  <2>1. CASE TakeRename(g)
    BY <2>1 DEF TakeRename, TakeEvent, Removes, TellsOf
  <2>2. CASE Head(q)[2] \notin Paths(f)
    BY <2>2 DEF Removes, TellsOf
  <2> QED
    BY <2>1, <2>2
<1>4. /\ task'[g] # "drop" \/ (task'[g] = "drop" /\ f \notin todo'[g] /\ todo'[g] \subseteq IDs)
      /\ task'[g] # "set" /\ task'[g] # "list"
      /\ task'[g] = "walk" => f \notin todo'[g] /\ (f \in SubFiles => Sub \notin todo'[g])
      /\ task'[g] = "select" => todo'[g] = todo[g]
      /\ \A p \in Callers \ {g} :
            task'[p] = task[p] /\ hand'[p] = hand[p] /\ todo'[p] = todo[p]
  <2>1. CASE TakeRename(g)
    BY <1>2, <2>1 DEF TakeRename, taskVars
  <2>2. CASE TakeWrite(g) /\ Head(q)[2] \notin Paths(f)
    <3>1. /\ task'[g] = "walk" /\ todo'[g] = {Head(q)[2]}
          /\ \A p \in Callers \ {g} :
                task'[p] = task[p] /\ hand'[p] = hand[p] /\ todo'[p] = todo[p]
      BY <1>0, <2>2, BecomesSees DEF TakeWrite
    <3> QED
      BY <2>2, <3>1 DEF Paths
  <2>3. CASE TakeRemove(g) /\ Head(q)[2] \notin Paths(f)
    <3>1. /\ task'[g] = "drop" /\ todo'[g] = Below(Head(q)[2])
          /\ \A p \in Callers \ {g} :
                task'[p] = task[p] /\ hand'[p] = hand[p] /\ todo'[p] = todo[p]
      BY <1>0, <2>3, BecomesSees DEF TakeRemove
    <3>2. f \notin Below(Head(q)[2]) /\ Below(Head(q)[2]) \subseteq IDs
      BY <2>3 DEF Below, Paths
    <3> QED
      BY <3>1, <3>2
  <2> QED
    BY <2>1, <2>2, <2>3
<1>5. ToldAlike(f)
  <2>1. NoRemoval(Tail(q), f) <=> NoRemoval(q, f)
    BY <1>2, <1>3, TailNoRemoval
  <2>2. ASSUME NEW name \in Paths(f), Lasting(q, f, name) PROVE Lasting(Tail(q), f, name)
    BY <1>2, <1>3, <2>2, TailLasting
  <2>3. ASSUME NEW name \in Paths(f), Overtaken(q, f, name) PROVE Overtaken(Tail(q), f, name)
    BY <1>2, <2>3, TailOvertaken
  <2> QED
    BY <1>2, <2>1, <2>2, <2>3 DEF ToldAlike
<1> HIDE DEF q
<1>6. Frame(g)
  BY <1>2, <1>4 DEF Frame
<1>7. \A c : ~SettingTo(g, f, c) /\ ~SettingTo(g, f, c)'
  BY <1>2, <1>4 DEF SettingTo
<1>8. SetsAlike(g, f)
  BY <1>7 DEF SetsAlike
<1>9. ComesAlike(g, f)
  <2>1. ~Comes(g, f) /\ ~ComesToSub(g)
    BY <1>2 DEF Comes, ComesToSub, Walking
  <2>2. ASSUME f \in SubFiles, Away(g, f) PROVE Away(g, f)'
    <3>1. ~Setting(g, f)'
      BY <1>7 DEF Setting
    <3>2. task'[g] \in {"select", "walk", "drop"}
      BY <1>0, <1>1, <1>2, BecomesSees DEF TakeRename, TakeWrite, TakeRemove, taskVars
    <3> QED
      BY <1>2, <1>4, <2>2, <3>1, <3>2 DEF Away, Walking
  <2> QED
    BY <2>1, <2>2 DEF ComesAlike
<1>10. MapsAlike(g, f)
  <2>1. ~Dropping(f) /\ ~Dropping(f)'
    BY <1>2, <1>4 DEF Dropping
  <2>2. \A c : Runs(f, c)' <=> Runs(f, c)
    BY <1>2 DEF Runs
  <2> QED
    BY <1>2, <2>1, <2>2 DEF MapsAlike
<1> QED
  BY <1>2, <1>5, <1>6, <1>8, <1>9, <1>10 DEF Alike

\* It takes an event that tells of the file: its walk will come to it.
LEMMA TakeWriteKeeps ==
    ASSUME SystemTypes, NEW g \in Goroutines, watcher = g, NEW f \in IDs, Followed(f), OnlyMovers(f),
           TakeWrite(g), Head(queue[g])[2] \in Paths(f)
    PROVE  Followed(f)'
<1> USE FSWatcherAssumption
<1> DEFINE q == queue[g]
           name == Head(q)[2]
<1>0. TaskTypes /\ g \in Callers
  BY TypesInParts
<1>1. /\ q \in Seq(Events) /\ q # <<>> /\ Head(q)[1] \in {"create", "write"}
      /\ queue'[g] = Tail(q)
      /\ task[g] = "select" /\ step[g] = "idle"
      /\ UNCHANGED <<disk, subThere, watched, watcher, listenerMap, config, step, id, wanted>>
  BY TakeSees DEF TakeWrite
<1>2. /\ task'[g] = "walk" /\ todo'[g] = {name}
      /\ \A p \in Callers \ {g} :
            task'[p] = task[p] /\ hand'[p] = hand[p] /\ todo'[p] = todo[p]
  BY <1>0, BecomesSees DEF TakeWrite
<1>3. Frame(g)
  BY <1>1, <1>2 DEF Frame
<1>4. TellsOf(Head(q), name) /\ ~Removes(Head(q), f)
  BY <1>1 DEF TellsOf, Removes
<1>5. NoRemoval(Tail(q), f) <=> NoRemoval(q, f)
  BY <1>1, <1>4, TailNoRemoval
<1>6. ASSUME NEW n, Lasting(q, f, n)
      PROVE  Lasting(Tail(q), f, n) \/ (n = name /\ NoRemoval(Tail(q), f))
  <2>1. Lasting(Tail(q), f, n) \/ (TellsOf(Head(q), n) /\ NoRemoval(Tail(q), f))
    BY <1>1, <1>6, TailLasting
  <2> QED
    BY <2>1 DEF TellsOf
<1>7. ASSUME NEW n, Overtaken(q, f, n)
      PROVE  Overtaken(Tail(q), f, n) /\ (n = name => ~NoRemoval(Tail(q), f))
  <2>1. Overtaken(Tail(q), f, n) /\ (TellsOf(Head(q), n) => ~NoRemoval(Tail(q), f))
    BY <1>1, <1>7, TailOvertaken
  <2> QED
    BY <1>4, <2>1
<1>8. name \in {f, DirOf(f)} /\ (name # f => name = Sub /\ f \in SubFiles)
  BY DEF Paths, DirOf
<1> HIDE DEF q, name
<1>9. /\ \A c : ~SettingTo(g, f, c) /\ ~SettingTo(g, f, c)'
      /\ ~Setting(g, f) /\ ~Setting(g, f)'
      /\ ~Comes(g, f) /\ ~ComesToSub(g) /\ ~Dropping(f) /\ ~Dropping(f)'
  BY <1>1, <1>2 DEF SettingTo, Setting, Comes, ComesToSub, Walking, Dropping
<1>10. Comes(g, f)' /\ (name = Sub => ComesToSub(g)')
  BY <1>2, <1>8 DEF Comes, ComesToSub, Walking
<1>11. WalkedIsThere(f)'
  <2> SUFFICES ASSUME NEW a \in Walkers, NEW c \in Configs, SettingTo(a, f, c)'
               PROVE  disk[f] = c
    BY <1>1 DEF WalkedIsThere
  <2>1. a \in Callers \ {g}
    OBVIOUS
  <2>2. SettingTo(a, f, c)
    BY <1>3, <2>1, OthersSee
  <2> QED
    BY <2>2 DEF Followed, WalkedIsThere
<1>12. GoneIsTold(f)'
  <2>1. \A p \in Callers : ~Setting(p, f) => ~Setting(p, f)'
    BY <1>3, <1>9, OthersSee
  <2> QED
    BY <1>1, <1>5, <1>9, <2>1 DEF Followed, GoneIsTold, q
<1>13. ValidIsTold(f)'
  <2> SUFFICES ASSUME NEW c \in Configs, disk[f] = c PROVE Told(f)' \/ Nears(f, c)'
    BY <1>1 DEF ValidIsTold
  <2>1. CASE \E n \in Paths(f) : Lasting(Tail(q), f, n)
    BY <1>1, <2>1 DEF Told
  <2>2. ASSUME NoRemoval(Tail(q), f), \A p \in Callers : \A d \in Configs : SettingTo(p, f, d) => d = c
        PROVE  Nears(f, c)'
    <3>1. \A p \in Callers : \A d \in Configs : SettingTo(p, f, d)' => d = c
      BY <1>3, <1>9, <2>2, OthersSee
    <3> QED
      BY <1>0, <1>1, <1>9, <1>10, <2>2, <3>1 DEF Nears
  <2>3. CASE Nears(f, c)
    BY <1>1, <1>5, <2>2, <2>3 DEF Nears, q
  <2>4. ASSUME NEW n \in Paths(f), Lasting(q, f, n), NoRemoval(Tail(q), f) PROVE Nears(f, c)'
    <3>1. ASSUME NEW p \in Callers, NEW d \in Configs, SettingTo(p, f, d) PROVE d = c
      <4>1. p \in Walkers
        BY <1>1, <1>9, <3>1 DEF OnlyMovers, Movers, Setting
      <4> QED
        BY <3>1, <4>1 DEF Followed, WalkedIsThere
    <3> QED
      BY <2>2, <2>4, <3>1
  <2> QED
    BY <1>1, <1>6, <2>1, <2>3, <2>4 DEF Followed, ValidIsTold, Told, q
<1>14. SubIsTold(f)'
  <2> SUFFICES ASSUME f \in SubFiles, Sub \notin watched
               PROVE  /\ Overtaken(Tail(q), f, f)
                      /\ ~subThere => Overtaken(Tail(q), f, Sub)
                      /\ \A a \in Walkers : Away(a, f)'
                      /\ NoRemoval(Tail(q), f) => Away(g, f)' /\ listenerMap[f] = NoListener
                      /\ subThere => \/ Lasting(Tail(q), f, Sub)
                                     \/ /\ NoRemoval(Tail(q), f)
                                        /\ \E p \in Callers : ComesToSub(p)'
    BY <1>1, <1>9 DEF SubIsTold
  <2>0. /\ Overtaken(q, f, f)
        /\ ~subThere => Overtaken(q, f, Sub)
        /\ \A a \in Walkers : Away(a, f)
        /\ NoRemoval(q, f) => Away(g, f) /\ listenerMap[f] = NoListener
        /\ subThere => \/ Lasting(q, f, Sub)
                       \/ NoRemoval(q, f) /\ \E p \in Callers : ComesToSub(p)
    BY <1>9 DEF Followed, SubIsTold, q
  <2>1. Overtaken(Tail(q), f, f) /\ (~subThere => Overtaken(Tail(q), f, Sub))
    BY <1>7, <2>0
  <2>2. ASSUME NEW a \in Walkers PROVE Away(a, f)'
    <3>1. a \in Callers \ {g}
      OBVIOUS
    <3> QED
      BY <1>3, <2>0, <3>1, OthersSee
  <2>3. ASSUME NoRemoval(Tail(q), f) PROVE Away(g, f)' /\ listenerMap[f] = NoListener
    <3>1. name # f /\ (name = Sub => subThere)
      BY <1>7, <2>0, <2>3
    <3> QED
      BY <1>1, <1>2, <1>5, <1>8, <1>9, <2>0, <2>3, <3>1 DEF Away
  <2>4. ASSUME subThere
        PROVE  \/ Lasting(Tail(q), f, Sub)
               \/ NoRemoval(Tail(q), f) /\ \E p \in Callers : ComesToSub(p)'
    <3>1. CASE Lasting(q, f, Sub)
      BY <1>0, <1>6, <1>10, <3>1
    <3>2. ASSUME NoRemoval(q, f), NEW p \in Callers, ComesToSub(p)
          PROVE  NoRemoval(Tail(q), f) /\ ComesToSub(p)'
      BY <1>3, <1>5, <1>9, <3>2, OthersSee
    <3> QED
      BY <2>0, <2>4, <3>1, <3>2
  <2> QED
    BY <2>1, <2>2, <2>3, <2>4
<1> QED
  BY <1>11, <1>12, <1>13, <1>14 DEF Followed

\* It takes a removal of the file, or of its directory: it will drop the file if that runs.
LEMMA TakeRemoveKeeps ==
    ASSUME SystemTypes, NEW g \in Goroutines, watcher = g, NEW f \in IDs, Followed(f), OnlyMovers(f),
           TakeRemove(g), Head(queue[g])[2] \in Paths(f)
    PROVE  Followed(f)'
<1> USE FSWatcherAssumption
<1> DEFINE q == queue[g]
           path == Head(q)[2]
<1>0. TaskTypes /\ g \in Callers
  BY TypesInParts
<1>1. /\ q \in Seq(Events) /\ q # <<>> /\ Head(q)[1] = "remove"
      /\ queue'[g] = Tail(q)
      /\ task[g] = "select" /\ step[g] = "idle"
      /\ UNCHANGED <<disk, subThere, watched, watcher, listenerMap, config, step, id, wanted>>
  BY TakeSees DEF TakeRemove
<1>2. /\ task'[g] = "drop" /\ todo'[g] = Below(path)
      /\ \A p \in Callers \ {g} :
            task'[p] = task[p] /\ hand'[p] = hand[p] /\ todo'[p] = todo[p]
  BY <1>0, BecomesSees DEF TakeRemove
<1>3. Frame(g)
  BY <1>1, <1>2 DEF Frame
<1>4. Removes(Head(q), f) /\ \A n : ~TellsOf(Head(q), n)
  BY <1>1 DEF TellsOf, Removes
<1>5. ~NoRemoval(q, f)
  BY <1>1, <1>4, TailNoRemoval
<1>6. ASSUME NEW n, Lasting(q, f, n) PROVE Lasting(Tail(q), f, n)
  BY <1>1, <1>4, <1>6, TailLasting
<1>7. ASSUME NEW n, Overtaken(q, f, n) PROVE Overtaken(Tail(q), f, n)
  BY <1>1, <1>7, TailOvertaken
<1>8. Below(path) \subseteq IDs /\ (listenerMap[f] # NoListener => f \in Below(path))
  BY DEF Below, Paths
<1> HIDE DEF q, path
<1>9. /\ \A c : ~SettingTo(g, f, c) /\ ~SettingTo(g, f, c)'
      /\ ~Setting(g, f) /\ ~Setting(g, f)'
      /\ listenerMap[f] # NoListener => Dropping(f)'
  BY <1>1, <1>2, <1>8 DEF SettingTo, Setting, Dropping
<1>10. WalkedIsThere(f)'
  <2> SUFFICES ASSUME NEW a \in Walkers, NEW c \in Configs, SettingTo(a, f, c)'
               PROVE  disk[f] = c
    BY <1>1 DEF WalkedIsThere
  <2>1. a \in Callers \ {g}
    OBVIOUS
  <2>2. SettingTo(a, f, c)
    BY <1>3, <2>1, OthersSee
  <2> QED
    BY <2>2 DEF Followed, WalkedIsThere
<1>11. GoneIsTold(f)'
  <2>1. ASSUME disk[f] = Absent, NEW p \in Callers PROVE ~Setting(p, f)'
    <3>1. CASE p = g
      BY <1>9, <3>1
    <3>2. CASE p # g
      <4>1. ~Setting(p, f)
        BY <1>1, <2>1, <3>2 DEF OnlyMovers, Movers, Followed, WalkedIsThere, Setting
      <4> QED
        BY <1>3, <3>2, <4>1, OthersSee
    <3> QED
      BY <3>1, <3>2
  <2> QED
    BY <1>1, <1>9, <2>1 DEF GoneIsTold
<1>12. ValidIsTold(f)'
  <2> SUFFICES ASSUME NEW c \in Configs, disk[f] = c PROVE Told(f)'
    BY <1>1 DEF ValidIsTold
  <2>1. Told(f)
    BY <1>1, <1>5 DEF Followed, ValidIsTold, Nears, q
  <2> QED
    BY <1>1, <1>6, <2>1 DEF Told, q
<1>13. SubIsTold(f)'
  <2> SUFFICES ASSUME f \in SubFiles, Sub \notin watched
               PROVE  /\ Overtaken(Tail(q), f, f)
                      /\ ~subThere => Overtaken(Tail(q), f, Sub)
                      /\ \A a \in Walkers : Away(a, f)'
                      /\ Away(g, f)' /\ (listenerMap[f] = NoListener \/ Dropping(f)')
                      /\ subThere => Lasting(Tail(q), f, Sub)
    BY <1>1 DEF SubIsTold
  <2>0. /\ Overtaken(q, f, f)
        /\ ~subThere => Overtaken(q, f, Sub)
        /\ \A a \in Walkers : Away(a, f)
        /\ subThere => Lasting(q, f, Sub)
    BY <1>1, <1>5 DEF Followed, SubIsTold, q
  <2>1. ASSUME NEW a \in Walkers PROVE Away(a, f)'
    <3>1. a \in Callers \ {g}
      OBVIOUS
    <3> QED
      BY <1>3, <2>0, <3>1, OthersSee
  <2>2. Away(g, f)'
    BY <1>2, <1>8, <1>9 DEF Away, Walking
  <2> QED
    BY <1>6, <1>7, <1>9, <2>0, <2>1, <2>2
<1> QED
  BY <1>10, <1>11, <1>12, <1>13 DEF Followed

\* A step of a Set or a Delete that is under way, unless it makes the file a stray.
LEMMA ManagerAlike ==
    ASSUME SystemTypes, Tasks, started, watcher \in Goroutines, NEW p \in Callers, step[p] # "sweep",
           NEW f \in IDs, f \notin stray', ManagerStep(p)
    PROVE  Alike(p, f) /\ ToldAlike(f)
<1> USE FSWatcherAssumption, ObsManagerAssumption
<1>0. TypeOK /\ TaskTypes
  BY TypesInParts
<1>1. UNCHANGED <<disk, subThere, watcher, watched, queue, task, hand, todo>>
  BY DEF ManagerStep, fileVars, watchVars, taskVars
<1>2. SetStart(p) \/ SetStartFails(p) \/ SetInstall(p) \/ SetUndo(p) \/ Retire(p)
  <2>1. ~StopOne(p)
    BY DEF StopOne
  <2>2. ~StopEnd(p)
    BY DEF StopEnd
  <2>3. ~SetRefused(p)
    BY DEF SetRefused, StillStarted
  <2>4. Proceed(p)
    BY DEF ManagerStep
  <2> QED
    BY ONLY <2>1, <2>2, <2>3, <2>4 DEF Proceed
<1>3. \A q \in Callers \ {p} : step'[q] = step[q] /\ id'[q] = id[q] /\ wanted'[q] = wanted[q]
  <2> DEFINE Others == \A q \in Callers \ {p} :
                         step'[q] = step[q] /\ id'[q] = id[q] /\ wanted'[q] = wanted[q]
  <2>1. CASE Return(p)
    BY <1>0, <2>1 DEF Return, Goto, TypeOK
  <2>2. ASSUME NEW s, Goto(p, s), UNCHANGED <<id, wanted>> PROVE Others
    BY <1>0, <2>2 DEF Goto, TypeOK
  <2> HIDE DEF Others
  <2>3. Return(p) \/ \E s : Goto(p, s) /\ UNCHANGED <<id, wanted>>
    BY <1>2 DEF SetStart, SetStartFails, SetInstall, SetUndo, Retire
  <2> QED
    BY <2>1, <2>2, <2>3 DEF Others
<1>4. Frame(p)
  BY <1>1, <1>3 DEF Frame
<1>5. ToldAlike(f)
  BY <1>1 DEF ToldAlike
<1>6. task[p] # "set"
  BY <1>2 DEF Tasks, SetStart, SetStartFails, SetInstall, SetUndo, Retire
<1>7. /\ Comes(p, f)' <=> Comes(p, f)
      /\ ComesToSub(p)' <=> ComesToSub(p)
      /\ Dropping(f)' <=> Dropping(f)
      /\ Away(p, f) /\ ~Setting(p, f)' => Away(p, f)'
  BY <1>1 DEF Comes, ComesToSub, Dropping, Away, Walking
<1>8. \A c : SettingTo(p, f, c)' => SettingTo(p, f, c)
  <2>1. CASE SetStart(p)
    <3>1. step[p] = "start" /\ id'[p] = id[p] /\ wanted'[p] = wanted[p]
      BY <2>1 DEF SetStart
    <3> QED
      BY <1>1, <1>6, <3>1 DEF SettingTo
  <2>2. CASE ~SetStart(p)
    <3>1. step'[p] \in {"idle", "retire"}
      BY <1>0, <1>2, <2>2 DEF SetStartFails, SetInstall, SetUndo, Retire, Goto, Return, TypeOK
    <3> QED
      BY <1>1, <1>6, <3>1 DEF SettingTo
  <2> QED
    BY <2>1, <2>2
<1>9. ComesAlike(p, f)
  <2>1. ~Setting(p, f) => ~Setting(p, f)'
    BY <1>8 DEF Setting
  <2> QED
    BY <1>7, <2>1 DEF ComesAlike, Away
<1>10. SetsAlike(p, f) /\ MapsAlike(p, f)
  <2>1. CASE SetStart(p)
    <3>1. PICK l \in Listeners : Unused(l) /\ config' = [config EXCEPT ![l] = wanted[p]]
      BY <2>1 DEF SetStart
    <3>2. listenerMap' = listenerMap /\ listenerMap[f] # l
      BY <2>1, <3>1 DEF SetStart, Unused
    <3>3. \A c : Runs(f, c)' <=> Runs(f, c)
      BY <1>0, <3>1, <3>2 DEF Runs, TypeOK, ListenerOrNil
    <3>4. step'[p] = "install" /\ id'[p] = id[p] /\ wanted'[p] = wanted[p]
      BY <1>0, <2>1 DEF SetStart, Goto, TypeOK
    <3>5. \A c : SettingTo(p, f, c) => SettingTo(p, f, c)'
      BY <1>1, <3>4 DEF SettingTo
    <3> QED
      BY <1>7, <1>8, <3>2, <3>3, <3>5 DEF SetsAlike, MapsAlike
  <2>2. CASE SetInstall(p)
    <3>1. /\ step[p] = "install" /\ id[p] \in IDs /\ new[p] \in Listeners
          /\ config[new[p]] = wanted[p] /\ wanted[p] \in Configs
      BY <1>0, <2>2 DEF SetInstall, Tasks, TypeOK
    <3>2. config' = config /\ listenerMap' = [listenerMap EXCEPT ![id[p]] = new[p]]
      BY <2>2 DEF SetInstall
    <3>3. CASE id[p] = f
      <4>1. listenerMap'[f] = new[p] /\ listenerMap'[f] # NoListener
        BY <1>0, <3>1, <3>2, <3>3 DEF TypeOK
      <4>2. PICK d \in Configs : d = wanted[p]
        BY <3>1
      <4>3. Runs(f, d)'
        BY <3>1, <3>2, <4>1, <4>2 DEF Runs
      <4>4. \A c : SettingTo(p, f, c) <=> c = d
        BY <1>6, <3>1, <3>3, <4>2 DEF SettingTo
      <4>5. Setting(p, f)
        BY <4>4 DEF Setting
      <4>6. SetsAlike(p, f)
        BY <1>8, <4>3, <4>4 DEF SetsAlike
      <4> QED
        BY <1>7, <4>3, <4>4, <4>5, <4>6 DEF MapsAlike
    <3>4. CASE id[p] # f
      <4>1. listenerMap'[f] = listenerMap[f]
        BY <1>0, <3>2, <3>4 DEF TypeOK
      <4>2. \A c : Runs(f, c)' <=> Runs(f, c)
        BY <3>2, <4>1 DEF Runs
      <4>3. \A c : ~SettingTo(p, f, c)
        BY <1>6, <3>4 DEF SettingTo
      <4> QED
        BY <1>7, <1>8, <4>1, <4>2, <4>3 DEF SetsAlike, MapsAlike
    <3> QED
      BY <3>3, <3>4
  <2>3. CASE SetStartFails(p) \/ SetUndo(p) \/ Retire(p)
    <3>1. listenerMap' = listenerMap /\ config' = config
      BY <2>3 DEF SetStartFails, SetUndo, Retire
    <3>2. \A c : Runs(f, c)' <=> Runs(f, c)
      BY <3>1 DEF Runs
    <3>3. SetStartFails(p) => id[p] # f
      BY DEF ManagerStep
    <3>4. \A c : ~SettingTo(p, f, c)
      BY <1>6, <2>3, <3>3 DEF SettingTo, SetUndo, Retire
    <3> QED
      BY <1>7, <1>8, <3>1, <3>2, <3>4 DEF SetsAlike, MapsAlike
  <2> QED
    BY <1>2, <2>1, <2>2, <2>3
<1> QED
  BY <1>1, <1>4, <1>5, <1>9, <1>10 DEF Alike

-----------------------------------------------------------------------------
(* Who is where                                                            *)

\* A caller that is in no walk and no removal has nothing in its hands.
LEMMA IdleHands ==
    ASSUME SystemInv, Tasks, NEW p \in Callers, task[p] \in {"none", "select"}
    PROVE  /\ step[p] \in {"idle", "sweep"} /\ ~Walking(p) /\ ~ComesToSub(p)
           /\ \A f : ~Setting(p, f) /\ ~Comes(p, f) /\ Away(p, f)
<1>1. step[p] \in {"idle", "sweep"}
  BY TypesInParts DEF SystemInv, Tasks, TypeOK
<1>2. ~Walking(p) /\ ~ComesToSub(p)
  BY DEF Walking, ComesToSub
<1>3. ASSUME NEW f PROVE ~Setting(p, f) /\ ~Comes(p, f) /\ Away(p, f)
  BY <1>1, <1>2 DEF Setting, SettingTo, Comes, Away
<1> QED
  BY <1>1, <1>2, <1>3

\* Who is in the middle of Start or of Stop is so alone, and walks are for a Start.
LEMMA OneAtATime ==
    ASSUME SystemInv, NEW a \in Walkers, at[a] \notin {"idle", "relock", "stop"}
    PROVE  \A b \in Walkers \ {a} : at[b] \in {"idle", "relock", "stop"} /\ task[b] = "none"
<1>1. CallTypes
  BY TypesInParts DEF SystemInv
<1>2. \A b \in Walkers \ {a} : at[b] \in {"idle", "relock", "stop"}
  BY <1>1 DEF CallTypes
<1> QED
  BY <1>2 DEF SystemInv, Stages

\* Only a walk for a Start and the watcher's goroutine have files in their hands.
LEMMA MoversOnly ==
    ASSUME SystemInv, Tasks, Alone
    PROVE  /\ \A p \in Callers : task[p] \notin {"none", "select"} => p \in Movers
           /\ \A f : OnlyMovers(f)
<1> USE FSWatcherAssumption
<1>1. ASSUME NEW p \in Callers, task[p] \notin {"none", "select"} PROVE p \in Movers
  BY <1>1 DEF Alone, Movers
<1> QED
  BY <1>1, IdleHands DEF OnlyMovers

\* A step that leaves all that the invariant speaks of as it was.
Still ==
    /\ UNCHANGED <<disk, subThere, watcher, watched, queue, task, hand, todo>>
    /\ UNCHANGED <<step, id, wanted, new, listenerMap, config, started, stray>>
    /\ \A a \in Walkers : (at'[a] = "watch" => at[a] = "watch") /\ (at[a] = "walk" => at'[a] = "walk")

LEMMA StillKeeps ==
    ASSUME StepInv, Still
    PROVE  Tasks' /\ Places' /\ WalkAhead' /\ \A f \in IDs \ stray' : Tracked(f)'
<1>0. /\ UNCHANGED <<disk, subThere, watcher, watched, queue, task, hand, todo>>
      /\ UNCHANGED <<step, id, wanted, new, listenerMap, config, started, stray>>
      /\ Begun' => Begun
  BY DEF Still, Begun
<1>1. Tasks' /\ Places'
  BY <1>0 DEF StepInv, Tasks, Places
<1>2. WalkAhead'
  BY <1>0 DEF StepInv, WalkAhead, Still
<1>3. ASSUME NEW f \in IDs PROVE Followed(f)' <=> Followed(f)
  <2>1. /\ WalkedIsThere(f)' <=> WalkedIsThere(f)
        /\ GoneIsTold(f)' <=> GoneIsTold(f)
    BY <1>0 DEF WalkedIsThere, GoneIsTold, Setting, SettingTo, Dropping
  <2>2. ValidIsTold(f)' <=> ValidIsTold(f)
    BY <1>0 DEF ValidIsTold, Told, Nears, Runs, Comes, Walking, SettingTo, Dropping
  <2>3. SubIsTold(f)' <=> SubIsTold(f)
    BY <1>0 DEF SubIsTold, Away, Setting, SettingTo, Walking, Dropping, ComesToSub
  <2> QED
    BY <2>1, <2>2, <2>3 DEF Followed
<1>4. ASSUME NEW f \in IDs \ stray' PROVE Tracked(f)'
  <2>1. Tracked(f)
    BY <1>0 DEF StepInv
  <2>2. (Alone' <=> Alone) /\ (Blank(f)' <=> Blank(f))
    BY <1>0 DEF Alone, Blank
  <2> QED
    BY <1>0, <1>3, <2>1, <2>2 DEF Tracked
<1> QED
  BY <1>1, <1>2, <1>4

\* So do most steps of Start and of Stop.
LEMMA StillSteps ==
    ASSUME SystemInv, NEW a \in Walkers,
           \/ StartCall(a) \/ StopCall(a) \/ Relock(a) \/ Connect(a) \/ ConnectFails(a) \/ Collect(a)
           \/ CollectFails(a) \/ WatchFails(a) \/ Serve(a) \/ ServeFails(a) \/ StopEnters(a) \/ Unserve(a)
           \/ CloseConns(a) \/ (Manage(a) /\ started) \/ (Unwatch(a) /\ at'[a] = "unwatch")
    PROVE  Still
<1>0. CallTypes /\ PlaceTypes
  BY TypesInParts DEF SystemInv
<1>1. /\ UNCHANGED <<disk, subThere, watcher, watched, queue, task, hand, todo>>
      /\ UNCHANGED <<step, id, wanted, new, listenerMap, config, started, stray>>
  <2>1. CASE Unwatch(a) /\ at'[a] = "unwatch"
    <3>1. UNCHANGED <<watcher, watched>>
      BY <1>0, <2>1 DEF CallTypes, Unwatch, StopWatcherBegin, StopWatcherEnd, GoesTo, watchVars
    <3> QED
      BY <2>1, <3>1 DEF Unwatch, vars, callerVars, fileVars, taskVars
  <2>2. CASE CloseConns(a)
    BY <2>2 DEF CloseConns, callerVars, watcherVars, fileVars, watchVars, taskVars
  <2>3. CASE Manage(a) /\ started
    BY <2>3 DEF Manage, vars, callerVars, fileVars, watchVars, taskVars
  <2>4. CASE OthersKeep
    BY <2>4 DEF OthersKeep, vars, callerVars, watcherVars, fileVars, watchVars, taskVars
  <2> QED
    BY <2>1, <2>2, <2>3, <2>4 DEF StartCall, StopCall, Relock, Connect, ConnectFails, Collect,
       CollectFails, WatchFails, Serve, ServeFails, StopEnters, Unserve
<1>2. \/ UNCHANGED at
      \/ \E next \in {"idle", "stop", "connect", "collect", "manage", "walk", "serve", "relock",
                      "unserve", "unwatch", "sweep"} :
           at' = [at EXCEPT ![a] = next] /\ at[a] # "walk"
  BY <1>0 DEF StartCall, StopCall, Relock, Connect, ConnectFails, Collect, CollectFails, WatchFails, Serve,
     ServeFails, StopEnters, Unserve, CloseConns, Manage, Unwatch, Enters, Returns, GoesTo, After
<1>3. \A b \in Walkers : (at'[b] = "watch" => at[b] = "watch") /\ (at[b] = "walk" => at'[b] = "walk")
  BY <1>0, <1>2 DEF CallTypes
<1> QED
  BY <1>1, <1>3 DEF Still

-----------------------------------------------------------------------------
(* The steps of Start and of Stop that reach the watcher or the manager    *)

\* The manager starts: all earlier goroutines have ended, or all files are strays.
LEMMA ManageKeeps ==
    ASSUME StepInv, NEW a \in Walkers, Manage(a), ~started
    PROVE  Tasks' /\ Places' /\ WalkAhead' /\ \A f \in IDs \ stray' : Tracked(f)'
<1> USE FSWatcherAssumption
<1>0. PlaceTypes /\ watcher = NoGoroutine
  BY TypesInParts DEF StepInv, SystemInv, Stages
<1>1. /\ UNCHANGED <<disk, subThere, watcher, watched, queue, task, hand, todo>>
      /\ UNCHANGED <<step, id, wanted, new, listenerMap, config>>
      /\ started' = TRUE
      /\ stray' = IF \E g \in Goroutines : Superseded(g) THEN IDs ELSE {}
  BY DEF Manage, Start, callerVars, fileVars, watchVars, taskVars
<1>2. Tasks'
  BY <1>1 DEF StepInv, Tasks
<1>3. Places' /\ WalkAhead'
  BY <1>0, <1>1 DEF StepInv, Places, WalkAhead
<1>4. ASSUME NEW f \in IDs \ stray' PROVE Tracked(f)'
  <2>1. Alone'
    BY <1>0, <1>1, <1>4 DEF Alone, Superseded
  <2>2. Blank(f)'
    BY <1>0, <1>1 DEF StepInv, Places, Blank
  <2> QED
    BY <1>0, <1>1, <2>1, <2>2 DEF Tracked
<1> QED
  BY <1>2, <1>3, <1>4

\* A watcher is made: its goroutine knows of nothing.
LEMMA WatchKeeps ==
    ASSUME StepInv, NEW a \in Walkers, Watch(a)
    PROVE  Tasks' /\ Places' /\ WalkAhead' /\ \A f \in IDs \ stray' : Tracked(f)'
<1> USE FSWatcherAssumption
<1>0. PlaceTypes /\ TaskTypes /\ CallTypes /\ watcher = NoGoroutine /\ started /\ at[a] = "watch"
  BY TypesInParts DEF StepInv, SystemInv, Stages, Watch
<1>1. PICK g \in Goroutines : task[g] = "none" /\ watcher' = g /\ Becomes(g, "select", <<>>, {})
  BY <1>0 DEF Watch, StartWatcher
<1>2. /\ UNCHANGED <<disk, subThere, watched, queue, started, stray>>
      /\ UNCHANGED <<step, id, wanted, new, listenerMap, config>>
      /\ at' = [at EXCEPT ![a] = "walk"]
  BY <1>0 DEF Watch, StartWatcher, GoesTo, vars, callerVars, fileVars
<1>3. /\ task'[g] = "select"
      /\ \A p \in Callers \ {g} : task'[p] = task[p] /\ todo'[p] = todo[p]
  BY <1>0, <1>1, BecomesSees
<1>4. Tasks'
  BY <1>1, <1>2, <1>3 DEF StepInv, Tasks
<1>5. Places' /\ watched' = {}
  BY <1>0, <1>2 DEF StepInv, Places
<1>6. WalkAhead'
  <2>1. \A b \in Walkers : task[b] = "none"
    BY <1>0, OneAtATime DEF StepInv, SystemInv, Stages
  <2>2. \A b \in Walkers : task'[b] = "none"
    BY <1>3, <2>1
  <2>3. at'[a] = "walk"
    BY <1>0, <1>2 DEF CallTypes
  <2> QED
    BY <2>2, <2>3 DEF WalkAhead
<1>7. ASSUME NEW f \in IDs \ stray' PROVE Tracked(f)'
  <2>1. Alone /\ Blank(f)
    BY <1>0, <1>2, <1>7 DEF StepInv, Tracked, Begun
  <2>2. Alone'
    BY <1>0, <1>1, <1>3, <2>1 DEF Alone
  <2>3. Blank(f)'
    <3>1. queue'[g] = <<>>
      BY <1>1, <1>2 DEF StepInv, Tasks
    <3>2. listenerMap'[f] = NoListener
      BY <1>2, <1>5, <2>1 DEF Blank
    <3> QED
      BY <1>1, <1>3, <1>5, <3>1, <3>2 DEF Blank
  <2> QED
    BY <1>5, <2>2, <2>3 DEF Tracked
<1> QED
  BY <1>4, <1>5, <1>6, <1>7

\* A walk begins, on top of what is watched already when this is another Start's watcher.
LEMMA WalkBeginKeeps ==
    ASSUME StepInv, NEW a \in Walkers, WalkBegin(a)
    PROVE  Tasks' /\ Places' /\ WalkAhead' /\ \A f \in IDs \ stray' : Tracked(f)'
<1> USE FSWatcherAssumption
<1>0. PlaceTypes /\ TaskTypes /\ CallTypes /\ at[a] = "walk" /\ task[a] = "none" /\ a \in Callers
  BY TypesInParts DEF StepInv, SystemInv, Stages, WalkBegin
<1>1. /\ UNCHANGED <<disk, subThere, watcher, watched, queue, started, stray>>
      /\ UNCHANGED <<step, id, wanted, new, listenerMap, config>>
      /\ at' = [at EXCEPT ![a] = "serve"]
  BY DEF WalkBegin, GoesTo, vars, callerVars, fileVars, watchVars
<1>2. /\ task'[a] = "walk" /\ todo'[a] = {Top}
      /\ \A p \in Callers \ {a} :
            task'[p] = task[p] /\ hand'[p] = hand[p] /\ todo'[p] = todo[p]
  BY <1>0, BecomesSees DEF WalkBegin
<1>3. /\ step[a] = "idle" /\ ~Walking(a) /\ ~ComesToSub(a)
      /\ \A f : ~Setting(a, f) /\ ~Comes(a, f) /\ Away(a, f)
  BY <1>0, IdleHands DEF StepInv, SystemInv, Stages
<1>4. Tasks' /\ Places'
  <2>1. \A p \in Callers :
          /\ step[p] \in {"start", "install", "undo", "retire"} => task'[p] \in {"walk", "drop"}
          /\ step[p] \in {"start", "install"} => wanted[p] \in Configs
          /\ step[p] = "install" => new[p] \in Listeners /\ config[new[p]] = wanted[p]
    BY <1>2, <1>3 DEF StepInv, Tasks
  <2>2. \A g \in Goroutines : task'[g] = task[g]
    BY <1>2
  <2>3. watcher # NoGoroutine => watcher \in Goroutines
    BY <1>0 DEF PlaceTypes
  <2> QED
    BY <1>1, <2>1, <2>2, <2>3 DEF StepInv, Tasks, Places
<1>5. WalkAhead'
  <2>1. \A b \in Walkers \ {a} : task'[b] = "none"
    BY <1>0, <1>2, OneAtATime DEF StepInv
  <2> QED
    BY <1>1, <1>2, <1>3, <2>1 DEF WalkAhead
<1>6. Begun' => Begun
  BY <1>0, <1>1 DEF Begun, CallTypes
<1>7. ASSUME NEW f \in IDs \ stray' PROVE Tracked(f)'
  <2>1. Tracked(f)
    BY <1>1, <1>7 DEF StepInv
  <2>2. ASSUME Begun' PROVE Alone' /\ Blank(f)'
    <3>1. Alone /\ Blank(f)
      BY <1>6, <2>1, <2>2 DEF Tracked
    <3>2. \A g \in Goroutines : task'[g] = task[g]
      BY <1>2
    <3>3. watcher # NoGoroutine => watcher \in Goroutines
      BY <1>0 DEF PlaceTypes
    <3> QED
      BY <1>1, <3>1, <3>2, <3>3 DEF Alone, Blank
  <2>3. ASSUME watcher # NoGoroutine, Top \in watched PROVE Followed(f)'
    <3>0. watcher \in Goroutines /\ a \in Movers /\ Followed(f) /\ OnlyMovers(f)
      BY <1>0, <2>1, <2>3, MoversOnly DEF PlaceTypes, Movers, Tracked, Begun, StepInv
    <3>1. Frame(a) /\ ToldAlike(f)
      BY <1>1, <1>2 DEF Frame, ToldAlike
    <3>2. ~Setting(a, f)'
      BY <1>1, <1>2, <1>3 DEF Setting, SettingTo
    <3>3. SetsAlike(a, f)
      BY <1>3, <3>2 DEF SetsAlike, Setting
    <3>4. Away(a, f)'
      BY <1>2, <3>2 DEF Away, Walking
    <3>5. ComesAlike(a, f)
      BY <1>3, <3>4 DEF ComesAlike
    <3>6. (Dropping(f)' <=> Dropping(f)) /\ \A c : Runs(f, c)' <=> Runs(f, c)
      BY <1>1, <1>2, <3>0 DEF Dropping, Runs
    <3>7. MapsAlike(a, f)
      BY <1>1, <3>2, <3>6 DEF MapsAlike
    <3>8. Alike(a, f)
      BY <1>1, <3>1, <3>3, <3>5, <3>7 DEF Alike
    <3> QED
      BY <1>7, <3>0, <3>1, <3>8, AlikeKeeps
  <2> QED
    BY <1>1, <2>2, <2>3 DEF Tracked
<1> QED
  BY <1>4, <1>5, <1>7

\* The watcher is stopped, or the manager's Stop begins: nothing is followed.
LEMMA StopKeeps ==
    ASSUME StepInv, NEW a \in Walkers, (Unwatch(a) /\ at'[a] # "unwatch") \/ Sweep(a)
    PROVE  Tasks' /\ Places' /\ WalkAhead' /\ \A f \in IDs \ stray' : Tracked(f)'
<1> USE FSWatcherAssumption
<1>0. TypeOK /\ PlaceTypes /\ CallTypes /\ at[a] \in {"unwatch", "sweep"}
  BY TypesInParts DEF StepInv, SystemInv, Unwatch, Sweep
<1>1. /\ UNCHANGED <<disk, subThere, queue, task, hand, todo, stray>>
      /\ UNCHANGED <<id, wanted, new, listenerMap, config, started>>
      /\ \E next \in {"sweep", "close"} : at' = [at EXCEPT ![a] = next]
      /\ \A p \in Callers : step'[p] = step[p] \/ step'[p] = "sweep"
  <2>1. CASE Unwatch(a) /\ at'[a] # "unwatch"
    <3>1. at' = [at EXCEPT ![a] = "sweep"]
      BY <1>0, <2>1 DEF Unwatch, GoesTo, CallTypes
    <3> QED
      BY <2>1, <3>1 DEF Unwatch, vars, callerVars, fileVars, taskVars
  <2>2. CASE Sweep(a)
    <3>1. UNCHANGED vars \/ StopBegin(a)
      BY <2>2 DEF Sweep
    <3>2. /\ UNCHANGED <<id, wanted, new, listenerMap, config, started>>
          /\ \A p \in Callers : step'[p] = step[p] \/ step'[p] = "sweep"
      BY <1>0, <3>1 DEF StopBegin, Goto, vars, callerVars, TypeOK
    <3> QED
      BY <2>2, <3>2 DEF Sweep, GoesTo, watcherVars, fileVars, taskVars
  <2> QED
    BY <2>1, <2>2
<1>2. watcher' = NoGoroutine /\ watched' = {}
  <2>1. CASE watcher = NoGoroutine
    BY <2>1 DEF Unwatch, Sweep, StopWatcherBegin, StopWatcherEnd, watcherVars, watchVars, StepInv, Places
  <2>2. CASE watcher # NoGoroutine
    <3>1. Unwatch(a) /\ at'[a] # "unwatch"
      BY <2>2 DEF StepInv, SystemInv, Stages, Sweep
    <3> QED
      BY <1>0, <2>2, <3>1 DEF Unwatch, StopWatcherBegin, StopWatcherEnd, GoesTo, CallTypes
  <2> QED
    BY <2>1, <2>2
<1>3. Tasks' /\ Places' /\ WalkAhead'
  BY <1>1, <1>2 DEF StepInv, Tasks, Places, WalkAhead
<1>4. ~Begun'
  <2>1. \A b \in Walkers \ {a} : at[b] # "watch"
    BY <1>0, OneAtATime DEF StepInv
  <2>2. \A b \in Walkers : at'[b] # "watch"
    BY <1>0, <1>1, <2>1 DEF CallTypes
  <2> QED
    BY <1>2, <2>2 DEF Begun
<1> QED
  BY <1>2, <1>3, <1>4 DEF Tracked

-----------------------------------------------------------------------------
(* The steps of walks and of goroutines                                    *)

\* What such a step may do outside of the caller's own task.
Moves(p) ==
    /\ UNCHANGED <<disk, subThere, watcher, config, new, started, stray>>
    /\ \A q \in Callers \ {p} :
         /\ task'[q] = task[q] /\ hand'[q] = hand[q] /\ todo'[q] = todo[q]
         /\ step'[q] = step[q] /\ id'[q] = id[q] /\ wanted'[q] = wanted[q]
    /\ \A g \in Goroutines \ {p} : queue'[g] = queue[g]
    /\ watched \subseteq watched' /\ (watcher = NoGoroutine => watched' = watched)
    /\ task[p] # "none" /\ step[p] = "idle"
    /\ \/ step'[p] = "idle"
       \/ step'[p] = "start" /\ task'[p] = "walk" /\ wanted'[p] \in Configs
       \/ step'[p] = "retire" /\ task'[p] = "drop"
    /\ task'[p] = "none" => p \in Walkers \/ (p # watcher /\ queue'[p] = <<>>)
    /\ ~started => listenerMap' = listenerMap

LEMMA WalkMoves ==
    ASSUME SystemTypes, NEW p \in Callers, WalkStep(p) \/ WalkEnd(p)
    PROVE  Moves(p)
<1> USE FSWatcherAssumption
<1>0. TypeOK /\ TaskTypes /\ PlaceTypes
  BY TypesInParts
<1>1. step[p] = "idle" /\ task[p] # "none"
  BY DEF WalkStep, WalkDirectory, WalkList, WalkRead, WalkSet, WalkEnd, InTask
<1>2. /\ UNCHANGED <<disk, subThere, watcher, queue, stray>>
      /\ watched \subseteq watched' /\ (watcher = NoGoroutine => watched' = watched)
  BY DEF WalkStep, WalkDirectory, WalkList, WalkRead, WalkSet, WalkEnd, Watches, fileVars, watchVars
<1>3. PICK t, h, paths :
        /\ Becomes(p, t, h, paths)
        /\ t = "none" => p \in Walkers
        /\ WalkSet(p) => t = "walk"
  <2>1. CASE WalkDirectory(p)
    <3>1. ~WalkSet(p)
      BY <2>1 DEF WalkDirectory, WalkSet, InTask
    <3>2. PICK d : Becomes(p, "list", d, todo[p] \ {d})
      BY <2>1 DEF WalkDirectory
    <3> QED
      BY <3>1, <3>2
  <2>2. CASE WalkList(p) \/ WalkRead(p)
    <3>1. ~WalkSet(p)
      BY <2>2 DEF WalkList, WalkRead, WalkSet, InTask
    <3>2. \E t \in {"walk", "set"} : \E h, paths : Becomes(p, t, h, paths)
      <4>1. CASE WalkList(p)
        BY <4>1 DEF WalkList
      <4>2. CASE WalkRead(p)
        <5>1. PICK f \in todo[p] \cap IDs :
                \/ Becomes(p, "set", <<f, disk[f]>>, todo[p] \ {f})
                \/ Becomes(p, "walk", <<>>, todo[p] \ {f})
          BY <4>2 DEF WalkRead
        <5> QED
          BY <5>1
      <4> QED
        BY <2>2, <4>1, <4>2
    <3> QED
      BY <3>1, <3>2
  <2>3. CASE WalkSet(p)
    BY <2>3 DEF WalkSet
  <2>4. CASE WalkEnd(p)
    BY <2>4 DEF WalkEnd, WalkSet, InTask
  <2> QED
    BY <2>1, <2>2, <2>3, <2>4 DEF WalkStep
<1>4. /\ task'[p] = t
      /\ \A q \in Callers \ {p} :
           task'[q] = task[q] /\ hand'[q] = hand[q] /\ todo'[q] = todo[q]
  BY <1>0, <1>3, BecomesSees
<1>5. \/ UNCHANGED vars
      \/ \E i, c : SetLook(p, i, c) /\ c \in Configs /\ WalkSet(p)
  <2>1. CASE WalkSet(p)
    <3>1. hand[p] \in IDs \X Configs
      BY <2>1 DEF WalkSet, InTask, SystemTypes, InHand
    <3>2. hand[p][2] \in Configs
      BY <3>1
    <3> QED
      BY <2>1, <3>2 DEF WalkSet
  <2>2. CASE ~WalkSet(p)
    BY <2>2 DEF WalkStep, WalkDirectory, WalkList, WalkRead, WalkEnd
  <2> QED
    BY <2>1, <2>2
<1>6. /\ UNCHANGED <<config, new, started, listenerMap>>
      /\ \A q \in Callers \ {p} : step'[q] = step[q] /\ id'[q] = id[q] /\ wanted'[q] = wanted[q]
      /\ \/ step'[p] = "idle"
         \/ step'[p] = "start" /\ wanted'[p] \in Configs /\ WalkSet(p)
  <2>1. CASE UNCHANGED vars
    BY <1>1, <2>1 DEF vars, callerVars
  <2>2. ASSUME NEW i, NEW c \in Configs, SetLook(p, i, c), WalkSet(p)
        PROVE  /\ UNCHANGED <<config, new, started, listenerMap>>
               /\ \A q \in Callers \ {p} : step'[q] = step[q] /\ id'[q] = id[q] /\ wanted'[q] = wanted[q]
               /\ step'[p] = "start" /\ wanted'[p] \in Configs
    BY <1>0, <2>2 DEF SetLook, Goto, TypeOK
  <2> QED
    BY <1>5, <2>1, <2>2
<1> QED
  BY <1>1, <1>2, <1>3, <1>4, <1>6 DEF Moves

LEMMA GoroutineMoves ==
    ASSUME SystemTypes, NEW g \in Goroutines, GoroutineStep(g)
    PROVE  Moves(g)
<1> USE FSWatcherAssumption
<1>0. TypeOK /\ TaskTypes /\ PlaceTypes /\ g \in Callers
  BY TypesInParts
<1>1. CASE WalkStep(g) \/ WalkEnd(g)
  BY <1>0, <1>1, WalkMoves
<1>2. CASE TakeWrite(g) \/ TakeRemove(g) \/ TakeRename(g) \/ DropOne(g) \/ DropEnd(g) \/ Exit(g)
  <2>1. step[g] = "idle" /\ task[g] # "none"
    BY <1>2 DEF TakeWrite, TakeRemove, TakeRename, TakeEvent, DropOne, DropEnd, Exit, InTask
  <2>2. UNCHANGED <<disk, subThere, watcher, watched, stray>>
    BY <1>2 DEF TakeWrite, TakeRemove, TakeRename, TakeEvent, DropOne, DropEnd, Exit, fileVars, watchVars
  <2>3. \A k \in Goroutines \ {g} : queue'[k] = queue[k]
    <3>1. UNCHANGED queue \/ \E s : queue' = [queue EXCEPT ![g] = s]
      BY <1>2 DEF TakeWrite, TakeRemove, TakeRename, TakeEvent, DropOne, DropEnd, Exit
    <3> QED
      BY <1>0, <3>1 DEF PlaceTypes
  <2>4. /\ task'[g] = "none" => g # watcher /\ queue'[g] = <<>>
        /\ DropOne(g) => task'[g] = "drop"
        /\ \A q \in Callers \ {g} :
             task'[q] = task[q] /\ hand'[q] = hand[q] /\ todo'[q] = todo[q]
    <3>1. CASE TakeRename(g)
      BY <2>1, <3>1 DEF TakeRename, TakeEvent, DropOne, InTask, taskVars
    <3>2. CASE Exit(g)
      <4>1. /\ task'[g] = "none" /\ g # watcher
            /\ \A q \in Callers \ {g} :
                 task'[q] = task[q] /\ hand'[q] = hand[q] /\ todo'[q] = todo[q]
        BY <1>0, <3>2, BecomesSees DEF Exit, Superseded
      <4>2. queue'[g] = <<>>
        BY <1>0, <3>2 DEF Exit, PlaceTypes
      <4>3. ~DropOne(g)
        BY <3>2 DEF Exit, DropOne, InTask
      <4> QED
        BY <4>1, <4>2, <4>3
    <3>3. CASE TakeWrite(g) \/ TakeRemove(g) \/ DropOne(g) \/ DropEnd(g)
      <4>1. PICK t, paths :
              /\ t \in {"walk", "drop", "select"}
              /\ Becomes(g, t, <<>>, paths)
              /\ DropOne(g) => t = "drop"
        <5>1. CASE DropOne(g)
          BY <5>1 DEF DropOne
        <5>2. CASE ~DropOne(g)
          BY <3>3, <5>2 DEF TakeWrite, TakeRemove, DropEnd
        <5> QED
          BY <5>1, <5>2
      <4>2. /\ task'[g] = t
            /\ \A q \in Callers \ {g} :
                 task'[q] = task[q] /\ hand'[q] = hand[q] /\ todo'[q] = todo[q]
        BY <1>0, <4>1, BecomesSees
      <4> QED
        BY <4>1, <4>2
    <3> QED
      BY <1>2, <3>1, <3>2, <3>3
  <2>5. UNCHANGED vars \/ \E i : DeleteLook(g, i) /\ DropOne(g)
    BY <1>2 DEF TakeWrite, TakeRemove, TakeRename, TakeEvent, DropOne, DropEnd, Exit
  <2>6. /\ UNCHANGED <<config, new, started>> /\ (~started => listenerMap' = listenerMap)
        /\ \A q \in Callers \ {g} : step'[q] = step[q] /\ id'[q] = id[q] /\ wanted'[q] = wanted[q]
        /\ step'[g] = "idle" \/ (step'[g] = "retire" /\ DropOne(g))
    <3>1. CASE UNCHANGED vars
      BY <2>1, <3>1 DEF vars, callerVars
    <3>2. ASSUME NEW i, DeleteLook(g, i), DropOne(g)
          PROVE  /\ UNCHANGED <<config, new, started>> /\ started
                 /\ \A q \in Callers \ {g} : step'[q] = step[q] /\ id'[q] = id[q] /\ wanted'[q] = wanted[q]
                 /\ step'[g] = "retire"
      BY <1>0, <3>2 DEF DeleteLook, Goto, TypeOK
    <3> QED
      BY <2>5, <3>1, <3>2
  <2> QED
    BY <2>1, <2>2, <2>3, <2>4, <2>6 DEF Moves
<1> QED
  BY <1>1, <1>2 DEF GoroutineStep

LEMMA MovesKeep ==
    ASSUME StepInv, NEW p \in Callers, Moves(p)
    PROVE  Tasks' /\ Places'
<1> USE FSWatcherAssumption
<1>0. PlaceTypes
  BY TypesInParts DEF StepInv, SystemInv
<1>1. \A q \in Callers :
        /\ step'[q] \in {"start", "install", "undo", "retire"} => task'[q] \in {"walk", "drop"}
        /\ step'[q] \in {"start", "install"} => wanted'[q] \in Configs
        /\ step'[q] = "install" => new[q] \in Listeners /\ config[new[q]] = wanted'[q]
  BY DEF StepInv, Tasks, Moves
<1>2. \A g \in Goroutines : task'[g] = "none" => queue'[g] = <<>>
  BY DEF StepInv, Tasks, Moves
<1>3. watcher # NoGoroutine => task'[watcher] # "none"
  BY <1>0 DEF StepInv, Tasks, Moves, PlaceTypes
<1>4. Tasks'
  BY <1>1, <1>2, <1>3 DEF Tasks, Moves
<1>5. Places'
  BY DEF StepInv, Places, Moves
<1> QED
  BY <1>4, <1>5

\* The walk that is ahead of a watcher begins with the directory, which it watches first.
LEMMA FirstWalk ==
    ASSUME StepInv, watcher # NoGoroutine, Top \notin watched, NEW a \in Walkers, WalkStep(a) \/ WalkEnd(a)
    PROVE  /\ WalkDirectory(a) /\ Top \in watched'
           /\ watched = {} => watched' = {Top}
           /\ task'[a] = "list" /\ hand'[a] = Top /\ todo'[a] = {}
           /\ step[a] = "idle"
<1> USE FSWatcherAssumption
<1>0. TaskTypes /\ a \in Callers
  BY TypesInParts DEF StepInv, SystemInv
<1>1. task[a] = "walk" /\ todo[a] = {Top} /\ step[a] = "idle"
  BY DEF StepInv, WalkAhead, WalkStep, WalkDirectory, WalkList, WalkRead, WalkSet, WalkEnd, InTask
<1>2. WalkDirectory(a)
  BY <1>1 DEF WalkStep, WalkDirectory, WalkList, WalkRead, WalkSet, WalkEnd, InTask
<1>3. Becomes(a, "list", Top, todo[a] \ {Top}) /\ watched' = watched \cup {Top}
  BY <1>1, <1>2 DEF WalkDirectory, Watches
<1>4. task'[a] = "list" /\ hand'[a] = Top /\ todo'[a] = todo[a] \ {Top}
  BY <1>0, <1>3, BecomesSees
<1> QED
  BY <1>1, <1>2, <1>3, <1>4

\* From there on a file is followed.
LEMMA FirstFollowed ==
    ASSUME StepInv, watcher # NoGoroutine, Top \notin watched, NEW a \in Walkers,
           WalkStep(a) \/ WalkEnd(a), NEW f \in IDs, Alone, Blank(f)
    PROVE  Followed(f)'
<1> USE FSWatcherAssumption
<1>0. /\ PlaceTypes /\ TaskTypes /\ SystemInv /\ Tasks /\ watcher \in Goroutines
      /\ a \in Callers /\ watcher \in Callers /\ a # watcher
  BY TypesInParts DEF StepInv, SystemInv, PlaceTypes
<1>1. /\ WalkDirectory(a) /\ watched' = {Top}
      /\ task'[a] = "list" /\ hand'[a] = Top /\ todo'[a] = {} /\ step[a] = "idle"
      /\ listenerMap[f] = NoListener /\ queue[watcher] = <<>> /\ task[watcher] = "select"
  BY FirstWalk DEF Blank
<1>2. Moves(a)
  BY <1>0, WalkMoves DEF SystemInv
<1>3. UNCHANGED <<disk, subThere, watcher, queue, listenerMap, step>>
  BY <1>1 DEF WalkDirectory, fileVars, vars, callerVars
<1>4. at[a] = "serve"
  BY <1>0, <1>1 DEF SystemInv, Stages, WalkDirectory, InTask
<1>5. \A p \in Callers \ {a} : task[p] \in {"none", "select"}
  BY <1>0, <1>1, <1>4, OneAtATime DEF Alone
<1>6. \A p \in Callers : ~Setting(p, f)'
  <2>1. ~Setting(a, f)'
    BY <1>1, <1>3 DEF Setting, SettingTo
  <2>2. ASSUME NEW p \in Callers \ {a} PROVE ~Setting(p, f)'
    <3>1. ~Setting(p, f)
      BY <1>0, <1>5, IdleHands
    <3> QED
      BY <1>2, <3>1 DEF Moves, Setting, SettingTo
  <2> QED
    BY <2>1, <2>2
<1>7. \A p \in Callers \ {a} : task'[p] \in {"none", "select"}
  BY <1>2, <1>5 DEF Moves
<1>8. \A p \in Callers : Away(p, f)'
  <2>1. Away(a, f)'
    BY <1>1, <1>6 DEF Away
  <2>2. \A p \in Callers \ {a} : Away(p, f)'
    BY <1>6, <1>7 DEF Away, Walking
  <2> QED
    BY <2>1, <2>2
<1>9. Comes(a, f)' /\ ComesToSub(a)' /\ ~Dropping(f)'
  BY <1>0, <1>1, <1>3, <1>7 DEF Comes, ComesToSub, Dropping
<1>10. /\ NoRemoval(queue'[watcher], f)
       /\ \A name : Overtaken(queue'[watcher], f, name)
  BY <1>1, <1>3 DEF NoRemoval, Overtaken
<1>11. WalkedIsThere(f)' /\ GoneIsTold(f)'
  BY <1>1, <1>3, <1>6 DEF WalkedIsThere, GoneIsTold, Setting
<1>12. ValidIsTold(f)'
  <2>1. \A p \in Callers : \A d \in Configs : ~SettingTo(p, f, d)'
    BY <1>6 DEF Setting
  <2>2. \A c \in Configs : Nears(f, c)'
    BY <1>0, <1>3, <1>9, <1>10, <2>1 DEF Nears
  <2> QED
    BY <2>2 DEF ValidIsTold
<1>13. SubIsTold(f)'
  BY <1>0, <1>1, <1>3, <1>8, <1>9, <1>10 DEF SubIsTold
<1> QED
  BY <1>11, <1>12, <1>13 DEF Followed

LEMMA WalksKeep ==
    ASSUME StepInv, NEW a \in Walkers, WalkStep(a) \/ WalkEnd(a), UNCHANGED at
    PROVE  Tasks' /\ Places' /\ WalkAhead' /\ \A f \in IDs \ stray' : Tracked(f)'
<1> USE FSWatcherAssumption
<1>0. PlaceTypes /\ SystemTypes /\ SystemInv /\ Tasks /\ Places /\ a \in Callers
  BY TypesInParts DEF StepInv, SystemInv
<1>1. Moves(a)
  BY <1>0, WalkMoves
<1>2. Tasks' /\ Places'
  BY <1>0, <1>1, MovesKeep
<1>3. WalkAhead'
  BY <1>1, FirstWalk DEF WalkAhead, Moves
<1>4. ASSUME NEW f \in IDs \ stray' PROVE Tracked(f)'
  <2>1. Tracked(f) /\ (Begun' <=> Begun)
    BY <1>1, <1>4 DEF StepInv, Moves, Begun
  <2>2. at[a] = "serve" /\ a \notin Goroutines
    BY <1>0, <1>1 DEF SystemInv, Stages, Moves
  <2>3. Begun => watcher \in Goroutines
    BY <1>0, <2>2, OneAtATime DEF Begun, PlaceTypes
  <2>4. ASSUME Begun' PROVE Alone'
    BY <1>1, <2>1, <2>2, <2>4 DEF Tracked, Alone, Moves
  <2>5. ASSUME watcher # NoGoroutine, Top \in watched PROVE Followed(f)'
    <3>1. /\ watcher \in Goroutines /\ a \in Movers /\ Followed(f) /\ OnlyMovers(f) /\ started
      BY <1>0, <2>1, <2>5, MoversOnly DEF PlaceTypes, Movers, Tracked, Begun, SystemInv, Stages
    <3>2. Alike(a, f) /\ ToldAlike(f)
      BY <1>0, <1>4, <3>1, WalkDirectoryAlike, WalkListAlike, WalkReadAlike, WalkSetAlike, WalkEndAlike
         DEF WalkStep
    <3> QED
      BY <1>4, <3>1, <3>2, AlikeKeeps
  <2>6. ASSUME watcher # NoGoroutine, Top \notin watched PROVE Top \in watched' /\ Followed(f)'
    <3>1. Alone /\ Blank(f)
      BY <2>1, <2>6 DEF Tracked, Begun
    <3> QED
      BY <1>4, <2>6, <3>1, FirstWalk, FirstFollowed
  <2>7. watcher' = watcher /\ watched \subseteq watched'
    BY <1>1 DEF Moves
  <2>8. Begun' => Blank(f)'
    BY <2>1, <2>3, <2>6, <2>7 DEF Blank
  <2> QED
    BY <2>4, <2>5, <2>6, <2>7, <2>8 DEF Tracked
<1> QED
  BY <1>2, <1>3, <1>4

LEMMA WorksKeep ==
    ASSUME StepInv, NEW g \in Goroutines, GoroutineStep(g), UNCHANGED at
    PROVE  Tasks' /\ Places' /\ WalkAhead' /\ \A f \in IDs \ stray' : Tracked(f)'
<1> USE FSWatcherAssumption
<1>0. PlaceTypes /\ SystemTypes /\ SystemInv /\ Tasks /\ Places /\ g \in Callers /\ g \notin Walkers
  BY TypesInParts DEF StepInv, SystemInv
<1>1. Moves(g)
  BY <1>0, GoroutineMoves
<1>2. Tasks' /\ Places'
  BY <1>0, <1>1, MovesKeep
<1>3. WalkAhead'
  BY <1>0, <1>1 DEF StepInv, WalkAhead, Moves
<1>4. ASSUME NEW f \in IDs \ stray' PROVE Tracked(f)'
  <2>1. Tracked(f) /\ (Begun' <=> Begun) /\ watcher' = watcher /\ watched \subseteq watched'
    BY <1>1, <1>4 DEF StepInv, Moves, Begun
  <2>2. CASE ~Begun
    BY <2>1, <2>2 DEF Tracked, Begun
  <2>3. CASE Begun
    <3>1. Alone /\ Blank(f)
      BY <2>1, <2>3 DEF Tracked
    <3>2. watcher = g
      BY <1>1, <3>1 DEF Alone, Moves
    <3>3. Alone'
      BY <1>0, <1>1, <3>1, <3>2 DEF Alone, Moves
    <3>4. Top \in watched
      <4>1. ASSUME Top \notin watched PROVE FALSE
        <5>1. queue[g] = <<>> /\ task[g] = "select"
          BY <1>0, <3>1, <3>2, <4>1 DEF Blank
        <5> QED
          BY <3>2, <5>1 DEF GoroutineStep, WalkStep, WalkDirectory, WalkList, WalkRead, WalkSet, WalkEnd,
             TakeWrite, TakeRemove, TakeRename, TakeEvent, DropOne, DropEnd, Exit, Superseded, InTask
      <4> QED
        BY <4>1
    <3>5. /\ g \in Movers /\ Followed(f) /\ OnlyMovers(f) /\ started
      BY <1>0, <2>1, <3>1, <3>2, <3>4, MoversOnly DEF Movers, Tracked, SystemInv, Stages
    <3>6. CASE Alike(g, f) /\ ToldAlike(f)
      <4>1. Followed(f)'
        BY <1>4, <3>2, <3>5, <3>6, AlikeKeeps
      <4> QED
        BY <2>1, <3>3, <3>4, <4>1 DEF Tracked, Blank
    <3>7. CASE Followed(f)'
      BY <2>1, <3>3, <3>4, <3>7 DEF Tracked, Blank
    <3>8. CASE WalkStep(g) \/ WalkEnd(g)
      BY <1>0, <1>4, <3>2, <3>5, <3>6, <3>8, WalkDirectoryAlike, WalkListAlike, WalkReadAlike,
         WalkSetAlike, WalkEndAlike DEF WalkStep
    <3>9. CASE DropOne(g) \/ DropEnd(g) \/ TakeRename(g)
      BY <1>0, <1>4, <3>2, <3>5, <3>6, <3>9, DropOneAlike, DropEndAlike, TakeElse
    <3>10. CASE TakeWrite(g) \/ TakeRemove(g)
      BY <1>0, <1>4, <3>2, <3>5, <3>6, <3>7, <3>10, TakeElse, TakeWriteKeeps, TakeRemoveKeeps
    <3>11. ~Exit(g)
      BY <3>2 DEF Exit, Superseded
    <3> QED
      BY <3>8, <3>9, <3>10, <3>11 DEF GoroutineStep
  <2> QED
    BY <2>2, <2>3
<1> QED
  BY <1>2, <1>3, <1>4

-----------------------------------------------------------------------------
(* The manager's steps                                                     *)

LEMMA ProceedMoves ==
    ASSUME SystemInv, Tasks, Places, NEW p \in Callers, ManagerStep(p)
    PROVE  /\ UNCHANGED <<disk, subThere, watcher, watched, queue, task, hand, todo>>
           /\ \A q \in Callers \ {p} : step'[q] = step[q]
           /\ step[p] # "idle" /\ (step[p] # "sweep" => task[p] \in {"walk", "drop"})
           /\ stray \subseteq stray'
           /\ Tasks' /\ Places'
<1> USE ObsManagerAssumption
<1>0. TypeOK /\ PlaceTypes
  BY TypesInParts DEF SystemInv
<1>1. /\ UNCHANGED <<disk, subThere, watcher, watched, queue, task, hand, todo>>
      /\ stray \subseteq stray'
  BY DEF ManagerStep, fileVars, watchVars, taskVars
<1>2. step[p] # "idle" /\ (step[p] # "sweep" => task[p] \in {"walk", "drop"})
  <2>1. step[p] \in {"start", "install", "undo", "retire", "sweep"}
    BY DEF ManagerStep, Proceed, StopOne, StopEnd, SetStart, SetStartFails, SetInstall, SetRefused,
       SetUndo, Retire
  <2> QED
    BY <2>1 DEF Tasks
<1>3. Proceed(p)
  BY DEF ManagerStep
\* What the others want, have and will install is as before.
<1>4. /\ \A q \in Callers \ {p} : step'[q] = step[q] /\ wanted'[q] = wanted[q] /\ new'[q] = new[q]
      /\ \A q \in Callers \ {p} : new[q] \in Listeners => config'[new[q]] = config[new[q]]
      /\ step'[p] \in {"start", "install", "undo", "retire"} =>
           step[p] \in {"start", "install", "undo", "retire"}
      /\ step'[p] # "start"
      /\ step'[p] = "install" =>
           wanted'[p] \in Configs /\ new'[p] \in Listeners /\ config'[new'[p]] = wanted'[p]
      /\ ~started' => \A f \in IDs : listenerMap'[f] = NoListener
  <2> DEFINE Goal ==
        /\ \A q \in Callers \ {p} : step'[q] = step[q] /\ wanted'[q] = wanted[q] /\ new'[q] = new[q]
        /\ \A q \in Callers \ {p} : new[q] \in Listeners => config'[new[q]] = config[new[q]]
        /\ step'[p] \in {"start", "install", "undo", "retire"} =>
             step[p] \in {"start", "install", "undo", "retire"}
        /\ step'[p] # "start"
        /\ step'[p] = "install" =>
             wanted'[p] \in Configs /\ new'[p] \in Listeners /\ config'[new'[p]] = wanted'[p]
        /\ ~started' => \A f \in IDs : listenerMap'[f] = NoListener
  <2>1. ASSUME SetStart(p) PROVE Goal
    <3>1. PICK l \in Listeners :
            /\ Unused(l)
            /\ config' = [config EXCEPT ![l] = wanted[p]]
            /\ new' = [new EXCEPT ![p] = l]
      BY <2>1 DEF SetStart
    <3>2. /\ step[p] = "start" /\ step' = [step EXCEPT ![p] = "install"]
          /\ UNCHANGED <<started, listenerMap, wanted>>
      BY <2>1 DEF SetStart, Goto
    <3>3. \A q \in Callers : new[q] # l
      BY <3>1 DEF Unused
    <3>4. wanted[p] \in Configs
      BY <3>2 DEF Tasks
    <3> QED
      BY <1>0, <3>1, <3>2, <3>3, <3>4 DEF Places, TypeOK
  <2>2. ASSUME StopOne(p) PROVE Goal
    BY <1>0, <2>2 DEF StopOne, callerVars, Places
  <2>3. ASSUME StopEnd(p) PROVE Goal
    BY <1>0, <2>3 DEF StopEnd, Return, Goto, TypeOK
  <2>4. ASSUME SetStartFails(p) \/ SetUndo(p) \/ Retire(p) PROVE Goal
    <3>1. /\ UNCHANGED <<started, listenerMap, config>> /\ Return(p)
          /\ step[p] \in {"start", "undo", "retire"}
      BY <2>4 DEF SetStartFails, SetUndo, Retire
    <3> QED
      BY <1>0, <3>1 DEF Return, Goto, Places, TypeOK
  <2>5. ASSUME SetRefused(p) PROVE Goal
    BY <1>0, <2>5 DEF SetRefused, Goto, Places, TypeOK
  <2>6. ASSUME SetInstall(p) PROVE Goal
    <3>1. started /\ started' = started /\ config' = config /\ step[p] = "install"
      BY <2>6 DEF SetInstall, StillStarted
    <3>2. CASE Return(p)
      BY <1>0, <3>1, <3>2 DEF Return, Goto, TypeOK
    <3>3. CASE Goto(p, "retire") /\ UNCHANGED <<id, wanted, new, old>>
      BY <1>0, <3>1, <3>3 DEF Goto, TypeOK
    <3> QED
      BY <2>6, <3>2, <3>3 DEF SetInstall
  <2> HIDE DEF Goal
  <2>7. Goal
    BY <1>3, <2>1, <2>2, <2>3, <2>4, <2>5, <2>6 DEF Proceed
  <2> QED
    BY <2>7 DEF Goal
<1>5. Tasks'
  BY <1>1, <1>4 DEF Tasks
<1>6. Places'
  BY <1>1, <1>4 DEF Places
<1> QED
  BY <1>1, <1>2, <1>4, <1>5, <1>6

LEMMA ProceedKeeps ==
    ASSUME StepInv, NEW p \in Callers, ManagerStep(p), UNCHANGED at
    PROVE  Tasks' /\ Places' /\ WalkAhead' /\ \A f \in IDs \ stray' : Tracked(f)'
<1> USE FSWatcherAssumption
<1>0. PlaceTypes /\ SystemTypes /\ SystemInv /\ Tasks /\ Places
  BY TypesInParts DEF StepInv, SystemInv
<1>1. /\ UNCHANGED <<disk, subThere, watcher, watched, queue, task, hand, todo, at>>
      /\ \A q \in Callers \ {p} : step'[q] = step[q]
      /\ step[p] # "idle" /\ (step[p] # "sweep" => task[p] \in {"walk", "drop"})
      /\ stray \subseteq stray'
      /\ Tasks' /\ Places'
  BY <1>0, ProceedMoves
\* A Stop has no watcher by now, and nobody is about to make one.
<1>2. ASSUME step[p] = "sweep" PROVE watcher = NoGoroutine /\ ~Begun
  <2>1. p \in Walkers /\ at[p] = "close" /\ watcher = NoGoroutine
    BY <1>0, <1>2 DEF SystemInv, Stages
  <2> QED
    BY <1>0, <2>1, OneAtATime DEF Begun
\* Before the walk nobody is in the manager.
<1>3. ASSUME step[p] # "sweep", Begun, Alone, NEW f, Blank(f)
      PROVE  watcher # NoGoroutine /\ Top \in watched
  <2>1. p \in Movers /\ task[p] \in {"walk", "drop"}
    BY <1>0, <1>1, <1>3, MoversOnly
  <2>2. ASSUME watcher = NoGoroutine PROVE FALSE
    <3>1. PICK a \in Walkers : at[a] = "watch"
      BY <1>3, <2>2 DEF Begun
    <3>2. task[a] = "none"
      BY <1>0, <3>1 DEF SystemInv, Stages
    <3>3. p \in Walkers
      BY <1>1, <2>1, <2>2 DEF Movers
    <3> QED
      BY <1>0, <2>1, <3>1, <3>2, <3>3, OneAtATime
  <2>3. ASSUME watcher # NoGoroutine, Top \notin watched PROVE FALSE
    <3>1. p \in Walkers
      BY <1>3, <2>1, <2>3 DEF Movers, Blank
    <3> QED
      BY <1>1, <2>1, <2>3, <3>1 DEF StepInv, WalkAhead
  <2> QED
    BY <2>2, <2>3
<1>4. WalkAhead'
  <2> SUFFICES ASSUME watcher # NoGoroutine, Top \notin watched
               PROVE  /\ \A a \in Walkers : task[a] # "none" =>
                           task[a] = "walk" /\ todo[a] = {Top} /\ step'[a] = "idle"
                      /\ \E a \in Walkers : at[a] = "walk" \/ task[a] = "walk"
    BY <1>1 DEF WalkAhead
  <2>1. /\ \A a \in Walkers : task[a] # "none" =>
             task[a] = "walk" /\ todo[a] = {Top} /\ step[a] = "idle"
        /\ \E a \in Walkers : at[a] = "walk" \/ task[a] = "walk"
    BY DEF StepInv, WalkAhead
  <2> QED
    BY <1>1, <2>1
<1>5. ASSUME NEW f \in IDs \ stray' PROVE Tracked(f)'
  <2>1. Tracked(f) /\ (Begun' <=> Begun) /\ (Alone' <=> Alone)
    BY <1>1, <1>5 DEF StepInv, Begun, Alone
  <2>2. CASE ~Begun
    BY <1>1, <2>1, <2>2 DEF Tracked, Begun
  <2>3. CASE Begun
    <3>1. Alone /\ Blank(f) /\ step[p] # "sweep"
      BY <1>2, <2>1, <2>3 DEF Tracked
    <3>2. watcher \in Goroutines /\ Top \in watched /\ Followed(f)
      BY <1>0, <1>3, <2>1, <2>3, <3>1 DEF Tracked, PlaceTypes
    <3>3. started /\ p \in Movers /\ OnlyMovers(f)
      BY <1>0, <1>1, <3>1, <3>2, MoversOnly DEF SystemInv, Stages
    <3>4. Alike(p, f) /\ ToldAlike(f)
      BY <1>0, <1>5, <3>1, <3>2, <3>3, ManagerAlike
    <3>5. Followed(f)'
      BY <1>5, <3>2, <3>3, <3>4, AlikeKeeps
    <3> QED
      BY <1>1, <2>1, <3>1, <3>2, <3>5 DEF Tracked, Blank
  <2> QED
    BY <2>2, <2>3
<1> QED
  BY <1>1, <1>4, <1>5

-----------------------------------------------------------------------------
(* Files change                                                            *)

\* The watcher gets these events, and nobody else any.
Tells(r) ==
    /\ watcher # NoGoroutine =>
         queue[watcher] \in Seq(Events) /\ queue'[watcher] = queue[watcher] \o r
    /\ \A g \in Goroutines \ {watcher} : queue'[g] = queue[g]

LEMMA NotifiedTells ==
    ASSUME PlaceTypes, NEW r \in Seq(Events), queue' = Notified(r)
    PROVE  Tells(r)
<1>1. CASE watcher = NoGoroutine
  BY <1>1 DEF Notified, Tells
<1>2. CASE watcher # NoGoroutine
  BY <1>2 DEF Notified, Tells, PlaceTypes
<1> QED
  BY <1>1, <1>2

\* What a change of files leaves alone.
Beside ==
    /\ UNCHANGED <<watcher, task, hand, todo, step, id, wanted, new, listenerMap, config, started>>
    /\ watched' \subseteq watched /\ watched \subseteq watched' \cup {Sub}

LEMMA FilesBeside ==
    ASSUME FilesChange
    PROVE  Beside
  BY FSWatcherAssumption DEF FilesChange, MoveAway, Change, MakeSub, RemoveSub, Beside, vars, callerVars,
     watchVars, taskVars

\* The events on a single file.
LEMMA ChangeTells ==
    ASSUME PlaceTypes, NEW f \in IDs, NEW content, Change(f, content)
    PROVE  \E op \in {"create", "write", "remove"} :
             /\ Tells(EventIn(DirOf(f), op, f)) /\ EventIn(DirOf(f), op, f) \in Seq(Events)
             /\ op = "remove" <=> content = Absent
<1> DEFINE op == CASE content = Absent -> "remove" [] disk[f] = Absent -> "create" [] OTHER -> "write"
<1>1. op \in {"create", "write", "remove"} /\ (op = "remove" <=> content = Absent)
  BY DEF Change
<1>2. queue' = Notified(EventIn(DirOf(f), op, f))
  BY DEF Change
<1> HIDE DEF op
<1>3. EventIn(DirOf(f), op, f) \in Seq(Events)
  BY <1>1, EventTypes DEF Ops
<1> QED
  BY <1>1, <1>2, <1>3, NotifiedTells

\* The events on the lower directory: its own comes last.
LEMMA RemoveSubTells ==
    ASSUME PlaceTypes, RemoveSub
    PROVE  \E r \in Seq(Events) :
             /\ Tells(r) /\ (watched = {} => r = <<>>)
             /\ Top \in watched => r # <<>> /\ r[Len(r)] = <<"remove", Sub>>
             /\ \A i \in DOMAIN r : r[i][1] = "remove" /\ r[i][2] \in SubFiles \cup {Sub}
<1> USE FSWatcherAssumption
<1> DEFINE there == {f \in SubFiles : disk[f] # Absent}
<1>0. Cardinality(there) \in Nat
  BY FS_Subset, FS_CardinalityType
<1>1. PICK order \in [1..Cardinality(there) -> there] :
        queue' = Notified((IF Sub \in watched
                             THEN [i \in DOMAIN order |-> <<"remove", order[i]>>] ELSE <<>>)
                            \o EventIn(Top, "remove", Sub))
  BY DEF RemoveSub
<1> DEFINE told == [i \in DOMAIN order |-> <<"remove", order[i]>>]
           first == IF Sub \in watched THEN told ELSE <<>>
           last == EventIn(Top, "remove", Sub)
<1>2. /\ told \in Seq(Events)
      /\ \A i \in DOMAIN told : told[i][1] = "remove" /\ told[i][2] \in SubFiles
  <2>1. told \in [1..Cardinality(there) -> Events]
    BY DEF Events, Ops
  <2>2. told \in Seq(Events)
    BY <1>0, <2>1
  <2>3. \A i \in DOMAIN told : told[i] = <<"remove", order[i]>> /\ order[i] \in SubFiles
    OBVIOUS
  <2> QED
    BY <2>2, <2>3
<1>3. /\ first \in Seq(Events)
      /\ \A i \in DOMAIN first : first[i][1] = "remove" /\ first[i][2] \in SubFiles
      /\ Sub \notin watched => first = <<>>
  BY <1>2
<1>4. /\ last \in Seq(Events)
      /\ \A i \in DOMAIN last : last[i][1] = "remove" /\ last[i][2] = Sub
      /\ Top \in watched => Len(last) = 1 /\ last[1] = <<"remove", Sub>>
      /\ Top \notin watched => last = <<>>
  <2>1. last \in Seq(Events)
    BY EventTypes DEF Ops
  <2> QED
    BY <2>1 DEF EventIn
<1>5. queue' = Notified(first \o last)
  BY <1>1
<1> HIDE DEF first, last, told
<1> DEFINE r == first \o last
<1>6. /\ r \in Seq(Events) /\ DOMAIN r = 1..(Len(first) + Len(last)) /\ Len(first) \in Nat
      /\ Len(last) \in Nat /\ Len(r) = Len(first) + Len(last)
      /\ DOMAIN first = 1..Len(first) /\ DOMAIN last = 1..Len(last)
      /\ \A i \in 1..Len(first) : r[i] = first[i]
      /\ \A i \in 1..Len(last) : r[Len(first) + i] = last[i]
  BY <1>3, <1>4, AppendPoints
<1>7. Tells(r)
  BY <1>5, <1>6, NotifiedTells
<1>8. Top \in watched => r # <<>> /\ r[Len(r)] = <<"remove", Sub>>
  BY <1>4, <1>6
<1>9. watched = {} => r = <<>>
  BY <1>3, <1>4
<1> HIDE DEF r
<1>10. ASSUME NEW i \in DOMAIN r PROVE r[i][1] = "remove" /\ r[i][2] \in SubFiles \cup {Sub}
  <2>1. CASE i <= Len(first)
    BY <1>3, <1>6, <1>10, <2>1
  <2>2. CASE i > Len(first)
    <3>1. i - Len(first) \in 1..Len(last) /\ Len(first) + (i - Len(first)) = i
      BY <1>6, <1>10, <2>2
    <3>2. r[i] = last[i - Len(first)] /\ i - Len(first) \in DOMAIN last
      BY <1>6, <3>1
    <3> QED
      BY <1>4, <3>2
  <2> QED
    BY <1>6, <1>10, <2>1, <2>2
<1> QED
  BY <1>6, <1>7, <1>8, <1>9, <1>10

\* Before the watcher knows of the directory it is told nothing.
LEMMA ToldTracked ==
    ASSUME StepInv, Beside, UNCHANGED at, NEW f \in IDs, NEW r \in Seq(Events), Tells(r),
           watched = {} => r = <<>>,
           f \in stray => Alone /\ Top \in watched,
           watcher \in Goroutines /\ Top \in watched /\ Alone /\ (f \notin stray => Followed(f))
             => Followed(f)'
    PROVE  Tracked(f)'
<1> USE FSWatcherAssumption
<1>0. PlaceTypes
  BY TypesInParts DEF StepInv, SystemInv
<1>1. /\ UNCHANGED <<watcher, task, listenerMap>>
      /\ watched' \subseteq watched /\ (Top \in watched <=> Top \in watched')
  BY DEF Beside
<1>2. (Begun' <=> Begun) /\ (Alone' <=> Alone) /\ (f \notin stray => Tracked(f))
  BY <1>1 DEF Begun, Alone, StepInv
<1>3. ASSUME Begun PROVE Alone /\ Blank(f)'
  <2>1. Alone
    BY <1>2, <1>3 DEF Tracked
  <2>2. ASSUME Top \notin watched PROVE Blank(f)'
    <3>1. Blank(f)
      BY <1>2, <1>3, <2>2 DEF Tracked
    <3>2. watched = {} /\ r = <<>>
      BY <2>2, <3>1 DEF Blank
    <3>3. watcher # NoGoroutine => queue'[watcher] = queue[watcher]
      BY <3>2 DEF Tells
    <3> QED
      BY <1>1, <3>1, <3>2, <3>3 DEF Blank
  <2>3. ASSUME Top \in watched PROVE Blank(f)'
    BY <1>1, <2>3 DEF Blank
  <2> QED
    BY <2>1, <2>2, <2>3
<1>4. ASSUME watcher # NoGoroutine, Top \in watched PROVE Followed(f)'
  BY <1>0, <1>2, <1>3, <1>4 DEF PlaceTypes, Begun, Tracked
<1> QED
  BY <1>1, <1>2, <1>3, <1>4 DEF Tracked

\* The hands of callers are as they were.
LEMMA BesideSees ==
    ASSUME Beside, NEW p, NEW f
    PROVE  /\ \A c : (SettingTo(p, f, c)' <=> SettingTo(p, f, c)) /\ (Runs(f, c)' <=> Runs(f, c))
           /\ Setting(p, f)' <=> Setting(p, f)
           /\ Comes(p, f)' <=> Comes(p, f)
           /\ ComesToSub(p)' <=> ComesToSub(p)
           /\ Dropping(f)' <=> Dropping(f)
           /\ (Away(p, f) /\ (subThere => subThere')) => Away(p, f)'
  BY DEF Beside, SettingTo, Setting, Comes, ComesToSub, Away, Walking, Dropping, Runs

\* The events are not about the file.
LEMMA ElseKeeps ==
    ASSUME StepInv, Beside, NEW f \in IDs, NEW r \in Seq(Events), Tells(r), watcher \in Goroutines,
           Followed(f), disk'[f] = disk[f],
           f \in SubFiles => UNCHANGED <<watched, subThere>>,
           NoRemoval(r, f), \A name \in Paths(f) : \A i \in DOMAIN r : ~TellsOf(r[i], name)
    PROVE  Followed(f)'
<1> USE FSWatcherAssumption
<1>0. watcher # NoGoroutine /\ watcher' = watcher /\ listenerMap' = listenerMap
  BY DEF Beside
<1> DEFINE q == queue[watcher]
<1>1. q \in Seq(Events) /\ queue'[watcher] = q \o r
  BY <1>0 DEF Tells
<1>2. NoRemoval(queue'[watcher], f) <=> NoRemoval(q, f)
  BY <1>1, AppendTells
<1>3. \A name \in Paths(f) : /\ Lasting(q, f, name) => Lasting(queue'[watcher], f, name)
                             /\ Overtaken(q, f, name) => Overtaken(queue'[watcher], f, name)
  BY <1>1, AppendTells
<1> HIDE DEF q
<1>4. WalkedIsThere(f)' /\ GoneIsTold(f)'
  <2>1. WalkedIsThere(f)'
    BY BesideSees DEF Followed, WalkedIsThere
  <2>2. GoneIsTold(f)'
    BY <1>0, <1>2, BesideSees DEF Followed, GoneIsTold, q
  <2> QED
    BY <2>1, <2>2
<1>5. ValidIsTold(f)'
  <2> SUFFICES ASSUME NEW c \in Configs, disk[f] = c PROVE Told(f)' \/ Nears(f, c)'
    BY DEF ValidIsTold
  <2>1. CASE Told(f)
    BY <1>0, <1>3, <2>1 DEF Told, Paths, q
  <2>2. CASE Nears(f, c)
    BY <1>0, <1>2, <2>2, BesideSees DEF Nears, q
  <2> QED
    BY <2>1, <2>2 DEF Followed, ValidIsTold
<1>6. SubIsTold(f)'
  <2> SUFFICES ASSUME f \in SubFiles, Sub \notin watched
               PROVE  SubIsTold(f)'
    BY DEF SubIsTold
  <2>1. f \in Paths(f) /\ Sub \in Paths(f) /\ subThere' = subThere
    BY DEF Paths
  <2>2. \A p : Away(p, f) => Away(p, f)'
    BY <2>1, BesideSees
  <2>3. /\ Overtaken(q, f, f)
        /\ ~subThere => Overtaken(q, f, Sub)
        /\ \A a \in Walkers : Away(a, f)
        /\ NoRemoval(q, f) => Away(watcher, f) /\ (listenerMap[f] = NoListener \/ Dropping(f))
        /\ subThere => \/ Lasting(q, f, Sub)
                       \/ /\ NoRemoval(q, f) /\ ~Dropping(f)
                          /\ \E p \in Callers : ComesToSub(p)
    BY DEF Followed, SubIsTold, q
  <2> QED
    BY <1>0, <1>2, <1>3, <2>1, <2>2, <2>3, BesideSees DEF SubIsTold
<1> QED
  BY <1>4, <1>5, <1>6 DEF Followed

\* In settled times no walker has anything in its hands, and no earlier goroutine is about.
LEMMA SettledHands ==
    ASSUME StepInv, Settled
    PROVE  /\ Alone
           /\ \A a \in Walkers : /\ ~ComesToSub(a)
                                 /\ \A f : ~Setting(a, f) /\ ~Comes(a, f) /\ Away(a, f)
           /\ \A p \in Callers : \A f : Setting(p, f) \/ Comes(p, f) \/ ComesToSub(p) => p = watcher
<1> USE FSWatcherAssumption
<1>1. Alone
  BY DEF Settled, Superseded, Alone
<1>2. \A p \in Callers : task[p] \in {"none", "select"} \/ p = watcher
  BY <1>1 DEF Settled, Alone
<1>3. \A p \in Callers : task[p] \in {"none", "select"} =>
        ~ComesToSub(p) /\ \A f : ~Setting(p, f) /\ ~Comes(p, f) /\ Away(p, f)
  BY IdleHands DEF StepInv
<1>4. \A a \in Walkers : task[a] = "none"
  BY DEF Settled
<1> QED
  BY <1>1, <1>2, <1>3, <1>4

\* What the watcher's queue tells then.
LEMMA ToldThen ==
    ASSUME NEW r \in Seq(Events), Tells(r), watcher # NoGoroutine, NEW f
    PROVE  /\ NoRemoval(queue'[watcher], f) <=> NoRemoval(queue[watcher], f) /\ NoRemoval(r, f)
           /\ \A name : (Overtaken(queue[watcher], f, name) /\ \A i \in DOMAIN r : ~TellsOf(r[i], name))
                          => Overtaken(queue'[watcher], f, name)
           /\ r # <<>> => \A name :
                /\ TellsOf(r[Len(r)], name) => Lasting(queue'[watcher], f, name)
                /\ Removes(r[Len(r)], f) => Overtaken(queue'[watcher], f, name)
<1>1. PICK q \in Seq(Events) : q = queue[watcher]
  BY DEF Tells
<1>2. queue'[watcher] = q \o r
  BY <1>1 DEF Tells
<1>3. NoRemoval(q \o r, f) <=> NoRemoval(q, f) /\ NoRemoval(r, f)
  BY AppendTells
<1>4. ASSUME NEW name, Overtaken(q, f, name), \A i \in DOMAIN r : ~TellsOf(r[i], name)
      PROVE  Overtaken(q \o r, f, name)
  BY <1>4, AppendTells
<1>5. ASSUME r # <<>>, NEW name
      PROVE  /\ TellsOf(r[Len(r)], name) => Lasting(q \o r, f, name)
             /\ Removes(r[Len(r)], f) => Overtaken(q \o r, f, name)
  BY <1>5, AppendLast
<1> QED
  BY <1>1, <1>2, <1>3, <1>4, <1>5

\* The file itself changes, in settled times.
LEMMA ChangeKeeps ==
    ASSUME StepInv, Settled, NEW f \in IDs, NEW content, Change(f, content),
           watcher \in Goroutines, Top \in watched,
           f \in stray => content \in Configs /\ DirOf(f) \in watched,
           f \notin stray => Followed(f)
    PROVE  Followed(f)'
<1> USE FSWatcherAssumption
<1>0. /\ watcher # NoGoroutine /\ watcher \in Callers
      /\ PlaceTypes /\ Beside /\ watcher' = watcher /\ listenerMap' = listenerMap
      /\ UNCHANGED <<watched, subThere>> /\ disk'[f] = content /\ (f \in SubFiles => subThere)
  <2>1. PlaceTypes
    BY TypesInParts DEF StepInv, SystemInv
  <2>2. disk'[f] = content
    BY <2>1 DEF Change, PlaceTypes
  <2> QED
    BY <2>1, <2>2 DEF Change, Beside, vars, callerVars, watchVars, taskVars
<1> DEFINE q == queue[watcher]
<1>1. PICK op \in {"create", "write", "remove"} :
        /\ Tells(EventIn(DirOf(f), op, f)) /\ EventIn(DirOf(f), op, f) \in Seq(Events)
        /\ op = "remove" <=> content = Absent
  BY <1>0, ChangeTells
<1> DEFINE r == EventIn(DirOf(f), op, f)
<1>2. q \in Seq(Events) /\ queue'[watcher] = q \o r /\ r \in Seq(Events)
  BY <1>0, <1>1 DEF Tells
<1>3. DirOf(f) \in watched => r # <<>> /\ Len(r) = 1 /\ r[1] = <<op, f>>
  BY DEF EventIn
<1>4. DirOf(f) \notin watched => queue'[watcher] = q
  BY <1>2 DEF EventIn
<1> HIDE DEF q, r
<1>5. /\ content = Absent /\ DirOf(f) \in watched => ~NoRemoval(queue'[watcher], f)
      /\ content # Absent /\ DirOf(f) \in watched => Lasting(queue'[watcher], f, f)
  <2>1. ASSUME DirOf(f) \in watched, content = Absent PROVE ~NoRemoval(queue'[watcher], f)
    <3>1. Removes(r[1], f) /\ 1 \in DOMAIN r
      BY <1>1, <1>2, <1>3, <2>1 DEF Removes, Paths
    <3>2. ~NoRemoval(r, f)
      BY <3>1 DEF NoRemoval
    <3> QED
      BY <1>0, <1>1, <3>2, ToldThen DEF r
  <2>2. ASSUME DirOf(f) \in watched, content # Absent PROVE Lasting(queue'[watcher], f, f)
    <3>0. r[Len(r)] = <<op, f>> /\ op \in {"create", "write"}
      BY <1>1, <1>3, <2>2
    <3>1. TellsOf(r[Len(r)], f)
      BY <3>0 DEF TellsOf
    <3> QED
      BY <1>0, <1>1, <1>3, <2>2, <3>1, ToldThen DEF r
  <2> QED
    BY <2>1, <2>2
<1>6. /\ \A a \in Walkers : ~Setting(a, f) /\ Away(a, f)
      /\ \A p \in Callers : Setting(p, f) \/ ComesToSub(p) => p = watcher
  BY SettledHands
\* Of a file whose directory is not watched the queue tells what it told before.
<1>7. CASE DirOf(f) \in watched
  <2>1. WalkedIsThere(f)'
    BY <1>6, BesideSees, <1>0 DEF WalkedIsThere, Setting
  <2>2. GoneIsTold(f)'
    BY <1>0, <1>5, <1>7 DEF GoneIsTold
  <2>3. ValidIsTold(f)'
    BY <1>0, <1>5, <1>7 DEF ValidIsTold, Told, Paths
  <2>4. SubIsTold(f)'
    BY <1>0, <1>7 DEF SubIsTold, DirOf
  <2> QED
    BY <2>1, <2>2, <2>3, <2>4 DEF Followed
<1>8. CASE DirOf(f) \notin watched
  <2>0. f \in SubFiles /\ Sub \notin watched /\ subThere /\ Followed(f) /\ queue'[watcher] = q
    BY <1>0, <1>4, <1>8 DEF DirOf
  <2>1. /\ Overtaken(q, f, f)
        /\ NoRemoval(q, f) => Away(watcher, f) /\ (listenerMap[f] = NoListener \/ Dropping(f))
        /\ \/ Lasting(q, f, Sub)
           \/ /\ NoRemoval(q, f) /\ ~Dropping(f)
              /\ \E p \in Callers : ComesToSub(p)
    BY <2>0 DEF Followed, SubIsTold, q
  <2>2. NoRemoval(q, f) => \A p \in Callers : ~Setting(p, f)
    BY <1>6, <2>1 DEF Away
  <2>3. WalkedIsThere(f)'
    BY <1>6, BesideSees, <1>0 DEF WalkedIsThere, Setting
  <2>4. GoneIsTold(f)'
    BY <1>0, <2>0, <2>1, <2>2, BesideSees DEF GoneIsTold
  <2>5. ValidIsTold(f)'
    <3> SUFFICES ASSUME NEW c \in Configs PROVE Told(f)' \/ Nears(f, c)'
      BY DEF ValidIsTold
    <3>1. CASE Lasting(q, f, Sub)
      BY <1>0, <2>0, <3>1 DEF Told, Paths
    <3>2. ASSUME NoRemoval(q, f), ~Dropping(f), NEW p \in Callers, ComesToSub(p)
          PROVE  Nears(f, c)'
      <4>1. Comes(p, f)
        BY <2>0, <3>2 DEF Comes, ComesToSub, DirOf
      <4>2. \A o \in Callers : \A d \in Configs : ~SettingTo(o, f, d)'
        BY <1>0, <2>2, <3>2, BesideSees DEF Setting
      <4>3. Comes(p, f)' /\ ~Dropping(f)'
        BY <1>0, <3>2, <4>1, BesideSees
      <4> QED
        BY <1>0, <2>0, <3>2, <4>2, <4>3 DEF Nears
    <3> QED
      BY <2>1, <3>1, <3>2
  <2>6. SubIsTold(f)'
    <3>1. \A p : Away(p, f) => Away(p, f)'
      BY <1>0, BesideSees
    <3> QED
      BY <1>0, <1>6, <2>0, <2>1, <3>1, BesideSees DEF SubIsTold
  <2> QED
    BY <2>3, <2>4, <2>5, <2>6 DEF Followed
<1> QED
  BY <1>7, <1>8

\* The lower directory appears, and is told of last.
LEMMA MakeSubKeeps ==
    ASSUME StepInv, Settled, NEW f \in SubFiles, MakeSub, watcher \in Goroutines, Top \in watched,
           NEW r \in Seq(Events), Tells(r), r = <<<<"create", Sub>>>>, Followed(f)
    PROVE  Followed(f)'
<1> USE FSWatcherAssumption
<1>0. /\ watcher # NoGoroutine /\ watcher \in Callers /\ f \in IDs
      /\ Beside /\ watcher' = watcher /\ listenerMap' = listenerMap
      /\ watched' = watched /\ ~subThere /\ subThere' /\ disk[f] = Absent
  <2>1. Beside
    BY FilesBeside DEF FilesChange
  <2> QED
    BY <2>1 DEF MakeSub, Beside, StepInv, Places, watchVars
<1> DEFINE q == queue[watcher]
<1>1. r # <<>> /\ Len(r) = 1 /\ r[1] = <<"create", Sub>> /\ DOMAIN r = {1}
  OBVIOUS
<1> HIDE DEF q
<1>2. Lasting(queue'[watcher], f, Sub)
  <2>1. TellsOf(r[Len(r)], Sub)
    BY <1>1 DEF TellsOf
  <2> QED
    BY <1>0, <1>1, <2>1, ToldThen
<1>3. NoRemoval(queue'[watcher], f) <=> NoRemoval(q, f)
  <2>1. NoRemoval(r, f)
    BY <1>1 DEF NoRemoval, Removes
  <2> QED
    BY <1>0, <2>1, ToldThen DEF q
<1>4. Overtaken(q, f, f) => Overtaken(queue'[watcher], f, f)
  <2>1. \A i \in DOMAIN r : ~TellsOf(r[i], f)
    BY <1>0, <1>1 DEF TellsOf
  <2> QED
    BY <1>0, <2>1, ToldThen DEF q
<1>5. /\ \A a \in Walkers : ~Setting(a, f) /\ Away(a, f)
      /\ \A p : Away(p, f) => Away(p, f)'
  BY <1>0, SettledHands, BesideSees
<1>6. WalkedIsThere(f)'
  BY <1>0, <1>5, BesideSees DEF WalkedIsThere, Setting
<1>7. GoneIsTold(f)'
  <2>1. \/ listenerMap[f] = NoListener /\ \A p \in Callers : ~Setting(p, f)
        \/ ~NoRemoval(q, f)
        \/ Dropping(f)
    BY <1>0 DEF Followed, GoneIsTold, q
  <2> QED
    BY <1>0, <1>3, <2>1, BesideSees DEF GoneIsTold
<1>8. ValidIsTold(f)'
  BY <1>0, <1>2 DEF ValidIsTold, Told, Paths
<1>9. SubIsTold(f)'
  <2> SUFFICES ASSUME Sub \notin watched PROVE SubIsTold(f)'
    BY <1>0 DEF SubIsTold
  <2>1. /\ Overtaken(q, f, f)
        /\ NoRemoval(q, f) => Away(watcher, f) /\ (listenerMap[f] = NoListener \/ Dropping(f))
    BY DEF Followed, SubIsTold, q
  <2> QED
    BY <1>0, <1>2, <1>3, <1>4, <1>5, <2>1, BesideSees DEF SubIsTold
<1> QED
  BY <1>6, <1>7, <1>8, <1>9 DEF Followed

\* It is removed, which is told last.
LEMMA RemoveSubKeeps ==
    ASSUME StepInv, Settled, NEW f \in SubFiles, RemoveSub, watcher \in Goroutines, Top \in watched,
           NEW r \in Seq(Events), Tells(r), r # <<>>, r[Len(r)] = <<"remove", Sub>>
    PROVE  Followed(f)'
<1> USE FSWatcherAssumption
<1>0. /\ watcher # NoGoroutine /\ f \in IDs
      /\ Beside /\ watcher' = watcher /\ ~subThere' /\ disk'[f] = Absent
  <2>1. Beside
    BY FilesBeside DEF FilesChange
  <2> QED
    BY <2>1 DEF RemoveSub, Beside
<1>1. Removes(r[Len(r)], f)
  BY DEF Removes, Paths
<1>2. \A name : Overtaken(queue'[watcher], f, name)
  BY <1>0, <1>1, ToldThen
<1>3. ~NoRemoval(queue'[watcher], f)
  <2>1. Len(r) \in DOMAIN r
    OBVIOUS
  <2>2. ~NoRemoval(r, f)
    BY <1>1, <2>1 DEF NoRemoval
  <2> QED
    BY <1>0, <2>2, ToldThen
<1>4. \A a \in Walkers : ~Setting(a, f)' /\ Away(a, f)'
  <2> TAKE a \in Walkers
  <2>1. ~Setting(a, f)' /\ task'[a] = "none"
    BY <1>0, SettledHands, BesideSees DEF Settled, Beside
  <2> QED
    BY <2>1 DEF Away, Walking
<1>5. WalkedIsThere(f)' /\ GoneIsTold(f)'
  BY <1>0, <1>3, <1>4 DEF WalkedIsThere, GoneIsTold, Setting
<1>6. ValidIsTold(f)'
  BY <1>0 DEF ValidIsTold
<1>7. SubIsTold(f)'
  BY <1>0, <1>2, <1>3, <1>4 DEF SubIsTold
<1> QED
  BY <1>5, <1>6, <1>7 DEF Followed

LEMMA FilesKeep ==
    ASSUME StepInv, FilesChange, UNCHANGED at
    PROVE  Tasks' /\ Places' /\ WalkAhead' /\ \A f \in IDs \ stray' : Tracked(f)'
<1> USE FSWatcherAssumption
<1> DEFINE Kept == \A f \in IDs \ stray' : Tracked(f)'
           Queued == \E r \in Seq(Events) : Tells(r)
           There == \A f \in SubFiles : disk'[f] # Absent => subThere'
<1>0. PlaceTypes /\ Places /\ Beside
  BY FilesBeside, TypesInParts DEF StepInv, SystemInv
\* Those whom the events are not about, or who are strays before or after.
<1>1. ASSUME NEW f \in IDs, NEW e \in IDs, NEW op \in {"create", "write", "remove", "rename"},
             Tells(EventIn(DirOf(e), op, e)), EventIn(DirOf(e), op, e) \in Seq(Events),
             f # e, f \notin stray, disk'[f] = disk[f], UNCHANGED <<watched, subThere>>
      PROVE  Tracked(f)'
  <2>1. PICK r \in Seq(Events) : r = EventIn(DirOf(e), op, e)
    BY <1>1
  <2>2. \A i \in DOMAIN r : r[i] = <<op, e>>
    BY <2>1 DEF EventIn
  <2>3. NoRemoval(r, f) /\ \A name \in Paths(f) : \A i \in DOMAIN r : ~TellsOf(r[i], name)
    BY <1>1, <2>2 DEF NoRemoval, Removes, TellsOf, Paths
  <2>4. watched = {} => r = <<>>
    BY <2>1 DEF EventIn
  <2>5. Tells(r)
    BY <1>1, <2>1
  <2> QED
    BY <1>0, <1>1, <2>3, <2>4, <2>5, ElseKeeps, ToldTracked
<1>2. ASSUME NEW e \in IDs, MoveAway(e) PROVE Queued /\ There /\ Kept
  <2>1. EventIn(DirOf(e), "rename", e) \in Seq(Events) /\ Tells(EventIn(DirOf(e), "rename", e))
    BY <1>0, <1>2, EventTypes, NotifiedTells DEF MoveAway, Ops
  <2>2. /\ \A f \in IDs \ {e} : disk'[f] = disk[f]
        /\ disk'[e] = Absent /\ UNCHANGED <<watched, subThere>>
        /\ stray' = stray \cup {e}
    BY <1>0, <1>2 DEF MoveAway, PlaceTypes, watchVars
  <2>3. There
    BY <1>0, <2>2 DEF Places
  <2>4. Kept
    BY <1>1, <2>1, <2>2
  <2> QED
    BY <2>1, <2>3, <2>4
<1>3. ASSUME NEW e \in IDs, NEW content, Change(e, content) PROVE Queued /\ There /\ Kept
  <2>1. PICK op \in {"create", "write", "remove"} :
          Tells(EventIn(DirOf(e), op, e)) /\ EventIn(DirOf(e), op, e) \in Seq(Events)
    BY <1>0, <1>3, ChangeTells
  <2>2. /\ \A f \in IDs \ {e} : disk'[f] = disk[f]
        /\ e \in SubFiles => subThere
        /\ UNCHANGED <<watched, subThere>>
    BY <1>0, <1>3 DEF Change, PlaceTypes, watchVars
  <2>3. /\ \A f \in IDs \ {e} : f \in stray <=> f \in stray'
        /\ e \notin stray' => Settled
        /\ e \in stray /\ e \notin stray' => content \in Configs /\ {Top, DirOf(e)} \subseteq watched
    BY <1>3 DEF Change
  <2>4. There
    BY <1>0, <2>2 DEF Places
  <2>5. ASSUME e \notin stray' PROVE Tracked(e)'
    <3>1. Settled /\ Alone
      BY <2>3, <2>5, SettledHands
    <3>2. PICK r \in Seq(Events) : r = EventIn(DirOf(e), op, e)
      BY <2>1
    <3>3. watched = {} => r = <<>>
      BY <3>2 DEF EventIn
    <3>4. Tells(r)
      BY <2>1, <3>2
    <3> QED
      BY <1>0, <1>3, <2>3, <2>5, <3>1, <3>3, <3>4, ChangeKeeps, ToldTracked
  <2>6. Kept
    BY <1>1, <2>1, <2>2, <2>3, <2>5
  <2> QED
    BY <2>1, <2>4, <2>6
<1>4. ASSUME MakeSub PROVE Queued /\ There /\ Kept
  <2>1. PICK r \in Seq(Events) : r = EventIn(Top, "create", Sub)
    BY EventTypes DEF Ops
  <2>2. Tells(r)
    BY <1>0, <1>4, <2>1, NotifiedTells DEF MakeSub
  <2>3. /\ \A f \in IDs \ SubFiles : disk'[f] = disk[f]
        /\ subThere' /\ stray' = IF Settled THEN stray ELSE stray \cup SubFiles
    BY <1>4 DEF MakeSub
  <2>4. There
    BY <2>3
  <2>5. /\ watched = {} => r = <<>>
        /\ Top \in watched => r = <<<<"create", Sub>>>>
        /\ \A i \in DOMAIN r : r[i] = <<"create", Sub>>
    BY <2>1 DEF EventIn
  <2>6. ASSUME NEW f \in IDs \ stray' PROVE Tracked(f)'
    <3>1. f \notin stray /\ (f \in SubFiles => Settled)
      BY <2>3, <2>6
    <3>2. CASE f \in SubFiles
      BY <1>0, <1>4, <2>2, <2>5, <3>1, <3>2, MakeSubKeeps, ToldTracked
    <3>3. CASE f \notin SubFiles
      <4>1. NoRemoval(r, f) /\ \A name \in Paths(f) : \A i \in DOMAIN r : ~TellsOf(r[i], name)
        BY <2>5, <2>6, <3>3 DEF NoRemoval, Removes, TellsOf, Paths
      <4> QED
        BY <1>0, <2>2, <2>3, <2>5, <2>6, <3>1, <3>3, <4>1, ElseKeeps, ToldTracked
    <3> QED
      BY <3>2, <3>3
  <2> QED
    BY <2>2, <2>4, <2>6
<1>5. ASSUME RemoveSub PROVE Queued /\ There /\ Kept
  <2>1. PICK r \in Seq(Events) :
          /\ Tells(r) /\ (watched = {} => r = <<>>)
          /\ Top \in watched => r # <<>> /\ r[Len(r)] = <<"remove", Sub>>
          /\ \A i \in DOMAIN r : r[i][1] = "remove" /\ r[i][2] \in SubFiles \cup {Sub}
    BY <1>0, <1>5, RemoveSubTells
  <2>2. /\ \A f \in IDs \ SubFiles : disk'[f] = disk[f]
        /\ \A f \in SubFiles : disk'[f] = Absent
        /\ stray' = IF Settled THEN stray ELSE stray \cup SubFiles
    BY <1>5 DEF RemoveSub
  <2>3. ASSUME NEW f \in IDs \ stray' PROVE Tracked(f)'
    <3>1. f \notin stray /\ (f \in SubFiles => Settled)
      BY <2>2, <2>3
    <3>2. CASE f \in SubFiles
      BY <1>0, <1>5, <2>1, <3>1, <3>2, RemoveSubKeeps, ToldTracked
    <3>3. CASE f \notin SubFiles
      <4>1. NoRemoval(r, f) /\ \A name \in Paths(f) : \A i \in DOMAIN r : ~TellsOf(r[i], name)
        BY <2>1, <2>3, <3>3 DEF NoRemoval, Removes, TellsOf, Paths
      <4> QED
        BY <1>0, <2>1, <2>2, <2>3, <3>1, <3>3, <4>1, ElseKeeps, ToldTracked
    <3> QED
      BY <3>2, <3>3
  <2> QED
    BY <2>1, <2>2, <2>3
<1> HIDE DEF Kept
<1>6. Queued /\ There /\ Kept
  BY <1>2, <1>3, <1>4, <1>5 DEF FilesChange
<1>7. Tasks'
  <2>1. \A g \in Goroutines \ {watcher} : queue'[g] = queue[g]
    BY <1>6 DEF Tells
  <2> QED
    BY <1>0, <2>1 DEF StepInv, Tasks, Beside
<1>8. Places'
  BY <1>0, <1>6 DEF Places, Beside
<1>9. WalkAhead'
  BY <1>0 DEF StepInv, WalkAhead, Beside
<1> QED
  BY <1>6, <1>7, <1>8, <1>9 DEF Kept

-----------------------------------------------------------------------------
(* The theorem                                                             *)

LEMMA StepInvInit == SurveyorInit => StepInv
<1> SUFFICES ASSUME SurveyorInit
             PROVE  StepInv
  OBVIOUS
<1> USE FSWatcherAssumption DEF SurveyorInit, WatcherInit, Init
<1>1. Tasks /\ Places /\ WalkAhead
  BY DEF Tasks, Places, WalkAhead
<1>2. ASSUME NEW f \in IDs PROVE Tracked(f)
  BY DEF Tracked, Begun
<1> QED
  BY <1>1, <1>2, InvInit DEF StepInv

LEMMA StepInvNext == StepInv /\ [SurveyorNext]_systemVars => StepInv'
<1> SUFFICES ASSUME StepInv, [SurveyorNext]_systemVars
             PROVE  StepInv'
  OBVIOUS
<1> DEFINE Kept == Tasks' /\ Places' /\ WalkAhead' /\ \A f \in IDs \ stray' : Tracked(f)'
<1>0. SystemInv /\ SystemInv' /\ Tasks /\ Places
  BY InvNext DEF StepInv
<1>1. ASSUME Still PROVE Kept
  BY <1>1, StillKeeps
<1>2. ASSUME NEW a \in Walkers, StartCall(a) \/ StopCall(a) \/ StartStep(a) \/ StopStep(a) PROVE Kept
  <2>1. CASE Walks(a)
    BY <2>1, WalksKeep DEF Walks, callVars
  <2>2. CASE Manage(a) /\ ~started
    BY <2>2, ManageKeeps
  <2>3. CASE Watch(a) \/ WalkBegin(a)
    BY <2>3, WatchKeeps, WalkBeginKeeps
  <2>4. CASE Sweep(a) \/ (Unwatch(a) /\ at'[a] # "unwatch")
    BY <2>4, StopKeeps
  <2>5. CASE ~Walks(a) /\ ~(Manage(a) /\ ~started) /\ ~(Watch(a) \/ WalkBegin(a))
             /\ ~(Sweep(a) \/ (Unwatch(a) /\ at'[a] # "unwatch"))
    <3>1. Still
      BY <1>0, <1>2, <2>5, StillSteps DEF StartStep, StopStep
    <3> QED
      BY <1>1, <3>1
  <2> QED
    BY <2>1, <2>2, <2>3, <2>4, <2>5
<1>3. ASSUME NEW g \in Goroutines, Works(g) PROVE Kept
  BY <1>3, WorksKeep DEF Works, callVars
<1>4. ASSUME NEW p \in Callers, Manages(p) PROVE Kept
  BY <1>4, ProceedKeeps DEF Manages, callVars
<1>5. ASSUME FilesChange, UNCHANGED <<callVars, ownVars>> PROVE Kept
  BY <1>5, FilesKeep DEF callVars
<1>6. ASSUME Lose \/ UNCHANGED systemVars PROVE Kept
  <2>1. UNCHANGED <<vars, watcherVars, at>>
    BY <1>6 DEF Lose, OthersKeep, systemVars, callVars
  <2>2. Still
    BY <2>1 DEF Still, vars, callerVars, watcherVars, fileVars, watchVars, taskVars
  <2> QED
    BY <1>1, <2>2
<1> HIDE DEF Kept
<1>7. Kept
  BY <1>2, <1>3, <1>4, <1>5, <1>6 DEF SurveyorNext, Proceeds
<1> QED
  BY <1>0, <1>7 DEF Kept, StepInv

\* When all events are handled, the manager has the last version of each file that is
\* no stray, and nothing that is removed: whatever the walk and the goroutine did at the
\* same time, whatever was told of a file is told in order, and who sets a file last
\* has read it after its last change or will be told of that.  Its listener has its
\* connection, unless a Set of the file was under way when they were last closed and
\* no other has taken its place.
THEOREM WatchedInStep == SurveyorSpec => []InStep
<1> USE FSWatcherAssumption
<1>1. StepInv /\ MapInv /\ CutInv => InStep
  <2> SUFFICES ASSUME StepInv, MapInv, CutInv, watcher # NoGoroutine, AllQuiet, NEW f \in IDs \ stray
               PROVE  /\ disk[f] \in Configs =>
                           /\ listenerMap[f] # NoListener /\ config[listenerMap[f]] = disk[f]
                           /\ f \notin crossed => listenerMap[f] \in Connected
                      /\ disk[f] = Absent => listenerMap[f] = NoListener
    BY DEF InStep
  <2>1. CallTypes /\ PlaceTypes
    BY TypesInParts DEF StepInv, SystemInv
  <2>2. /\ watcher \in Goroutines /\ watcher \in Callers
        /\ \A p \in Callers : task[p] \in {"none", "select"}
        /\ queue[watcher] = <<>>
    BY <2>1 DEF AllQuiet, PlaceTypes
  <2>3. \A a \in Walkers : task[a] # "walk" /\ at[a] # "walk"
    BY <2>1, <2>2, SurveyorAssumption DEF AllQuiet, CallTypes
  <2>4. Top \in watched
    BY <2>3 DEF StepInv, WalkAhead
  <2>5. Followed(f)
    BY <2>4 DEF StepInv, Tracked
  <2>6. \A p \in Callers : ~Setting(p, f) /\ ~Comes(p, f)
    BY <2>2, IdleHands DEF StepInv
  <2>7. NoRemoval(queue[watcher], f) /\ ~Dropping(f) /\ ~Told(f)
    BY <2>2 DEF NoRemoval, Dropping, Told, Lasting
  <2>8. ASSUME NEW c \in Configs, disk[f] = c PROVE Runs(f, c)
    BY <2>5, <2>6, <2>7, <2>8 DEF Followed, ValidIsTold, Nears, Setting
  <2>9. disk[f] = Absent => listenerMap[f] = NoListener
    BY <2>5, <2>7 DEF Followed, GoneIsTold
  <2>10. listenerMap[f] # NoListener => listenerMap[f] \in RunningListeners
    <3>1. Free
      BY DEF AllQuiet, AllIdle, Free
    <3> QED
      BY <3>1 DEF MapInv, RegisteredRuns, RunningListeners, TypeOK, ListenerOrNil
  <2>11. (f \notin crossed /\ listenerMap[f] # NoListener) => listenerMap[f] \in Connected
    BY <2>10 DEF CutInv, Connected
  <2> QED
    BY <2>8, <2>9, <2>11 DEF Runs
<1>2. SurveyorInit => StepInv /\ MapInv /\ CutInv
  <2>1. SurveyorInit => CutInv
    BY DEF SurveyorInit, CutInv
  <2> QED
    BY <2>1, StepInvInit, MapInit DEF SurveyorInit, WatcherInit
<1>3. (StepInv /\ MapInv /\ CutInv) /\ [SurveyorNext]_systemVars => (StepInv /\ MapInv /\ CutInv)'
  BY StepInvNext, MapKept, CutKept DEF StepInv
<1> QED
  BY <1>1, <1>2, <1>3, PTL DEF SurveyorSpec

-----------------------------------------------------------------------------
(* Start and Stop wait for nobody but each other.                          *)

\* The events are for the goroutines.
WalkerTasks == \A a \in Walkers : task[a] \in {"none", "walk", "list", "set"}

LEMMA WalkersBecome ==
    ASSUME SystemTypes, WalkerTasks, NEW p \in Callers, NEW t, NEW h, NEW paths, Becomes(p, t, h, paths),
           p \in Goroutines \/ t \in {"none", "walk", "list", "set"}
    PROVE  WalkerTasks'
<1>1. task \in [Callers -> {"none", "select", "walk", "list", "set", "drop"}]
  BY TypesInParts DEF TaskTypes
<1> QED
  BY <1>1, FSWatcherAssumption DEF Becomes, WalkerTasks

LEMMA WalkersKept ==
    ASSUME SystemTypes, WalkerTasks, [SurveyorNext]_systemVars
    PROVE  WalkerTasks'
<1> USE FSWatcherAssumption
<1>1. ASSUME UNCHANGED task PROVE WalkerTasks'
  BY <1>1 DEF WalkerTasks
<1>2. ASSUME NEW a \in Walkers, Walks(a) PROVE WalkerTasks'
  <2>1. \E t \in {"none", "walk", "list", "set"} : \E h, paths : Becomes(a, t, h, paths)
    BY <1>2 DEF Walks, WalkStep, WalkDirectory, WalkList, WalkRead, WalkSet, WalkEnd
  <2> QED
    BY <2>1, WalkersBecome
<1>3. ASSUME NEW g \in Goroutines, Works(g) PROVE WalkerTasks'
  <2>1. (\E t, h, paths : Becomes(g, t, h, paths)) \/ UNCHANGED task
    BY <1>3 DEF Works, GoroutineStep, WalkStep, WalkDirectory, WalkList, WalkRead, WalkSet, WalkEnd,
       TakeWrite, TakeRemove, DropOne, DropEnd, TakeRename, Exit, taskVars
  <2> QED
    BY <1>1, <2>1, WalkersBecome
<1>4. ASSUME NEW a \in Walkers, Watch(a) PROVE WalkerTasks'
  <2>1. (\E g \in Goroutines : Becomes(g, "select", <<>>, {})) \/ UNCHANGED task
    BY <1>4 DEF Watch, StartWatcher, taskVars
  <2> QED
    BY <1>1, <2>1, WalkersBecome
<1>5. ASSUME NEW a \in Walkers, WalkBegin(a) PROVE WalkerTasks'
  BY <1>5, WalkersBecome DEF WalkBegin
<1>6. ASSUME NEW a \in Walkers, StartStep(a) \/ StopStep(a) PROVE WalkerTasks'
  <2>1. CASE ~(Walks(a) \/ Watch(a) \/ WalkBegin(a))
    <3>1. UNCHANGED task
      BY <1>6, <2>1 DEF StartStep, StopStep, Relock, Connect, ConnectFails, Collect, CollectFails,
         Manage, WatchFails, Serve, ServeFails, StopEnters, Unserve, Unwatch, Sweep, CloseConns,
         OthersKeep, watcherVars, taskVars
    <3> QED
      BY <1>1, <3>1
  <2> QED
    BY <1>2, <1>4, <1>5, <2>1
<1>7. ASSUME NEW p \in Callers, Manages(p) PROVE WalkerTasks'
  BY <1>1, <1>7 DEF Manages, ManagerStep, taskVars
<1>8. ASSUME NEW a \in Walkers, StartCall(a) \/ StopCall(a) PROVE WalkerTasks'
  BY <1>1, <1>8 DEF StartCall, StopCall, OthersKeep, watcherVars, taskVars
<1>9. ASSUME Lose \/ UNCHANGED systemVars PROVE WalkerTasks'
  BY <1>1, <1>9 DEF Lose, OthersKeep, systemVars, watcherVars, taskVars
<1>10. ASSUME FilesChange PROVE WalkerTasks'
  BY <1>1, <1>10 DEF FilesChange, MoveAway, Change, MakeSub, RemoveSub, taskVars
<1>11. CASE Proceeds
  BY <1>3, <1>6, <1>7, <1>11 DEF Proceeds
<1> QED
  BY <1>8, <1>9, <1>10, <1>11 DEF SurveyorNext

\* Who has the watcher's lock or the manager's, across its steps, has the surveyor's
\* as well; and to tell the goroutine to end it need not wait for it.  So, whoever is
\* in the middle of Start or of Stop finds all that it needs, and if nobody is, those
\* who come next find the surveyor's lock free.
THEOREM NoneWaitsInACircle ==
    ASSUME Overlap
    PROVE  SurveyorSpec => []SomebodyGoesOn
<1>1. StepInv /\ WalkerTasks => SomebodyGoesOn
  <2> SUFFICES ASSUME StepInv, WalkerTasks, NEW a \in Walkers, at[a] # "idle"
               PROVE  \E b \in Walkers : CanGoOn(b)
    BY DEF SomebodyGoesOn
  <2>0. /\ CallTypes /\ PlaceTypes /\ TypeOK /\ Stages /\ Tasks
        /\ Walkers \subseteq Callers /\ NoGoroutine \notin Callers
    BY TypesInParts, FSWatcherAssumption DEF StepInv, SystemInv
  <2>1. CASE lock = Nobody
    <3>1. at[a] \in {"relock", "stop"}
      BY <2>0, <2>1, SurveyorAssumption DEF CallTypes
    <3> QED
      BY <2>1, <3>1 DEF CanGoOn
  <2>2. ASSUME NEW b \in Walkers, lock = b
        PROVE  CanGoOn(b)
    <3>1. /\ at[b] \in {"connect", "collect", "manage", "watch", "walk", "serve", "unserve",
                        "unwatch", "sweep", "close"}
          /\ \A c \in Walkers : at[c] \notin {"idle", "relock", "stop"} => c = b
      BY <2>0, <2>2 DEF CallTypes
    <3>2. wlock # NoGoroutine => wlock = b /\ at[b] = "unwatch"
      BY <2>0, <3>1 DEF Stages
    <3>3. at[b] # "close" => Free
      BY <2>0, <3>1 DEF Stages, Free
    <3>4. at[b] # "serve" => task[b] = "none" /\ step[b] \in {"idle", "sweep"}
      BY <2>0 DEF Stages, Tasks, TypeOK
    <3>5. CASE at[b] = "serve"
      <4>1. step[b] # "idle" => step[b] \in {"start", "install", "undo", "retire"}
        BY <2>0, <3>5 DEF Stages, TypeOK
      <4>2. CASE step[b] = "idle"
        BY <3>2, <3>3, <3>5, <4>2 DEF WalkerTasks, CanGoOn, CanWalk, InTask, MayCall
      <4>3. CASE step[b] # "idle"
        BY <3>3, <3>5, <4>1, <4>3 DEF CanGoOn, CanWalk
      <4> QED
        BY <4>2, <4>3
    <3>6. CASE at[b] = "unwatch"
      BY <3>2, <3>6 DEF CanGoOn, Room
    <3>7. CASE at[b] \in {"manage", "sweep", "close"}
      <4>1. step[b] = "sweep" => at[b] = "close"
        BY <2>0 DEF Stages
      <4> QED
        BY <3>3, <3>4, <3>7, <4>1 DEF CanGoOn, InTask
    <3>8. CASE at[b] \in {"connect", "collect", "watch", "walk", "unserve"}
      BY <3>8 DEF CanGoOn
    <3> QED
      BY <3>1, <3>5, <3>6, <3>7, <3>8
  <2> QED
    BY <2>0, <2>1, <2>2 DEF CallTypes
<1>2. SurveyorInit => StepInv /\ WalkerTasks
  <2>1. SurveyorInit => WalkerTasks
    BY FSWatcherAssumption DEF SurveyorInit, WatcherInit, WalkerTasks
  <2> QED
    BY <2>1, StepInvInit
<1>3. (StepInv /\ WalkerTasks) /\ [SurveyorNext]_systemVars => (StepInv /\ WalkerTasks)'
  BY StepInvNext, WalkersKept DEF StepInv, SystemInv
<1> QED
  BY <1>1, <1>2, <1>3, PTL DEF SurveyorSpec
=============================================================================
