-------------------------- MODULE StatzMergeProofs --------------------------
(***************************************************************************)
(* Proofs about the merging of JetStream replies and what is exported of   *)
(* them (surveyor/collector_statz.go), for any servers, accounts, streams, *)
(* consumers and details.                                                  *)
(***************************************************************************)
EXTENDS StatzRequestsProofs, WellFoundedInduction

-----------------------------------------------------------------------------
(* Induction, from sets of numbers that have a least element.              *)

LessThan == {pair \in Nat \X Nat : pair[1] < pair[2]}

LEMMA LessThanWellFounded == IsWellFoundedOn(LessThan, Nat)
<1>1. IsWellFoundedOn(OpToRel(<, Nat), Nat)
  BY NatLessThanWellFounded
<1>2. OpToRel(<, Nat) = LessThan
  BY DEF OpToRel, LessThan
<1> QED
  BY <1>1, <1>2

LEMMA Least ==
    ASSUME NEW S \in SUBSET Nat, S # {}
    PROVE  \E n \in S : \A m \in S : n =< m
<1>1. PICK n \in S : \A m \in S : <<m, n>> \notin LessThan
  BY LessThanWellFounded, WFMin
<1>2. ASSUME NEW m \in S PROVE n =< m
  <2>1. ~(m < n)
    BY <1>1 DEF LessThan
  <2> QED
    BY <2>1
<1> QED
  BY <1>2

\* What has zero, and with each number the next one up to N, has all up to N.
LEMMA Counting ==
    ASSUME NEW N \in Nat, NEW S, 0 \in S, \A n \in 0..(N - 1) : n \in S => n + 1 \in S
    PROVE  \A n \in 0..N : n \in S
<1> DEFINE Rest == {n \in 0..N : n \notin S}
<1> SUFFICES ASSUME Rest # {}
             PROVE  FALSE
  OBVIOUS
<1>0. Rest \in SUBSET Nat
  OBVIOUS
<1>1. PICK n \in Rest : \A m \in Rest : n =< m
  BY <1>0, Least
<1>2. n # 0 /\ n - 1 \in 0..(N - 1)
  BY <1>1
<1>3. n - 1 \in S
  BY <1>1, <1>2
<1>4. (n - 1) + 1 = n
  BY <1>1
<1> QED
  BY <1>1, <1>2, <1>3, <1>4

-----------------------------------------------------------------------------
(* The loops of the merge do what their recursive definitions say.         *)

AddsUp(f, N, from, to) ==
    f = [n \in 0..N |-> IF n = 0 THEN to ELSE AddOne(from[n], f[n - 1])]

LEMMA AddsExist ==
    ASSUME NEW N \in Nat, NEW from, NEW to
    PROVE  \E f : AddsUp(f, N, from, to)
<1> DEFINE S == {n \in 0..N : \E f : AddsUp(f, n, from, to)}
<1>1. 0 \in S
  <2> DEFINE f == [n \in 0..0 |-> to]
  <2>1. AddsUp(f, 0, from, to)
    BY DEF AddsUp
  <2> QED
    BY <2>1
<1>2. ASSUME NEW n \in 0..(N - 1), n \in S PROVE n + 1 \in S
  <2>1. PICK f : AddsUp(f, n, from, to)
    BY <1>2
  <2> DEFINE g == [m \in 0..(n + 1) |-> IF m = n + 1 THEN AddOne(from[n + 1], f[n]) ELSE f[m]]
  <2>2. \A m \in 0..n : f[m] = IF m = 0 THEN to ELSE AddOne(from[m], f[m - 1])
    BY <2>1 DEF AddsUp
  <2>3. \A m \in 0..(n + 1) : g[m] = IF m = 0 THEN to ELSE AddOne(from[m], g[m - 1])
    BY <2>2
  <2>4. AddsUp(g, n + 1, from, to)
    BY <2>3 DEF AddsUp
  <2> QED
    BY <2>4
<1> HIDE DEF S
<1>3. N \in S
  BY <1>1, <1>2, Counting
<1> QED
  BY <1>3 DEF S

LEMMA AddedIsLast ==
    ASSUME NEW from, NEW to, Len(from) \in Nat
    PROVE  \E f : /\ f[0] = to /\ Added(from, to) = f[Len(from)]
                  /\ \A n \in 1..Len(from) : f[n] = AddOne(from[n], f[n - 1])
<1> DEFINE f == CHOOSE f : AddsUp(f, Len(from), from, to)
<1>1. AddsUp(f, Len(from), from, to)
  BY AddsExist
<1>2. Added(from, to) = f[Len(from)]
  BY DEF Added, AddsUp
<1> HIDE DEF f
<1>3. \A n \in 0..Len(from) : f[n] = IF n = 0 THEN to ELSE AddOne(from[n], f[n - 1])
  BY <1>1 DEF AddsUp
<1>4. f[0] = to /\ \A n \in 1..Len(from) : f[n] = AddOne(from[n], f[n - 1])
  BY <1>3
<1> QED
  BY <1>2, <1>4

MergesUp(f, N, from, to) ==
    f = [n \in 0..N |-> IF n = 0 THEN to ELSE MergeOne(from[n], f[n - 1])]

LEMMA MergesExist ==
    ASSUME NEW N \in Nat, NEW from, NEW to
    PROVE  \E f : MergesUp(f, N, from, to)
<1> DEFINE S == {n \in 0..N : \E f : MergesUp(f, n, from, to)}
<1>1. 0 \in S
  <2> DEFINE f == [n \in 0..0 |-> to]
  <2>1. MergesUp(f, 0, from, to)
    BY DEF MergesUp
  <2> QED
    BY <2>1
<1>2. ASSUME NEW n \in 0..(N - 1), n \in S PROVE n + 1 \in S
  <2>1. PICK f : MergesUp(f, n, from, to)
    BY <1>2
  <2> DEFINE g == [m \in 0..(n + 1) |-> IF m = n + 1 THEN MergeOne(from[n + 1], f[n]) ELSE f[m]]
  <2>2. \A m \in 0..n : f[m] = IF m = 0 THEN to ELSE MergeOne(from[m], f[m - 1])
    BY <2>1 DEF MergesUp
  <2>3. \A m \in 0..(n + 1) : g[m] = IF m = 0 THEN to ELSE MergeOne(from[m], g[m - 1])
    BY <2>2
  <2>4. MergesUp(g, n + 1, from, to)
    BY <2>3 DEF MergesUp
  <2> QED
    BY <2>4
<1> HIDE DEF S
<1>3. N \in S
  BY <1>1, <1>2, Counting
<1> QED
  BY <1>3 DEF S

LEMMA MergedIsLast ==
    ASSUME NEW from, NEW to, Len(from) \in Nat
    PROVE  \E f : /\ f[0] = to /\ MergeStreamDetails(from, to) = f[Len(from)]
                  /\ \A n \in 1..Len(from) : f[n] = MergeOne(from[n], f[n - 1])
<1> DEFINE f == CHOOSE f : MergesUp(f, Len(from), from, to)
<1>1. MergesUp(f, Len(from), from, to)
  BY MergesExist
<1>2. MergeStreamDetails(from, to) = f[Len(from)]
  BY DEF MergeStreamDetails, MergesUp
<1> HIDE DEF f
<1>3. \A n \in 0..Len(from) : f[n] = IF n = 0 THEN to ELSE MergeOne(from[n], f[n - 1])
  BY <1>1 DEF MergesUp
<1>4. f[0] = to /\ \A n \in 1..Len(from) : f[n] = MergeOne(from[n], f[n - 1])
  BY <1>3
<1> QED
  BY <1>2, <1>4

-----------------------------------------------------------------------------
(* What is added                                                           *)

\* "to" with something appended.
Extends(seq, to) == Len(to) =< Len(seq) /\ \A i \in 1..Len(to) : seq[i] = to[i]

LEMMA AddOneAdds ==
    ASSUME NEW T, NEW to \in Seq(T), NEW x \in T
    PROVE  /\ AddOne(x, to) \in Seq(T)
           /\ Extends(AddOne(x, to), to)
           /\ Names(AddOne(x, to)) = Names(to) \cup {x.name}
           /\ Distinct(to) => Distinct(AddOne(x, to))
<1>1. CASE x.name \in Names(to)
  <2>1. AddOne(x, to) = to /\ Len(to) \in Nat
    BY <1>1 DEF AddOne
  <2> QED
    BY <1>1, <2>1 DEF Extends
<1>2. CASE x.name \notin Names(to)
  <2> DEFINE t == Append(to, x)
  <2>1. AddOne(x, to) = t
    BY <1>2 DEF AddOne
  <2>2. /\ t \in Seq(T) /\ Len(to) \in Nat /\ Len(t) = Len(to) + 1
        /\ DOMAIN t = 1..(Len(to) + 1) /\ DOMAIN to = 1..Len(to)
        /\ t[Len(to) + 1] = x /\ \A i \in 1..Len(to) : t[i] = to[i]
    OBVIOUS
  <2> HIDE DEF t
  <2>3. \A i \in DOMAIN t : i \in DOMAIN to \/ i = Len(to) + 1
    BY <2>2
  <2>4. \A i \in DOMAIN to : to[i].name # x.name
    BY <1>2 DEF Names
  <2>5. Names(t) = Names(to) \cup {x.name}
    BY <2>2, <2>3 DEF Names
  <2>6. Distinct(to) => Distinct(t)
    BY <2>2, <2>3, <2>4 DEF Distinct
  <2> QED
    BY <2>1, <2>2, <2>5, <2>6 DEF Extends
<1> QED
  BY <1>1, <1>2

LEMMA AddedAdds ==
    ASSUME NEW T, NEW from \in Seq(T), NEW to \in Seq(T)
    PROVE  /\ Added(from, to) \in Seq(T)
           /\ Extends(Added(from, to), to)
           /\ Names(Added(from, to)) = Names(to) \cup Names(from)
           /\ Distinct(to) => Distinct(Added(from, to))
<1> DEFINE N == Len(from)
<1>0. N \in Nat /\ Len(to) \in Nat /\ DOMAIN from = 1..N
  OBVIOUS
<1>1. PICK f : /\ f[0] = to /\ Added(from, to) = f[N]
               /\ \A n \in 1..N : f[n] = AddOne(from[n], f[n - 1])
  BY <1>0, AddedIsLast
<1> DEFINE Good(n) == /\ f[n] \in Seq(T) /\ Extends(f[n], to)
                      /\ Names(f[n]) = Names(to) \cup {from[j].name : j \in 1..n}
                      /\ Distinct(to) => Distinct(f[n])
           S == {n \in 0..N : Good(n)}
<1>2. 0 \in S
  BY <1>0, <1>1 DEF Extends
<1>3. ASSUME NEW n \in 0..(N - 1), n \in S PROVE n + 1 \in S
  <2>1. n + 1 \in 1..N /\ from[n + 1] \in T /\ f[n + 1] = AddOne(from[n + 1], f[n])
    BY <1>0, <1>1
  <2>2. Good(n)
    BY <1>3
  <2>0. f[n] \in Seq(T)
    BY <2>2
  <2>3. /\ f[n + 1] \in Seq(T) /\ Extends(f[n + 1], f[n])
        /\ Names(f[n + 1]) = Names(f[n]) \cup {from[n + 1].name}
        /\ Distinct(f[n]) => Distinct(f[n + 1])
    BY ONLY <2>0, <2>1, AddOneAdds
  <2>4. Len(f[n]) \in Nat /\ Len(f[n + 1]) \in Nat
    BY <2>2, <2>3
  <2>5. Extends(f[n + 1], to)
    BY <1>0, <2>2, <2>3, <2>4 DEF Extends
  <2>6. {from[j].name : j \in 1..(n + 1)} = {from[j].name : j \in 1..n} \cup {from[n + 1].name}
    <3>1. 1..(n + 1) = 1..n \cup {n + 1}
      BY <1>0
    <3> QED
      BY <3>1
  <2> QED
    BY <2>1, <2>2, <2>3, <2>5, <2>6
<1>4. N \in S
  <2> HIDE DEF S, N
  <2> QED
    BY <1>0, <1>2, <1>3, Counting
<1>5. Good(N)
  BY <1>4
<1>6. Names(from) = {from[j].name : j \in 1..N}
  BY <1>0 DEF Names
<1> HIDE DEF N
<1> QED
  BY <1>1, <1>5, <1>6

-----------------------------------------------------------------------------
(* What is merged                                                          *)

\* The names of the consumers that some streams of a name have together.
Heard(S, name) == UNION {Names(y.consumers) : y \in {z \in S : z.name = name}}

Sound(seq) == Distinct(seq) /\ \A i \in DOMAIN seq : Distinct(seq[i].consumers)

\* The sequence has each of the streams once, with all the consumers it has there.
IsUnion(seq, S) ==
    /\ Names(seq) = {y.name : y \in S}
    /\ \A i \in DOMAIN seq : Names(seq[i].consumers) = Heard(S, seq[i].name)

\* The streams of "to" stay where they are, and may have more consumers.
Grows(seq, to) ==
    /\ Len(to) =< Len(seq)
    /\ \A i \in 1..Len(to) :
         /\ seq[i].name = to[i].name /\ seq[i].leader = to[i].leader /\ seq[i].origin = to[i].origin
         /\ Extends(seq[i].consumers, to[i].consumers)

LEMMA HeardUnion ==
    ASSUME NEW S, NEW T, NEW name
    PROVE  Heard(S \cup T, name) = Heard(S, name) \cup Heard(T, name)
  BY DEF Heard

LEMMA HeardOne ==
    ASSUME NEW x, NEW name
    PROVE  Heard({x}, name) = IF x.name = name THEN Names(x.consumers) ELSE {}
  BY DEF Heard

\* A sequence without two streams of a name is the union of its own.
LEMMA OwnUnion == ASSUME NEW seq, Distinct(seq) PROVE IsUnion(seq, Range(seq))
<1>1. Names(seq) = {y.name : y \in Range(seq)}
  BY DEF Names, Range
<1>2. ASSUME NEW i \in DOMAIN seq PROVE Names(seq[i].consumers) = Heard(Range(seq), seq[i].name)
  <2>1. {z \in Range(seq) : z.name = seq[i].name} = {seq[i]}
    BY DEF Range, Distinct
  <2> QED
    BY <2>1 DEF Heard
<1> QED
  BY <1>1, <1>2 DEF IsUnion

\* Who hears a union hears all of it.
LEMMA HeardAgain ==
    ASSUME NEW seq, NEW S, Distinct(seq), IsUnion(seq, S), NEW name
    PROVE  Heard(Range(seq), name) = Heard(S, name)
<1>1. CASE name \in Names(seq)
  <2>1. PICK i \in DOMAIN seq : seq[i].name = name
    BY <1>1 DEF Names
  <2>2. Names(seq[i].consumers) = Heard(Range(seq), name)
    BY <2>1, OwnUnion DEF IsUnion
  <2>3. Names(seq[i].consumers) = Heard(S, name)
    BY <2>1 DEF IsUnion
  <2> QED
    BY <2>2, <2>3
<1>2. CASE name \notin Names(seq)
  <2>1. \A y \in S : y.name # name
    BY <1>2 DEF IsUnion
  <2>2. \A y \in Range(seq) : y.name # name
    BY <1>2 DEF Names, Range
  <2>3. Heard(S, name) = {}
    BY <2>1 DEF Heard
  <2>4. Heard(Range(seq), name) = {}
    BY <2>2 DEF Heard
  <2> QED
    BY <2>3, <2>4
<1> QED
  BY <1>1, <1>2

LEMMA ExtendsItself == ASSUME NEW T, NEW seq \in Seq(T) PROVE Extends(seq, seq)
<1>1. Len(seq) \in Nat
  OBVIOUS
<1> QED
  BY <1>1 DEF Extends

LEMMA MergeOneMerges ==
    ASSUME NEW to \in Seq(StreamDetails), Sound(to), NEW x \in StreamDetails, Distinct(x.consumers)
    PROVE  /\ MergeOne(x, to) \in Seq(StreamDetails)
           /\ Sound(MergeOne(x, to))
           /\ Grows(MergeOne(x, to), to)
           /\ IsUnion(MergeOne(x, to), Range(to) \cup {x})
<1>0. /\ Len(to) \in Nat /\ DOMAIN to = 1..Len(to)
      /\ \A i \in 1..Len(to) : to[i] \in StreamDetails /\ to[i].consumers \in Seq(ConsumerDetails)
      /\ x.consumers \in Seq(ConsumerDetails)
  <2>1. \A y \in StreamDetails : y.consumers \in Seq(ConsumerDetails)
    BY DEF StreamDetails
  <2>2. Len(to) \in Nat /\ DOMAIN to = 1..Len(to) /\ \A i \in 1..Len(to) : to[i] \in StreamDetails
    OBVIOUS
  <2> QED
    BY <2>1, <2>2
<1>1. {y.name : y \in Range(to) \cup {x}} = Names(to) \cup {x.name}
  BY DEF Range, Names
<1>2. \A i \in DOMAIN to : Names(to[i].consumers) = Heard(Range(to), to[i].name)
  BY OwnUnion DEF Sound, IsUnion
<1>3. \A name : Heard(Range(to) \cup {x}, name) =
                  Heard(Range(to), name) \cup (IF x.name = name THEN Names(x.consumers) ELSE {})
  <2> TAKE name
  <2>1. Heard(Range(to) \cup {x}, name) = Heard(Range(to), name) \cup Heard({x}, name)
    BY HeardUnion
  <2> QED
    BY <2>1, HeardOne
<1>4. CASE x.name \in Names(to)
  <2> DEFINE t == [i \in DOMAIN to |->
                     IF to[i].name = x.name
                       THEN [to[i] EXCEPT !.consumers = Added(x.consumers, to[i].consumers)]
                       ELSE to[i]]
  <2>1. MergeOne(x, to) = t
    BY <1>4 DEF MergeOne, MergeStreamConsumers
  <2>2. ASSUME NEW i \in DOMAIN to
        PROVE  /\ t[i] \in StreamDetails
               /\ t[i].name = to[i].name /\ t[i].leader = to[i].leader /\ t[i].origin = to[i].origin
               /\ t[i].consumers = IF to[i].name = x.name THEN Added(x.consumers, to[i].consumers)
                                                        ELSE to[i].consumers
               /\ Extends(t[i].consumers, to[i].consumers)
               /\ Distinct(t[i].consumers)
               /\ Names(t[i].consumers) = Heard(Range(to) \cup {x}, to[i].name)
    <3>1. to[i] \in StreamDetails /\ to[i].consumers \in Seq(ConsumerDetails) /\ Distinct(to[i].consumers)
      BY <1>0 DEF Sound
    <3>2. /\ Added(x.consumers, to[i].consumers) \in Seq(ConsumerDetails)
          /\ Extends(Added(x.consumers, to[i].consumers), to[i].consumers)
          /\ Names(Added(x.consumers, to[i].consumers)) = Names(to[i].consumers) \cup Names(x.consumers)
          /\ Distinct(Added(x.consumers, to[i].consumers))
      BY <1>0, <3>1, AddedAdds
    <3>3. CASE to[i].name = x.name
      <4>1. t[i] = [to[i] EXCEPT !.consumers = Added(x.consumers, to[i].consumers)]
        BY <3>3
      <4>2. /\ t[i] \in StreamDetails /\ t[i].consumers = Added(x.consumers, to[i].consumers)
            /\ t[i].name = to[i].name /\ t[i].leader = to[i].leader /\ t[i].origin = to[i].origin
        BY <3>1, <3>2, <4>1 DEF StreamDetails
      <4> HIDE DEF t
      <4> QED
        BY <1>2, <1>3, <3>2, <3>3, <4>2
    <3>4. CASE to[i].name # x.name
      <4>1. t[i] = to[i]
        BY <3>4
      <4>2. Extends(to[i].consumers, to[i].consumers)
        BY <3>1, ExtendsItself
      <4> HIDE DEF t
      <4> QED
        BY <1>2, <1>3, <3>1, <3>4, <4>1, <4>2
    <3> QED
      BY <3>3, <3>4
  <2>3. DOMAIN t = DOMAIN to
    OBVIOUS
  <2> HIDE DEF t
  <2>4. t \in Seq(StreamDetails) /\ Len(t) = Len(to)
    <3>1. t = [i \in 1..Len(to) |-> t[i]]
      BY <1>0 DEF t
    <3>2. t \in [1..Len(to) -> StreamDetails]
      BY <1>0, <2>2, <3>1
    <3> QED
      BY <1>0, <3>2
  <2>5. Sound(t)
    BY <2>2, <2>3 DEF Sound, Distinct
  <2>6. Grows(t, to)
    BY <1>0, <2>2, <2>4 DEF Grows
  <2>7. Names(t) = Names(to) \cup {x.name}
    <3>1. Names(t) = Names(to)
      BY <2>2, <2>3 DEF Names
    <3> QED
      BY <1>4, <3>1
  <2>8. IsUnion(t, Range(to) \cup {x})
    BY <1>1, <2>2, <2>3, <2>7 DEF IsUnion
  <2> QED
    BY <2>1, <2>4, <2>5, <2>6, <2>8
<1>5. CASE x.name \notin Names(to)
  <2> DEFINE t == Append(to, x)
  <2>1. MergeOne(x, to) = t
    BY <1>5 DEF MergeOne
  <2>2. /\ t \in Seq(StreamDetails) /\ Len(t) = Len(to) + 1 /\ DOMAIN t = 1..(Len(to) + 1)
        /\ t[Len(to) + 1] = x /\ \A i \in 1..Len(to) : t[i] = to[i]
    OBVIOUS
  <2> HIDE DEF t
  <2>3. \A i \in DOMAIN t : i \in DOMAIN to \/ i = Len(to) + 1
    BY <1>0, <2>2
  <2>4. \A i \in DOMAIN to : to[i].name # x.name
    BY <1>5 DEF Names
  <2>5. Names(t) = Names(to) \cup {x.name}
    BY <1>0, <2>2, <2>3 DEF Names
  <2>6. Sound(t)
    BY <1>0, <2>2, <2>3, <2>4 DEF Sound, Distinct
  <2>7. Grows(t, to)
    BY <1>0, <2>2, ExtendsItself DEF Grows
  <2>8. Heard(Range(to), x.name) = {}
    BY <2>4 DEF Heard, Range
  <2>9. ASSUME NEW i \in DOMAIN t PROVE Names(t[i].consumers) = Heard(Range(to) \cup {x}, t[i].name)
    <3>1. CASE i \in DOMAIN to
      <4>1. t[i] = to[i] /\ x.name # to[i].name
        BY <1>0, <2>2, <2>4, <3>1
      <4>2. Heard(Range(to) \cup {x}, to[i].name) = Heard(Range(to), to[i].name)
        BY <1>3, <4>1
      <4> QED
        BY <1>2, <3>1, <4>1, <4>2
    <3>2. CASE i = Len(to) + 1
      BY <1>3, <2>2, <2>8, <3>2
    <3> QED
      BY <2>3, <3>1, <3>2
  <2>10. IsUnion(t, Range(to) \cup {x})
    BY <1>1, <2>5, <2>9 DEF IsUnion
  <2> QED
    BY <2>1, <2>2, <2>6, <2>7, <2>10
<1> QED
  BY <1>4, <1>5

LEMMA ExtendsOn ==
    ASSUME NEW a, NEW b, NEW c, Len(a) \in Nat, Len(b) \in Nat, Len(c) \in Nat, Extends(a, b), Extends(b, c)
    PROVE  Extends(a, c)
  BY DEF Extends

LEMMA GrowsOn ==
    ASSUME NEW a \in Seq(StreamDetails), NEW b \in Seq(StreamDetails), NEW c \in Seq(StreamDetails),
           Grows(a, b), Grows(b, c)
    PROVE  Grows(a, c)
<1>1. Len(a) \in Nat /\ Len(b) \in Nat /\ Len(c) \in Nat
  OBVIOUS
<1>2. ASSUME NEW seq \in Seq(StreamDetails), NEW i \in 1..Len(seq) PROVE Len(seq[i].consumers) \in Nat
  <2>1. seq[i] \in StreamDetails
    OBVIOUS
  <2>2. seq[i].consumers \in Seq(ConsumerDetails)
    BY <2>1 DEF StreamDetails
  <2> QED
    BY <2>2
<1>3. ASSUME NEW i \in 1..Len(c)
      PROVE  /\ a[i].name = c[i].name /\ a[i].leader = c[i].leader /\ a[i].origin = c[i].origin
             /\ Extends(a[i].consumers, c[i].consumers)
  <2>1. i \in 1..Len(b) /\ i \in 1..Len(a)
    BY <1>1 DEF Grows
  <2>2. Extends(a[i].consumers, b[i].consumers) /\ Extends(b[i].consumers, c[i].consumers)
    BY <2>1 DEF Grows
  <2>3. Extends(a[i].consumers, c[i].consumers)
    BY <1>2, <2>1, <2>2, ExtendsOn
  <2> QED
    BY <2>1, <2>3 DEF Grows
<1> QED
  BY <1>1, <1>3 DEF Grows

LEMMA GrowsItself == ASSUME NEW seq \in Seq(StreamDetails) PROVE Grows(seq, seq)
<1>1. Len(seq) \in Nat /\ \A i \in 1..Len(seq) : seq[i] \in StreamDetails
  OBVIOUS
<1>2. \A x \in StreamDetails : Extends(x.consumers, x.consumers)
  BY ExtendsItself DEF StreamDetails
<1> QED
  BY <1>1, <1>2 DEF Grows

\* A union with a union is a union.
LEMMA UnionAgain ==
    ASSUME NEW seq, NEW S, Distinct(seq), IsUnion(seq, S), NEW t, NEW T, IsUnion(t, Range(seq) \cup T)
    PROVE  IsUnion(t, S \cup T)
<1>1. {y.name : y \in Range(seq)} = {y.name : y \in S}
  BY OwnUnion DEF IsUnion
<1>2. {y.name : y \in Range(seq) \cup T} = {y.name : y \in S \cup T}
  BY <1>1
<1>3. ASSUME NEW name PROVE Heard(Range(seq) \cup T, name) = Heard(S \cup T, name)
  <2>1. Heard(Range(seq), name) = Heard(S, name)
    BY HeardAgain
  <2>2. Heard(Range(seq) \cup T, name) = Heard(Range(seq), name) \cup Heard(T, name)
    BY HeardUnion
  <2>3. Heard(S \cup T, name) = Heard(S, name) \cup Heard(T, name)
    BY HeardUnion
  <2> QED
    BY <2>1, <2>2, <2>3
<1> QED
  BY <1>2, <1>3 DEF IsUnion

\* The merge takes in all that there is, and takes nothing of what "to" says away.
LEMMA MergeMerges ==
    ASSUME NEW from \in Seq(StreamDetails), Sound(from), NEW to \in Seq(StreamDetails), Sound(to)
    PROVE  /\ MergeStreamDetails(from, to) \in Seq(StreamDetails)
           /\ Sound(MergeStreamDetails(from, to))
           /\ Grows(MergeStreamDetails(from, to), to)
           /\ IsUnion(MergeStreamDetails(from, to), Range(to) \cup Range(from))
<1> DEFINE N == Len(from)
<1>0. N \in Nat /\ DOMAIN from = 1..N
  OBVIOUS
<1>1. PICK f : /\ f[0] = to /\ MergeStreamDetails(from, to) = f[N]
               /\ \A n \in 1..N : f[n] = MergeOne(from[n], f[n - 1])
  BY <1>0, MergedIsLast
<1> DEFINE Good(n) == /\ f[n] \in Seq(StreamDetails) /\ Sound(f[n]) /\ Grows(f[n], to)
                      /\ IsUnion(f[n], Range(to) \cup {from[j] : j \in 1..n})
           S == {n \in 0..N : Good(n)}
<1>2. 0 \in S
  <2>1. Grows(to, to)
    BY GrowsItself
  <2>2. Range(to) \cup {from[j] : j \in 1..0} = Range(to)
    OBVIOUS
  <2>3. IsUnion(to, Range(to) \cup {from[j] : j \in 1..0})
    BY <2>2, OwnUnion DEF Sound
  <2> QED
    BY <1>0, <1>1, <2>1, <2>3
<1>3. ASSUME NEW n \in 0..(N - 1), n \in S PROVE n + 1 \in S
  <2>1. n + 1 \in 1..N /\ f[n + 1] = MergeOne(from[n + 1], f[n])
    BY <1>0, <1>1
  <2>2. from[n + 1] \in StreamDetails /\ Distinct(from[n + 1].consumers)
    BY <1>0, <2>1 DEF Sound
  <2>3. f[n] \in Seq(StreamDetails) /\ Sound(f[n]) /\ Grows(f[n], to)
    BY <1>3
  <2>4. IsUnion(f[n], Range(to) \cup {from[j] : j \in 1..n})
    BY <1>3
  <2>5. /\ f[n + 1] \in Seq(StreamDetails) /\ Sound(f[n + 1]) /\ Grows(f[n + 1], f[n])
        /\ IsUnion(f[n + 1], Range(f[n]) \cup {from[n + 1]})
    BY ONLY <2>1, <2>2, <2>3, MergeOneMerges
  <2>6. Grows(f[n + 1], to)
    BY ONLY to \in Seq(StreamDetails), <2>3, <2>5, GrowsOn
  <2>7. IsUnion(f[n + 1], (Range(to) \cup {from[j] : j \in 1..n}) \cup {from[n + 1]})
    BY ONLY <2>3, <2>4, <2>5, UnionAgain DEF Sound
  <2>8. (Range(to) \cup {from[j] : j \in 1..n}) \cup {from[n + 1]}
          = Range(to) \cup {from[j] : j \in 1..(n + 1)}
    <3>1. 1..(n + 1) = 1..n \cup {n + 1}
      BY <1>0
    <3> QED
      BY <3>1
  <2>9. Good(n + 1)
    BY <2>5, <2>6, <2>7, <2>8
  <2> QED
    BY <2>1, <2>9
<1>4. N \in S
  <2> HIDE DEF S, N
  <2> QED
    BY <1>0, <1>2, <1>3, Counting
<1>5. Good(N)
  BY <1>4
<1>6. Range(from) = {from[j] : j \in 1..N}
  BY <1>0 DEF Range
<1> HIDE DEF N
<1> QED
  BY <1>1, <1>5, <1>6

\* What a server reports carries its name, and is as sound as it was.
LEMMA ReportedIs ==
    ASSUME NEW d \in Details, NEW s \in Servers
    PROVE  /\ Reported(d, s) \in Seq(StreamDetails) /\ Sound(Reported(d, s))
           /\ \A i \in DOMAIN Reported(d, s) : Reported(d, s)[i].origin = s
<1>0. /\ d \in Seq(StreamDetails) /\ Distinct(d)
      /\ \A i \in DOMAIN d : Distinct(d[i].consumers)
  BY StatzRequestsAssumption
<1> DEFINE t == Reported(d, s)
           By(c) == [j \in DOMAIN c |-> [c[j] EXCEPT !.origin = s]]
<1>1. Len(d) \in Nat /\ DOMAIN d = 1..Len(d) /\ DOMAIN t = DOMAIN d
  BY <1>0 DEF Reported
<1>2. ASSUME NEW c \in Seq(ConsumerDetails), Distinct(c) PROVE By(c) \in Seq(ConsumerDetails) /\ Distinct(By(c))
  <2>1. Len(c) \in Nat /\ DOMAIN c = 1..Len(c) /\ \A j \in DOMAIN c : c[j] \in ConsumerDetails
    OBVIOUS
  <2>2. \A j \in DOMAIN c : By(c)[j] \in ConsumerDetails /\ By(c)[j].name = c[j].name
    BY <2>1 DEF ConsumerDetails, Leaders
  <2>3. By(c) \in [1..Len(c) -> ConsumerDetails]
    BY <2>1, <2>2
  <2>4. By(c) \in Seq(ConsumerDetails)
    BY <2>1, <2>3
  <2>5. DOMAIN By(c) = DOMAIN c
    OBVIOUS
  <2>6. Distinct(By(c))
    BY <1>2, <2>2, <2>5 DEF Distinct
  <2> QED
    BY <2>4, <2>6
<1>3. ASSUME NEW i \in DOMAIN d
      PROVE  /\ t[i] \in StreamDetails /\ t[i].name = d[i].name /\ t[i].origin = s
             /\ Distinct(t[i].consumers)
  <2>1. d[i] \in StreamDetails /\ d[i].consumers \in Seq(ConsumerDetails) /\ Distinct(d[i].consumers)
    <3>1. d[i] \in StreamDetails
      BY <1>0, <1>1
    <3> QED
      BY <1>0, <3>1 DEF StreamDetails
  <2>2. By(d[i].consumers) \in Seq(ConsumerDetails) /\ Distinct(By(d[i].consumers))
    BY <1>2, <2>1
  <2>3. t[i] = [d[i] EXCEPT !.origin = s, !.consumers = By(d[i].consumers)]
    BY DEF Reported
  <2> HIDE DEF By, t
  <2>4. t[i] \in StreamDetails /\ t[i].name = d[i].name /\ t[i].origin = s /\ t[i].consumers = By(d[i].consumers)
    BY <2>1, <2>2, <2>3 DEF StreamDetails, Leaders
  <2> QED
    BY <2>2, <2>4
<1>4. t = [i \in 1..Len(d) |-> t[i]]
  BY <1>1 DEF Reported
<1> HIDE DEF t
<1>5. t \in Seq(StreamDetails)
  <2>1. t \in [1..Len(d) -> StreamDetails]
    BY <1>1, <1>3, <1>4
  <2> QED
    BY <1>1, <2>1
<1>6. Sound(t)
  BY <1>0, <1>1, <1>3 DEF Sound, Distinct
<1> QED
  BY <1>1, <1>3, <1>5, <1>6 DEF t

-----------------------------------------------------------------------------
(* The inductive invariant.                                                *)

\* What one reply has become, and what it was.
Became(merged, own) ==
    /\ merged.server = own.server
    /\ DOMAIN merged.details = DOMAIN own.details
    /\ \A a \in DOMAIN own.details :
         /\ Sound(merged.details[a]) /\ Sound(own.details[a])
         /\ Grows(merged.details[a], own.details[a])
         /\ \A i \in DOMAIN own.details[a] : own.details[a][i].origin = own.server

RepliesInv ==
    /\ IsReplies(jss) /\ IsReplies(answers) /\ Len(answers) = Len(jss)
    /\ \A k \in 1..Len(jss) : Became(jss[k], answers[k])
    /\ \A k, l \in 1..Len(jss) : jss[k].server = jss[l].server => k = l
    /\ phase \in Kept => \A k \in 1..Len(jss) : jss[k].server \notin Range(res)

\* The details that stand for an account are those of the last reply that has it.
InfosInv ==
    /\ DOMAIN jsAccInfos = {a \in Accounts : Told(a) # {}}
    /\ jsAccInfos = [a \in DOMAIN jsAccInfos |-> jsAccInfos[a]]
    /\ \A a \in DOMAIN jsAccInfos :
         /\ jsAccInfos[a] \in Told(a)
         /\ IsUnion(AccountStreams(a), ToldStreams(a))

Nothing == jss = <<>> /\ answers = <<>> /\ jsAccInfos = Empty

\* There are such replies from their reading until all is exported.
WhenInv == ((stage # "read" \/ phase \notin Kept) /\ phase # "build") => Nothing

JInv == RepliesInv /\ InfosInv /\ WhenInv

LEMMA NothingIs == Nothing => RepliesInv /\ InfosInv
<1> SUFFICES ASSUME Nothing
             PROVE  RepliesInv /\ InfosInv
  OBVIOUS
<1>1. Range(<<>>) = {} /\ <<>> \in Seq({}) /\ Len(<<>>) = 0 /\ DOMAIN <<>> = {}
  BY DEF Range
<1>2. RepliesInv
  BY <1>1 DEF Nothing, RepliesInv, IsReplies
<1>3. \A a : Told(a) = {}
  BY <1>1 DEF Nothing, Told
<1>4. DOMAIN jsAccInfos = {} /\ jsAccInfos = [a \in DOMAIN jsAccInfos |-> jsAccInfos[a]]
  BY DEF Nothing, Empty
<1> QED
  BY <1>2, <1>3, <1>4 DEF InfosInv

LEMMA JInitial == Init => JInv
<1> SUFFICES ASSUME Init
             PROVE  JInv
  OBVIOUS
<1>1. Nothing
  BY DEF Init, Nothing
<1> QED
  BY <1>1, NothingIs DEF JInv, WhenInv

LEMMA AppendIs ==
    ASSUME NEW seq, IsReplies(seq), NEW r, r.server \in Servers, DOMAIN r.details \subseteq Accounts,
           r.details \in [DOMAIN r.details -> Seq(StreamDetails)]
    PROVE  /\ IsReplies(Append(seq, r))
           /\ Len(seq) \in Nat /\ Len(Append(seq, r)) = Len(seq) + 1
           /\ DOMAIN seq = 1..Len(seq) /\ DOMAIN Append(seq, r) = 1..(Len(seq) + 1)
           /\ Append(seq, r)[Len(seq) + 1] = r
           /\ \A k \in 1..Len(seq) : Append(seq, r)[k] = seq[k]
<1> DEFINE S == Range(seq) \cup {r}
           t == Append(seq, r)
<1>1. seq \in Seq(Range(seq))
  BY DEF IsReplies
<1>2. Len(seq) \in Nat /\ DOMAIN seq = 1..Len(seq) /\ \A k \in 1..Len(seq) : seq[k] \in S
  BY <1>1
<1>3. seq \in Seq(S)
  BY <1>1, <1>2
<1>4. /\ Len(t) = Len(seq) + 1 /\ DOMAIN t = 1..(Len(seq) + 1)
      /\ t[Len(seq) + 1] = r /\ \A k \in 1..Len(seq) : t[k] = seq[k]
  BY <1>3
<1> HIDE DEF t
<1>5. Range(t) = S
  <2>1. \A k \in DOMAIN t : k \in DOMAIN seq \/ k = Len(seq) + 1
    BY <1>2, <1>4
  <2>2. Len(seq) + 1 \in DOMAIN t /\ \A k \in DOMAIN seq : k \in DOMAIN t
    BY <1>2, <1>4
  <2> QED
    BY <1>2, <1>4, <2>1, <2>2 DEF Range
<1>6. t \in Seq(Range(t))
  <2>1. Append(seq, r) \in Seq(S)
    BY <1>3
  <2> QED
    BY <1>5, <2>1 DEF t
<1>7. IsReplies(t)
  BY <1>5, <1>6 DEF IsReplies
<1> QED
  BY <1>2, <1>4, <1>7 DEF t

LEMMA JReadJsz ==
    ASSUME RInv, OnceEach, JInv, ReadJsz
    PROVE  JInv'
<1> DEFINE s == Head(res)
           N == Len(jss)
<1>1. /\ phase \in Kept /\ stage = "read" /\ res # <<>>
      /\ UNCHANGED <<phase, stage>> /\ UNCHANGED <<coming, msgsChan, stuck>>
      /\ res' \in {<<>>, Tail(res)}
  BY DEF ReadJsz, Reading, Accept, requestVars
<1>2. s \in Servers /\ s \in Range(res) /\ s \notin Range(res') /\ Range(res') \subseteq Range(res)
  <2>1. res \in Seq(Servers) /\ IsInjective(res)
    BY DEF RInv, RequestInv, OnceEach
  <2>2. s \in Range(res)
    BY <1>1, <2>1, TailOnce
  <2>3. s \in Servers
    BY <2>1, <2>2, SeqRange
  <2> QED
    BY <1>1, <2>2, <2>3, OnceReading
<1>3a. PICK accounts \in SUBSET Accounts : \E told \in [accounts -> Details] :
        LET own == [a \in accounts |-> Reported(told[a], s)]
            merged == [a \in accounts |->
                         IF a \in DOMAIN jsAccInfos
                           THEN MergeStreamDetails(jss[jsAccInfos[a]].details[a], own[a])
                           ELSE own[a]]
        IN  /\ jss' = Append(jss, [server |-> s, details |-> merged])
            /\ answers' = Append(answers, [server |-> s, details |-> own])
            /\ jsAccInfos' = [a \in accounts \cup DOMAIN jsAccInfos |->
                                IF a \in accounts THEN Len(jss') ELSE jsAccInfos[a]]
  BY DEF ReadJsz
<1>3. PICK told \in [accounts -> Details] :
        LET own == [a \in accounts |-> Reported(told[a], s)]
            merged == [a \in accounts |->
                         IF a \in DOMAIN jsAccInfos
                           THEN MergeStreamDetails(jss[jsAccInfos[a]].details[a], own[a])
                           ELSE own[a]]
        IN  /\ jss' = Append(jss, [server |-> s, details |-> merged])
            /\ answers' = Append(answers, [server |-> s, details |-> own])
            /\ jsAccInfos' = [a \in accounts \cup DOMAIN jsAccInfos |->
                                IF a \in accounts THEN Len(jss') ELSE jsAccInfos[a]]
  BY <1>3a
<1> DEFINE own == [a \in accounts |-> Reported(told[a], s)]
           merged == [a \in accounts |->
                        IF a \in DOMAIN jsAccInfos
                          THEN MergeStreamDetails(jss[jsAccInfos[a]].details[a], own[a])
                          ELSE own[a]]
           reply == [server |-> s, details |-> merged]
           answer == [server |-> s, details |-> own]
<1>4. /\ jss' = Append(jss, reply) /\ answers' = Append(answers, answer)
      /\ jsAccInfos' = [a \in accounts \cup DOMAIN jsAccInfos |->
                          IF a \in accounts THEN Len(jss') ELSE jsAccInfos[a]]
  BY <1>3
<1>5. ASSUME NEW a \in accounts
      PROVE  /\ own[a] \in Seq(StreamDetails) /\ Sound(own[a])
             /\ \A i \in DOMAIN own[a] : own[a][i].origin = s
  BY <1>2, ReportedIs
<1>6. DOMAIN own = accounts /\ DOMAIN merged = accounts
  OBVIOUS
<1>7. N \in Nat /\ DOMAIN jss = 1..N /\ DOMAIN answers = 1..N /\ Len(answers) = N
  BY DEF JInv, RepliesInv, IsReplies
<1>8. ASSUME NEW a \in DOMAIN jsAccInfos
      PROVE  /\ jsAccInfos[a] \in 1..N /\ AccountStreams(a) \in Seq(StreamDetails)
             /\ Sound(AccountStreams(a))
  <2>1. jsAccInfos[a] \in 1..N /\ a \in DOMAIN answers[jsAccInfos[a]].details
    BY <1>7 DEF JInv, InfosInv, Told
  <2>2. Became(jss[jsAccInfos[a]], answers[jsAccInfos[a]])
    BY <2>1 DEF JInv, RepliesInv
  <2>3. a \in DOMAIN jss[jsAccInfos[a]].details
    BY <2>1, <2>2 DEF Became
  <2>4. jss[jsAccInfos[a]] \in Range(jss)
    BY <1>7, <2>1 DEF Range
  <2>5. jss[jsAccInfos[a]].details \in [DOMAIN jss[jsAccInfos[a]].details -> Seq(StreamDetails)]
    BY <2>4 DEF JInv, RepliesInv, IsReplies
  <2>6. jss[jsAccInfos[a]].details[a] \in Seq(StreamDetails)
    BY <2>3, <2>5
  <2>7. Sound(jss[jsAccInfos[a]].details[a])
    BY <2>1, <2>2 DEF Became
  <2> QED
    BY <2>1, <2>6, <2>7 DEF AccountStreams
<1>9. ASSUME NEW a \in accounts
      PROVE  /\ merged[a] \in Seq(StreamDetails) /\ Sound(merged[a]) /\ Grows(merged[a], own[a])
             /\ IsUnion(merged[a], Range(own[a]) \cup (IF a \in DOMAIN jsAccInfos THEN Range(AccountStreams(a)) ELSE {}))
  <2>1. own[a] \in Seq(StreamDetails) /\ Sound(own[a])
    BY <1>5
  <2>2. CASE a \in DOMAIN jsAccInfos
    <3>1. merged[a] = MergeStreamDetails(AccountStreams(a), own[a])
      BY <2>2 DEF AccountStreams
    <3>2. AccountStreams(a) \in Seq(StreamDetails) /\ Sound(AccountStreams(a))
      BY <1>8, <2>2
    <3> HIDE DEF own, merged
    <3> QED
      BY <2>1, <2>2, <3>1, <3>2, MergeMerges
  <2>3. CASE a \notin DOMAIN jsAccInfos
    <3>1. merged[a] = own[a]
      BY <2>3
    <3> HIDE DEF own, merged
    <3>2. Grows(own[a], own[a]) /\ IsUnion(own[a], Range(own[a]))
      BY <2>1, GrowsItself, OwnUnion DEF Sound
    <3>3. Range(own[a]) \cup {} = Range(own[a])
      OBVIOUS
    <3> QED
      BY <2>1, <2>3, <3>1, <3>2, <3>3
  <2> QED
    BY <2>2, <2>3
<1> HIDE DEF own, merged
<1>10. /\ reply.server = s /\ reply.details = merged /\ answer.server = s /\ answer.details = own
  OBVIOUS
<1>11. merged = [a \in accounts |-> merged[a]] /\ own = [a \in accounts |-> own[a]]
  BY DEF merged, own
<1> HIDE DEF reply, answer
<1>12. /\ merged \in [DOMAIN merged -> Seq(StreamDetails)]
       /\ own \in [DOMAIN own -> Seq(StreamDetails)]
  BY <1>5, <1>6, <1>9, <1>11
<1>13. /\ IsReplies(jss') /\ Len(jss') = N + 1 /\ DOMAIN jss' = 1..(N + 1)
       /\ jss'[N + 1] = reply /\ \A k \in 1..N : jss'[k] = jss[k]
  <2>1. IsReplies(jss)
    BY DEF JInv, RepliesInv
  <2> QED
    BY <1>2, <1>4, <1>6, <1>7, <1>10, <1>12, <2>1, AppendIs
<1>14. /\ IsReplies(answers') /\ Len(answers') = N + 1 /\ DOMAIN answers' = 1..(N + 1)
       /\ answers'[N + 1] = answer /\ \A k \in 1..N : answers'[k] = answers[k]
  <2>1. IsReplies(answers)
    BY DEF JInv, RepliesInv
  <2>2. /\ answer.server \in Servers /\ DOMAIN answer.details \subseteq Accounts
        /\ answer.details \in [DOMAIN answer.details -> Seq(StreamDetails)]
    BY <1>2, <1>6, <1>10, <1>12
  <2>3. /\ IsReplies(Append(answers, answer))
        /\ Len(Append(answers, answer)) = Len(answers) + 1
        /\ DOMAIN Append(answers, answer) = 1..(Len(answers) + 1)
        /\ Append(answers, answer)[Len(answers) + 1] = answer
        /\ \A k \in 1..Len(answers) : Append(answers, answer)[k] = answers[k]
    BY ONLY <2>1, <2>2, AppendIs
  <2> QED
    BY <1>4, <1>7, <2>3
<1>15. \A k \in 1..(N + 1) : k \in 1..N \/ k = N + 1
  BY <1>7
<1>16. Became(reply, answer)
  BY <1>5, <1>6, <1>9, <1>10 DEF Became
<1>17. \A k \in 1..N : jss[k].server # s
  BY <1>1, <1>2 DEF JInv, RepliesInv
<1>18. RepliesInv'
  <2>1. \A k \in 1..(N + 1) : Became(jss'[k], answers'[k])
    BY <1>13, <1>14, <1>15, <1>16 DEF JInv, RepliesInv
  <2>2. \A k, l \in 1..(N + 1) : jss'[k].server = jss'[l].server => k = l
    BY <1>10, <1>13, <1>15, <1>17 DEF JInv, RepliesInv
  <2>3. \A k \in 1..(N + 1) : jss'[k].server \notin Range(res')
    BY <1>1, <1>2, <1>10, <1>13, <1>15 DEF JInv, RepliesInv
  <2> QED
    BY <1>13, <1>14, <2>1, <2>2, <2>3 DEF RepliesInv
<1>19. ASSUME NEW a PROVE Told(a)' = IF a \in accounts THEN Told(a) \cup {N + 1} ELSE Told(a)
  <2>1. Told(a)' = {k \in 1..(N + 1) : a \in DOMAIN answers'[k].details}
    BY <1>14 DEF Told
  <2>2. Told(a) = {k \in 1..N : a \in DOMAIN answers[k].details}
    BY <1>7 DEF Told
  <2>3. N + 1 \in 1..(N + 1) /\ \A k \in 1..N : k \in 1..(N + 1)
    BY <1>7
  <2> QED
    BY <1>6, <1>10, <1>14, <1>15, <2>1, <2>2, <2>3
<1>20. ASSUME NEW a
       PROVE  ToldStreams(a)' = ToldStreams(a) \cup (IF a \in accounts THEN Range(own[a]) ELSE {})
  <2>1. ToldStreams(a)' = UNION {Range(answers'[k].details[a]) : k \in Told(a)'}
    BY DEF ToldStreams
  <2>2. \A k \in Told(a) : answers'[k] = answers[k]
    BY <1>7, <1>14 DEF Told
  <2>3. answers'[N + 1].details[a] = own[a]
    BY <1>10, <1>14
  <2> QED
    BY <1>19, <2>1, <2>2, <2>3 DEF ToldStreams
<1>21. DOMAIN jsAccInfos' = accounts \cup DOMAIN jsAccInfos
  BY <1>4
<1>22. DOMAIN jsAccInfos' = {a \in Accounts : Told(a)' # {}}
  BY <1>19, <1>21 DEF JInv, InfosInv
<1>23. ASSUME NEW a \in DOMAIN jsAccInfos'
       PROVE  jsAccInfos'[a] \in Told(a)' /\ IsUnion(AccountStreams(a)', ToldStreams(a)')
  <2>1. CASE a \in accounts
    <3>1. jsAccInfos'[a] = N + 1
      BY <1>4, <1>13, <2>1
    <3>2. AccountStreams(a)' = merged[a]
      BY <1>10, <1>13, <3>1 DEF AccountStreams
    <3>3. IsUnion(merged[a], Range(own[a]) \cup (IF a \in DOMAIN jsAccInfos THEN Range(AccountStreams(a)) ELSE {}))
      BY <1>9, <2>1
    <3>4. ToldStreams(a)' = ToldStreams(a) \cup Range(own[a])
      BY <1>20, <2>1
    <3>5. CASE a \in DOMAIN jsAccInfos
      <4>1. IsUnion(AccountStreams(a), ToldStreams(a))
        BY <3>5 DEF JInv, InfosInv
      <4>2. Distinct(AccountStreams(a))
        BY <1>8, <3>5 DEF Sound
      <4>3. Range(own[a]) \cup (IF a \in DOMAIN jsAccInfos THEN Range(AccountStreams(a)) ELSE {})
              = Range(AccountStreams(a)) \cup Range(own[a])
        BY <3>5
      <4>4. IsUnion(merged[a], Range(AccountStreams(a)) \cup Range(own[a]))
        BY <3>3, <4>3
      <4>5. IsUnion(merged[a], ToldStreams(a) \cup Range(own[a]))
        BY <4>1, <4>2, <4>4, UnionAgain
      <4> QED
        BY <1>19, <2>1, <3>1, <3>2, <3>4, <4>5
    <3>6. CASE a \notin DOMAIN jsAccInfos
      <4>1. Told(a) = {}
        BY <2>1, <3>6 DEF JInv, InfosInv
      <4>2. ToldStreams(a)' = Range(own[a])
        BY <3>4, <4>1 DEF ToldStreams
      <4>3. Range(own[a]) \cup (IF a \in DOMAIN jsAccInfos THEN Range(AccountStreams(a)) ELSE {}) = Range(own[a])
        BY <3>6
      <4> QED
        BY <1>19, <2>1, <3>1, <3>2, <3>3, <4>2, <4>3
    <3> QED
      BY <3>5, <3>6
  <2>2. CASE a \notin accounts
    <3>1. a \in DOMAIN jsAccInfos /\ jsAccInfos'[a] = jsAccInfos[a]
      BY <1>4, <1>21, <2>2
    <3>2. AccountStreams(a)' = AccountStreams(a)
      BY <1>8, <1>13, <3>1 DEF AccountStreams
    <3>3. Told(a)' = Told(a) /\ ToldStreams(a)' = ToldStreams(a)
      BY <1>19, <1>20, <2>2
    <3> QED
      BY <3>1, <3>2, <3>3 DEF JInv, InfosInv
  <2> QED
    BY <2>1, <2>2
<1>24. jsAccInfos' = [a \in DOMAIN jsAccInfos' |-> jsAccInfos'[a]]
  BY <1>4
<1>25. InfosInv'
  BY <1>22, <1>23, <1>24 DEF InfosInv
<1>26. WhenInv'
  BY <1>1 DEF WhenInv
<1> QED
  BY <1>18, <1>25, <1>26 DEF JInv

LEMMA NothingNext == Nothing' => JInv'
<1>1. Nothing => JInv
  BY NothingIs DEF JInv, WhenInv
<1> QED
  BY <1>1, PTL

\* The details stay as they are, and so does what is read of the request.
LEMMA JKept ==
    ASSUME JInv, UNCHANGED jszVars, WhenInv',
           phase' \in Kept => phase \in Kept /\ Range(res') \subseteq Range(res)
    PROVE  JInv'
<1>1. UNCHANGED <<jss, answers, jsAccInfos>>
  BY DEF jszVars
<1>2. RepliesInv'
  BY <1>1 DEF JInv, RepliesInv
<1>3. \A a : UNCHANGED <<Told(a), ToldStreams(a), AccountStreams(a)>>
  BY <1>1 DEF Told, ToldStreams, AccountStreams
<1>4. InfosInv'
  BY <1>1, <1>3 DEF JInv, InfosInv
<1> QED
  BY <1>2, <1>4 DEF JInv

LEMMA JNext == RInv /\ OnceEach /\ JInv /\ [Next]_vars => JInv'
<1> SUFFICES ASSUME RInv, OnceEach, JInv, [Next]_vars
             PROVE  JInv'
  OBVIOUS
<1>1. ASSUME UNCHANGED jszVars, stage # "read" \/ phase \notin Kept, phase # "build"
      PROVE  JInv'
  <2>1. Nothing
    BY <1>1 DEF JInv, WhenInv
  <2>2. Nothing'
    BY <1>1, <2>1 DEF Nothing, jszVars
  <2> QED
    BY <2>2, NothingNext
<1>2. CASE Begin \/ Send \/ SendFails \/ (\E s \in coming : Callback(s)) \/ CallbackResumes
           \/ Receive \/ Timeout \/ Unsubscribe
  <2>1. UNCHANGED jszVars
    BY <1>2 DEF Begin, Send, SendFails, Callback, CallbackResumes, Receive, Timeout, Unsubscribe
  <2>2. stage # "read" /\ phase # "build"
    BY <1>2 DEF Begin, Send, SendFails, Callback, CallbackResumes, Receive, Timeout, Unsubscribe,
       Kinds, RInv, StageInv
  <2> QED
    BY <1>1, <2>1, <2>2
<1>3. CASE ReadPlain \/ ReadAccounts
  <2>1. UNCHANGED jszVars /\ phase \notin Kept /\ phase # "build"
    BY <1>3 DEF ReadPlain, ReadAccounts, Reading, Kept
  <2> QED
    BY <1>1, <2>1
<1>4. CASE ReadBad
  <2>1. /\ UNCHANGED <<phase, stage, coming, msgsChan, stuck>> /\ UNCHANGED jszVars
        /\ stage = "read" /\ res # <<>> /\ res' = Tail(res)
    BY <1>4 DEF ReadBad, Reading, requestVars
  <2>2. Range(res') \subseteq Range(res)
    BY <2>1, OnceReading
  <2>3. WhenInv'
    BY <2>1 DEF JInv, WhenInv, Nothing, jszVars
  <2> QED
    BY <2>1, <2>2, <2>3, JKept
<1>5. CASE ReadJsz
  BY <1>5, JReadJsz
<1>6. CASE ReadNotEnabled \/ Build
  <2>1. Nothing'
    BY <1>6 DEF ReadNotEnabled, Build, Nothing
  <2> QED
    BY <2>1, NothingNext
<1>7. CASE Finish
  <2>1. /\ phase' \in Following(phase) /\ phase \in Kinds \cup {"given"} /\ UNCHANGED jszVars
    BY <1>7 DEF Finish
  <2>2. CASE phase \in Kept
    <3>1. phase' = "build"
      BY <2>1, <2>2 DEF Following, Kept, Kinds
    <3> QED
      BY <2>1, <3>1, JKept DEF WhenInv, Kept
  <2>3. CASE phase \notin Kept
    BY <1>1, <2>1, <2>3 DEF Kinds, Kept
  <2> QED
    BY <2>2, <2>3
<1>8. CASE UNCHANGED vars
  <2>1. UNCHANGED <<phase, stage, res, jss, answers, jsAccInfos>> /\ UNCHANGED jszVars
    BY <1>8 DEF vars, jszVars
  <2>2. WhenInv'
    BY <2>1 DEF JInv, WhenInv, Nothing
  <2> QED
    BY <2>1, <2>2, JKept
<1> QED
  BY <1>2, <1>3, <1>4, <1>5, <1>6, <1>7, <1>8 DEF Next

LEMMA JAlways == Spec => [](RInv /\ JInv)
<1>1. Init => RInv /\ OnceEach /\ JInv
  BY RInvInitial, OnceInitial, JInitial
<1>2. (RInv /\ OnceEach /\ JInv) /\ [Next]_vars => (RInv /\ OnceEach /\ JInv)'
  BY RInvStep, OnceStep, JNext
<1> QED
  BY <1>1, <1>2, PTL DEF Spec

-----------------------------------------------------------------------------
(* What the merge and the export guarantee.                                *)

\* The details that the last server with an account ends up with have every stream
\* that any server has reported of it, once, each with every consumer that any has
\* reported of that stream, once (mergeStreamDetails and mergeStreamConsumers).
THEOREM MergeIsUnion == Spec => []MergedIsUnion
<1>1. RInv /\ JInv => MergedIsUnion
  <2> SUFFICES ASSUME JInv
               PROVE  MergedIsUnion
    OBVIOUS
  <2>1. DOMAIN jsAccInfos = {a \in Accounts : Told(a) # {}}
    BY DEF JInv, InfosInv
  <2>2. ASSUME NEW a \in DOMAIN jsAccInfos
        PROVE  Sound(AccountStreams(a)) /\ IsUnion(AccountStreams(a), ToldStreams(a))
    <3>1. jsAccInfos[a] \in DOMAIN answers /\ a \in DOMAIN answers[jsAccInfos[a]].details
      BY DEF JInv, InfosInv, Told
    <3>2. DOMAIN answers = 1..Len(jss)
      BY DEF JInv, RepliesInv, IsReplies
    <3>3. Became(jss[jsAccInfos[a]], answers[jsAccInfos[a]])
      BY <3>1, <3>2 DEF JInv, RepliesInv
    <3>4. Sound(AccountStreams(a))
      BY <3>1, <3>3 DEF Became, AccountStreams
    <3> QED
      BY <3>4 DEF JInv, InfosInv
  <2>3. ASSUME NEW a \in DOMAIN jsAccInfos, NEW x \in Range(AccountStreams(a))
        PROVE  /\ Distinct(x.consumers)
               /\ Names(x.consumers) = Heard(ToldStreams(a), x.name)
    <3>1. PICK i \in DOMAIN AccountStreams(a) : x = AccountStreams(a)[i]
      BY DEF Range
    <3> QED
      BY <2>2, <3>1 DEF Sound, IsUnion
  <2> QED
    BY <2>1, <2>2, <2>3 DEF MergedIsUnion, Sound, IsUnion, Heard
<1> QED
  BY <1>1, JAlways, PTL

LEMMA CellIs ==
    ASSUME JInv, NEW c \in StreamCells
    PROVE  /\ c = <<c[1], c[2], c[3]>>
           /\ c[1] \in 1..Len(jss) /\ c[2] \in DOMAIN jss[c[1]].details
           /\ c[3] \in DOMAIN jss[c[1]].details[c[2]]
           /\ Sound(jss[c[1]].details[c[2]])
<1>1. PICK k \in DOMAIN jss :
        c \in UNION {{<<k, a, i>> : i \in DOMAIN jss[k].details[a]} : a \in DOMAIN jss[k].details}
  BY DEF StreamCells
<1>2. PICK a \in DOMAIN jss[k].details : c \in {<<k, a, i>> : i \in DOMAIN jss[k].details[a]}
  BY <1>1
<1>3. PICK i \in DOMAIN jss[k].details[a] : c = <<k, a, i>>
  BY <1>2
<1>4. DOMAIN jss = 1..Len(jss)
  BY DEF JInv, RepliesInv, IsReplies
<1>5. Became(jss[k], answers[k])
  BY <1>4 DEF JInv, RepliesInv
<1>6. Sound(jss[k].details[a])
  BY <1>5 DEF Became
<1>7. c[1] = k /\ c[2] = a /\ c[3] = i
  BY <1>3
<1> QED
  BY <1>3, <1>4, <1>6, <1>7

LEMMA SameCell ==
    ASSUME JInv, NEW c \in StreamCells, NEW d \in StreamCells, StreamLabels(c) = StreamLabels(d)
    PROVE  c = d
<1>1. c[2] = d[2] /\ Server(c) = Server(d) /\ Stream(c).name = Stream(d).name
  BY DEF StreamLabels
<1>2. /\ c[1] \in 1..Len(jss) /\ c[3] \in DOMAIN jss[c[1]].details[c[2]]
      /\ Sound(jss[c[1]].details[c[2]]) /\ c = <<c[1], c[2], c[3]>>
  BY CellIs
<1>3. d[1] \in 1..Len(jss) /\ d[3] \in DOMAIN jss[d[1]].details[d[2]] /\ d = <<d[1], d[2], d[3]>>
  BY CellIs
<1>4. c[1] = d[1]
  BY <1>1, <1>2, <1>3 DEF JInv, RepliesInv, Server
<1>5. c[3] = d[3]
  BY <1>1, <1>2, <1>3, <1>4 DEF Sound, Distinct, Stream
<1> QED
  BY <1>1, <1>2, <1>3, <1>4, <1>5

\* No two series of streams, and none of consumers, have the same labels, although a
\* server's details take in streams of other servers (Collect).
THEOREM DistinctSeries == Spec => []SeriesAreDistinct
<1>1. RInv /\ JInv => SeriesAreDistinct
  <2> SUFFICES ASSUME JInv
               PROVE  /\ IsInjective([c \in StreamCells |-> StreamLabels(c)])
                      /\ IsInjective([q \in ConsumerCells |-> ConsumerLabels(q)])
    BY DEF SeriesAreDistinct
  <2>1. IsInjective([c \in StreamCells |-> StreamLabels(c)])
    BY SameCell DEF IsInjective
  <2>2. ASSUME NEW q \in ConsumerCells
        PROVE  q[1] \in StreamCells /\ q[2] \in DOMAIN Stream(q[1]).consumers /\ q = <<q[1], q[2]>>
    <3>1. PICK c \in StreamCells : q \in {<<c, j>> : j \in DOMAIN Stream(c).consumers}
      BY DEF ConsumerCells
    <3>2. PICK j \in DOMAIN Stream(c).consumers : q = <<c, j>>
      BY <3>1
    <3> QED
      BY <3>2
  <2>3. ASSUME NEW q \in ConsumerCells, NEW r \in ConsumerCells, ConsumerLabels(q) = ConsumerLabels(r)
        PROVE  q = r
    <3>1. StreamLabels(q[1]) = StreamLabels(r[1]) /\ Consumer(q).name = Consumer(r).name
      BY <2>3 DEF ConsumerLabels
    <3>2. q[1] = r[1]
      BY <2>2, <3>1, SameCell
    <3>3. /\ q[1][3] \in DOMAIN jss[q[1][1]].details[q[1][2]]
          /\ Sound(jss[q[1][1]].details[q[1][2]])
      BY <2>2, CellIs
    <3>4. Distinct(Stream(q[1]).consumers)
      BY <3>3 DEF Sound, Stream
    <3>5. q[2] = r[2]
      BY <2>2, <3>1, <3>2, <3>4 DEF Distinct, Consumer
    <3> QED
      BY <2>2, <3>2, <3>5
  <2>4. IsInjective([q \in ConsumerCells |-> ConsumerLabels(q)])
    BY <2>3 DEF IsInjective
  <2> QED
    BY <2>1, <2>4
<1> QED
  BY <1>1, JAlways, PTL

\* What a server has said of a stream stands where it was, with the rest of its consumers.
LEMMA OwnCell ==
    ASSUME JInv, NEW k \in DOMAIN answers, NEW a \in DOMAIN answers[k].details,
           NEW i \in DOMAIN answers[k].details[a]
    PROVE  LET x == answers[k].details[a][i]
               c == <<k, a, i>>
           IN  /\ c \in StreamCells
               /\ StreamLabels(c) = <<a, answers[k].server, x.name, x.leader>>
               /\ Server(c) = answers[k].server
               /\ Stream(c).origin = answers[k].server
               /\ x.consumers \in Seq(ConsumerDetails)
               /\ \A j \in DOMAIN x.consumers :
                    j \in DOMAIN Stream(c).consumers /\ Stream(c).consumers[j] = x.consumers[j]
<1> DEFINE x == answers[k].details[a][i]
           y == jss[k].details[a][i]
           c == <<k, a, i>>
<1>1. DOMAIN answers = 1..Len(jss) /\ DOMAIN jss = 1..Len(jss)
  BY DEF JInv, RepliesInv, IsReplies
<1>2. Became(jss[k], answers[k])
  BY <1>1 DEF JInv, RepliesInv
<1>3. /\ a \in DOMAIN jss[k].details /\ jss[k].server = answers[k].server
      /\ Grows(jss[k].details[a], answers[k].details[a]) /\ x.origin = answers[k].server
  BY <1>2 DEF Became
<1>4. answers[k].details[a] \in Seq(StreamDetails) /\ jss[k].details[a] \in Seq(StreamDetails)
  <2>1. answers[k] \in Range(answers) /\ jss[k] \in Range(jss)
    BY <1>1 DEF Range
  <2>2. /\ answers[k].details \in [DOMAIN answers[k].details -> Seq(StreamDetails)]
        /\ jss[k].details \in [DOMAIN jss[k].details -> Seq(StreamDetails)]
    BY <2>1 DEF JInv, RepliesInv, IsReplies
  <2> QED
    BY <1>3, <2>2
<1>5. i \in 1..Len(answers[k].details[a]) /\ i \in DOMAIN jss[k].details[a]
  BY <1>3, <1>4 DEF Grows
<1>6. /\ x.consumers \in Seq(ConsumerDetails) /\ y.consumers \in Seq(ConsumerDetails)
  <2>1. \A z \in StreamDetails : z.consumers \in Seq(ConsumerDetails)
    BY DEF StreamDetails
  <2>2. x \in StreamDetails /\ y \in StreamDetails
    BY <1>4, <1>5
  <2> HIDE DEF x, y
  <2> QED
    BY <2>1, <2>2
<1>7. /\ y.name = x.name /\ y.leader = x.leader /\ y.origin = x.origin
      /\ Extends(y.consumers, x.consumers)
  BY <1>3, <1>5 DEF Grows
<1>8. c[1] = k /\ c[2] = a /\ c[3] = i
  OBVIOUS
<1>9. Server(c) = answers[k].server /\ Stream(c) = y
  BY <1>3, <1>8 DEF Server, Stream
<1>10. c \in StreamCells
  BY <1>1, <1>3, <1>5 DEF StreamCells
<1> HIDE DEF c, x, y
<1>11. StreamLabels(c) = <<a, answers[k].server, x.name, x.leader>>
  BY <1>7, <1>8, <1>9 DEF StreamLabels
<1>12. \A j \in DOMAIN x.consumers : j \in DOMAIN y.consumers /\ y.consumers[j] = x.consumers[j]
  BY <1>6, <1>7 DEF Extends
<1>13. /\ c \in StreamCells
       /\ StreamLabels(c) = <<a, answers[k].server, x.name, x.leader>>
       /\ Server(c) = answers[k].server
       /\ Stream(c).origin = answers[k].server
       /\ x.consumers \in Seq(ConsumerDetails)
       /\ \A j \in DOMAIN x.consumers :
            j \in DOMAIN Stream(c).consumers /\ Stream(c).consumers[j] = x.consumers[j]
  BY <1>3, <1>6, <1>7, <1>9, <1>10, <1>11, <1>12 DEF x
<1> QED
  BY <1>13 DEF c, x

\* Each stream that a server reports is exported under that server's name with what
\* the server itself says of the stream and of its consumers, whatever was reported
\* before (the newer details stay in their place when the older ones are merged in).
THEOREM OwnExported == Spec => []OwnValuesExported
<1>1. RInv /\ JInv => OwnValuesExported
  <2> SUFFICES ASSUME JInv, NEW k \in DOMAIN answers, NEW a \in DOMAIN answers[k].details,
                      NEW x \in Range(answers[k].details[a])
               PROVE  \E c \in StreamSeries(FALSE) :
                        /\ StreamLabels(c) = <<a, answers[k].server, x.name, x.leader>>
                        /\ Stream(c).origin = answers[k].server
                        /\ Range(x.consumers) \subseteq Range(Stream(c).consumers)
    BY DEF OwnValuesExported
  <2>1. PICK i \in DOMAIN answers[k].details[a] : x = answers[k].details[a][i]
    BY DEF Range
  <2> DEFINE c == <<k, a, i>>
  <2>2. /\ c \in StreamCells
        /\ StreamLabels(c) = <<a, answers[k].server, x.name, x.leader>>
        /\ Stream(c).origin = answers[k].server
        /\ \A j \in DOMAIN x.consumers :
             j \in DOMAIN Stream(c).consumers /\ Stream(c).consumers[j] = x.consumers[j]
    BY <2>1, OwnCell
  <2> HIDE DEF c
  <2>3. Range(x.consumers) \subseteq Range(Stream(c).consumers)
    BY <2>2 DEF Range
  <2>4. c \in StreamSeries(FALSE)
    BY <2>2 DEF StreamSeries, Shown
  <2> QED
    BY <2>2, <2>3, <2>4
<1> QED
  BY <1>1, JAlways, PTL

\* With leaders only, each consumer that the server which reports it leads is exported
\* under that server's name, whoever leads the stream (Collect looks at the consumer's
\* leader, not at the stream's).
THEOREM LedExported == Spec => []LeadersExported
<1>1. RInv /\ JInv => LeadersExported
  <2> SUFFICES ASSUME JInv, NEW k \in DOMAIN answers, NEW a \in DOMAIN answers[k].details,
                      NEW x \in Range(answers[k].details[a]), NEW y \in Range(x.consumers),
                      y.leader = answers[k].server
               PROVE  \E q \in ConsumerSeries(TRUE) :
                        ConsumerLabels(q) = <<<<a, y.leader, x.name, x.leader>>, y.name, y.leader>>
    BY DEF LeadersExported
  <2>1. PICK i \in DOMAIN answers[k].details[a] : x = answers[k].details[a][i]
    BY DEF Range
  <2>2. PICK j \in DOMAIN x.consumers : y = x.consumers[j]
    BY DEF Range
  <2> DEFINE c == <<k, a, i>>
             q == <<c, j>>
  <2>3. /\ c \in StreamCells
        /\ StreamLabels(c) = <<a, answers[k].server, x.name, x.leader>>
        /\ Server(c) = answers[k].server
        /\ j \in DOMAIN Stream(c).consumers /\ Stream(c).consumers[j] = y
    BY <2>1, <2>2, OwnCell
  <2> HIDE DEF c
  <2>4. q[1] = c /\ q[2] = j /\ q \in ConsumerCells
    BY <2>3 DEF ConsumerCells
  <2>5. Consumer(q) = y
    BY <2>3, <2>4 DEF Consumer
  <2>6. q \in ConsumerSeries(TRUE)
    BY <2>3, <2>4, <2>5 DEF ConsumerSeries, Shown
  <2>7. ConsumerLabels(q) = <<<<a, y.leader, x.name, x.leader>>, y.name, y.leader>>
    BY <2>3, <2>4, <2>5 DEF ConsumerLabels
  <2> QED
    BY <2>6, <2>7
<1> QED
  BY <1>1, JAlways, PTL

-----------------------------------------------------------------------------
(* Types                                                                   *)

\* The channel holds no more than it can, what is reported is of a server's account,
\* and no silence is counted beyond the one that leaves an account out.
BoundInv ==
    /\ Len(msgsChan) =< ChanSize
    /\ accStats \subseteq Pairs
    /\ \A p \in Pairs : silent[p] =< ZeroConnSkip + 1

LEMMA BoundInitial == Init => BoundInv
<1> SUFFICES ASSUME Init
             PROVE  BoundInv
  OBVIOUS
<1>1. Len(<<>>) = 0 /\ ChanSize \in Nat /\ ZeroConnSkip \in Nat
  BY StatzRequestsAssumption
<1>2. accStats \subseteq Pairs
  BY DEF Init
<1> QED
  BY <1>1, <1>2 DEF Init, BoundInv

LEMMA BoundNext == RInv /\ OnceEach /\ SkipInv /\ BoundInv /\ [Next]_vars => BoundInv'
<1> SUFFICES ASSUME RInv, OnceEach, SkipInv, BoundInv, [Next]_vars
             PROVE  BoundInv'
  OBVIOUS
<1>0. /\ ChanSize \in Nat /\ ZeroConnSkip \in Nat /\ msgsChan \in Seq(Servers)
      /\ Len(msgsChan) \in Nat /\ \A p \in Pairs : silent[p] \in Nat
  BY StatzRequestsAssumption DEF RInv, RequestInv, SkipInv
<1>1. ASSUME NEW s \in Servers, msgsChan' = Append(msgsChan, s), HasRoom
      PROVE  Len(msgsChan') =< ChanSize
  BY <1>0, <1>1 DEF HasRoom
<1>2. ASSUME UNCHANGED <<accStats, silent>>, Len(msgsChan') =< ChanSize
      PROVE  BoundInv'
  BY <1>2 DEF BoundInv
<1>3. CASE Begin \/ Send \/ SendFails \/ Timeout \/ ReadBad \/ ReadPlain \/ ReadJsz
           \/ ReadNotEnabled \/ Finish
  <2>1. UNCHANGED <<accStats, silent, msgsChan>>
    BY <1>3 DEF Begin, Send, SendFails, Timeout, ReadBad, ReadPlain, ReadJsz,
       ReadNotEnabled, Finish, Accept, accountVars, requestVars
  <2> QED
    BY <1>2, <2>1 DEF BoundInv
<1>4. ASSUME NEW s \in coming, Callback(s)
      PROVE  BoundInv'
  <2>1. UNCHANGED <<accStats, silent>> /\ s \in Servers
    BY <1>4 DEF Callback, accountVars, RInv, RequestInv
  <2>2. CASE HasRoom
    <3>1. msgsChan' = Append(msgsChan, s)
      BY <1>4, <2>2 DEF Callback
    <3> QED
      BY <1>1, <1>2, <2>1, <2>2, <3>1
  <2>3. CASE ~HasRoom
    <3>1. msgsChan' = msgsChan
      BY <1>4, <2>3 DEF Callback
    <3> QED
      BY <1>2, <2>1, <3>1 DEF BoundInv
  <2> QED
    BY <2>2, <2>3
<1>5. CASE CallbackResumes
  <2>1. /\ UNCHANGED <<accStats, silent>> /\ stuck \in Servers
        /\ msgsChan' = Append(msgsChan, stuck) /\ HasRoom
    BY <1>5 DEF CallbackResumes, accountVars, RInv, RequestInv
  <2> QED
    BY <1>1, <1>2, <2>1
<1>6. CASE Receive
  <2>1. UNCHANGED <<accStats, silent>> /\ msgsChan # <<>> /\ msgsChan' = Tail(msgsChan)
    BY <1>6 DEF Receive, accountVars
  <2>2. Len(msgsChan') = Len(msgsChan) - 1
    BY <1>0, <2>1
  <2> QED
    BY <1>0, <1>2, <2>1, <2>2 DEF BoundInv
<1>7. CASE Unsubscribe
  <2>1. UNCHANGED <<accStats, silent>> /\ msgsChan' = <<>> /\ Len(<<>>) = 0
    BY <1>7 DEF Unsubscribe, accountVars
  <2> QED
    BY <1>0, <1>2, <2>1
<1>8. CASE ReadAccounts
  <2>1. PICK accounts \in SUBSET Accounts : \E conns \in [{Head(res)} \X accounts -> {0, 1}] :
           /\ accStats' = accStats \cup {p \in DOMAIN conns : ~Skipped(p, conns[p])}
           /\ silent' = [p \in Pairs |->
                           CASE p \in DOMAIN conns /\ conns[p] > 0 -> 0
                             [] p \in DOMAIN conns /\ conns[p] = 0 /\ silent[p] =< ZeroConnSkip -> silent[p] + 1
                             [] OTHER -> silent[p]]
    BY <1>8 DEF ReadAccounts
  <2>2. PICK conns \in [{Head(res)} \X accounts -> {0, 1}] :
           /\ accStats' = accStats \cup {p \in DOMAIN conns : ~Skipped(p, conns[p])}
           /\ silent' = [p \in Pairs |->
                           CASE p \in DOMAIN conns /\ conns[p] > 0 -> 0
                             [] p \in DOMAIN conns /\ conns[p] = 0 /\ silent[p] =< ZeroConnSkip -> silent[p] + 1
                             [] OTHER -> silent[p]]
    BY <2>1
  <2>3. msgsChan' = msgsChan /\ Reading({"accounts"})
    BY <1>8 DEF ReadAccounts, Accept, requestVars
  <2>4. Head(res) \in Servers
    BY <2>3 DEF Reading, RInv, RequestInv
  <2>5. DOMAIN conns \subseteq Pairs
    BY <2>4 DEF Pairs
  <2>6. accStats' \subseteq Pairs
    BY <2>2, <2>5 DEF BoundInv
  <2>7. ASSUME NEW p \in Pairs
        PROVE  silent'[p] =< ZeroConnSkip + 1
    BY <1>0, <2>2 DEF BoundInv
  <2> QED
    BY <2>3, <2>6, <2>7 DEF BoundInv
<1>9. CASE Build
  <2>1. accStats' = {} /\ UNCHANGED <<silent, msgsChan>>
    BY <1>9 DEF Build, requestVars
  <2> QED
    BY <2>1 DEF BoundInv
<1>10. CASE UNCHANGED vars
  BY <1>10 DEF vars, accountVars, requestVars, BoundInv
<1> QED
  BY <1>3, <1>4, <1>5, <1>6, <1>7, <1>8, <1>9, <1>10 DEF Next

\* The state keeps its types: the replies of a survey and what the merge makes of them
\* are streams of accounts, an account's details are of a reply that is there, and the
\* channel and the counters stay within their bounds.
THEOREM RequestsTyped == Spec => []TypeOK
<1>1. Init => RInv /\ OnceEach /\ SkipInv /\ LeftOutWhenSilent /\ BoundInv
  BY RInvInitial, OnceInitial, SkipInitial, BoundInitial
<1>2. (RInv /\ OnceEach /\ SkipInv /\ LeftOutWhenSilent /\ BoundInv) /\ [Next]_vars
        => (RInv /\ OnceEach /\ SkipInv /\ LeftOutWhenSilent /\ BoundInv)'
  BY RInvStep, OnceStep, SkipStep, BoundNext
<1>3. RInv /\ SkipInv /\ BoundInv /\ JInv => TypeOK
  <2> SUFFICES ASSUME RInv, SkipInv, BoundInv, JInv
               PROVE  TypeOK
    OBVIOUS
  <2>0. ZeroConnSkip \in Nat
    BY StatzRequestsAssumption
  <2>1. zeroConn \in [Pairs -> 0..ZeroConnSkip]
    <3>1. \A p \in Pairs : zeroConn[p] \in 0..ZeroConnSkip
      BY <2>0 DEF SkipInv
    <3> QED
      BY <3>1 DEF SkipInv
  <2>2. silent \in [Pairs -> 0..(ZeroConnSkip + 1)]
    <3>1. \A p \in Pairs : silent[p] \in 0..(ZeroConnSkip + 1)
      BY <2>0 DEF SkipInv, BoundInv
    <3> QED
      BY <3>1 DEF SkipInv
  <2>3. jsAccInfos \in [DOMAIN jsAccInfos -> DOMAIN jss] /\ DOMAIN jsAccInfos \subseteq Accounts
    <3>1. DOMAIN jss = DOMAIN answers
      BY DEF JInv, RepliesInv, IsReplies
    <3>2. \A a \in DOMAIN jsAccInfos : jsAccInfos[a] \in DOMAIN jss
      BY <3>1 DEF JInv, InfosInv, Told
    <3> QED
      BY <3>2 DEF JInv, InfosInv
  <2>4. IsReplies(jss) /\ IsReplies(answers) /\ Len(answers) = Len(jss)
    BY DEF JInv, RepliesInv
  <2> QED
    BY <2>1, <2>2, <2>3, <2>4 DEF TypeOK, RInv, RequestInv, SkipInv, BoundInv
<1> QED
  BY <1>1, <1>2, <1>3, JAlways, PTL DEF Spec
=============================================================================
