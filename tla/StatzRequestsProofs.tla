------------------------- MODULE StatzRequestsProofs -------------------------
(***************************************************************************)
(* Proofs about StatzRequests, for any finite set of servers, any accounts *)
(* and details, any size of the channel and any limit of silent surveys.   *)
(***************************************************************************)
EXTENDS StatzRequests, FiniteSetTheorems, TLAPS

RequestInv ==
    /\ numServers \in NumServers
    /\ phase \in Kinds \cup {"idle", "given", "build"}
    /\ stage \in {"send", "receive", "leave", "read"}
    /\ coming \subseteq Servers /\ answered \subseteq Servers
    /\ msgsChan \in Seq(Servers)
    /\ stuck \in Servers \cup {NoServer}
    /\ res \in Seq(Servers)
    /\ accepted \in Nat

\* What is there of a request at each stage of it.
StageInv ==
    /\ stage \in {"send", "read"} => coming = {} /\ msgsChan = <<>> /\ stuck = NoServer
    /\ stage = "send" => res = <<>>
    /\ stage # "read" => accepted = 0 /\ seen = {}
    /\ phase \in {"idle", "build"} => stage = "send"
    /\ phase = "given" => stage = "read"

\* While replies are received, there are fewer than expected.
Room ==
    numServers # -1 =>
        /\ stage = "receive" => Len(res) < numServers
        /\ phase \in Kinds => accepted + Len(res) =< numServers

Blocked == IF stuck = NoServer THEN 0 ELSE 1

\* Each server that answers is in one place.
Conserved ==
    stage \in {"receive", "leave"} =>
        Cardinality(answered) = Cardinality(coming) + Len(msgsChan) + Blocked + Len(res)

RInv == RequestInv /\ StageInv

LEMMA Expected == numServers \in NumServers => numServers \in Nat \ {0} \/ numServers = -1
  BY StatzRequestsAssumption

\* A subset of the servers has as many members as a number says.
LEMMA Finite == \A S \in SUBSET Servers : IsFiniteSet(S) /\ Cardinality(S) \in Nat
  BY StatzRequestsAssumption, FS_Subset, FS_CardinalityType

LEMMA GivenSeq == Init => res \in Seq(Servers)
<1> SUFFICES ASSUME Init PROVE res \in Seq(Servers)
  OBVIOUS
<1>1. CASE res = <<>>
  BY <1>1
<1>2. CASE \E n \in 0..Cardinality(Servers) : res \in [1..n -> Servers]
  <2>1. PICK n \in 0..Cardinality(Servers) : res \in [1..n -> Servers]
    BY <1>2
  <2>2. n \in Nat
    BY <2>1
  <2> QED
    BY <2>1, <2>2
<1> QED
  BY <1>1, <1>2 DEF Init

LEMMA RInvInitial == Init => RInv
  BY GivenSeq DEF Init, RInv, RequestInv, StageInv

\* The steps that leave most of a request alone.
LEMMA RInvStep == RInv /\ [Next]_vars => RInv'
<1> SUFFICES ASSUME RInv, [Next]_vars PROVE RInv'
  OBVIOUS
<1> USE DEF RInv, RequestInv, StageInv
<1>1. CASE Begin
  BY <1>1 DEF Begin, Following, Kinds, requestVars, accountVars
<1>2. CASE Send
  BY <1>2 DEF Send, Kinds, accountVars
<1>3. CASE SendFails
  BY <1>3 DEF SendFails, Kinds, requestVars, accountVars
<1>4. ASSUME NEW s \in coming, Callback(s) PROVE RInv'
  <2>1. s \in Servers
    OBVIOUS
  <2>2. Append(msgsChan, s) \in Seq(Servers)
    BY <2>1
  <2> QED
    BY <1>4, <2>1, <2>2 DEF Callback, accountVars
<1>5. CASE CallbackResumes
  <2>1. Append(msgsChan, stuck) \in Seq(Servers)
    BY <1>5 DEF CallbackResumes
  <2> QED
    BY <1>5, <2>1 DEF CallbackResumes, accountVars
<1>6. CASE Receive
  <2>1. Head(msgsChan) \in Servers /\ Tail(msgsChan) \in Seq(Servers)
    BY <1>6 DEF Receive
  <2>2. Append(res, Head(msgsChan)) \in Seq(Servers)
    BY <2>1
  <2> QED
    BY <1>6, <2>1, <2>2 DEF Receive, accountVars
<1>7. CASE Timeout
  BY <1>7 DEF Timeout, requestVars, accountVars
<1>8. CASE Unsubscribe
  BY <1>8 DEF Unsubscribe, accountVars
<1>9. ASSUME Reading(Kinds \cup {"given"}) PROVE Tail(res) \in Seq(Servers)
  BY <1>9 DEF Reading
<1>10. CASE ReadBad
  BY <1>9, <1>10 DEF ReadBad, Reading, requestVars, accountVars
<1>11. ASSUME Accept, Reading(Kinds \cup {"given"}) PROVE RInv'
  <2>1. res' \in Seq(Servers) /\ accepted' \in Nat
    BY <1>9, <1>11 DEF Accept
  <2>2. stage = "read" /\ UNCHANGED <<numServers, phase, stage, coming, msgsChan, stuck, answered>>
    BY <1>11 DEF Accept, Reading, requestVars
  <2> QED
    BY <2>1, <2>2
<1>12. CASE ReadPlain
  BY <1>11, <1>12 DEF ReadPlain, Reading, Kinds
<1>13. CASE ReadAccounts
  BY <1>11, <1>13 DEF ReadAccounts, Reading, Kinds
<1>14. CASE ReadJsz
  BY <1>11, <1>14 DEF ReadJsz, Reading, Kinds, Kept
<1>15. CASE ReadNotEnabled
  BY <1>15 DEF ReadNotEnabled, Reading, requestVars, accountVars
<1>16. CASE Finish
  BY <1>16 DEF Finish, Following, Kinds, Kept, requestVars
<1>17. CASE Build
  BY <1>17 DEF Build, requestVars
<1>18. CASE UNCHANGED vars
  BY <1>18 DEF vars, requestVars, accountVars
<1> QED
  BY <1>1, <1>2, <1>3, <1>4, <1>5, <1>6, <1>7, <1>8, <1>10, <1>12, <1>13, <1>14, <1>15,
     <1>16, <1>17, <1>18 DEF Next

-----------------------------------------------------------------------------
(* No more than expected                                                   *)

LEMMA RoomInitial == Init => Room
  BY Expected DEF Init, Room, Kinds

\* A good reply takes the place of the one that is read.
LEMMA RoomAccept ==
    ASSUME RInv, Room, Accept, stage = "read", res # <<>> PROVE Room'
<1>1. res' \in {<<>>, Tail(res)} /\ accepted' = accepted + 1
  BY DEF Accept
<1>2. Len(Tail(res)) = Len(res) - 1 /\ Len(res) \in Nat \ {0}
  BY DEF RInv, RequestInv
<1>3. UNCHANGED <<numServers, phase, stage>>
  BY DEF Accept
<1>4. accepted \in Nat /\ Len(<<>>) = 0
  BY DEF RInv, RequestInv
<1>5. CASE res' = <<>> /\ phase \in Kinds /\ numServers # -1
  <2>1. accepted' + Len(res') =< accepted + Len(res)
    BY <1>1, <1>2, <1>4, <1>5
  <2>2. accepted + Len(res) =< numServers
    BY <1>5 DEF Room
  <2>3. numServers \in Nat
    BY Expected, <1>5 DEF RInv, RequestInv
  <2>4. accepted' + Len(res') =< numServers
    BY <2>1, <2>2, <2>3, <1>1, <1>2, <1>4, <1>5
  <2> QED
    BY <2>4, <1>3 DEF Room
<1>6. CASE res' = Tail(res) /\ phase \in Kinds /\ numServers # -1
  <2>1. accepted' + Len(res') = accepted + Len(res)
    BY <1>1, <1>2, <1>4, <1>6
  <2> QED
    BY <2>1, <1>3, <1>6 DEF Room
<1>7. CASE phase \notin Kinds \/ numServers = -1
  BY <1>3, <1>7 DEF Room
<1> QED
  BY <1>1, <1>5, <1>6, <1>7

LEMMA RoomStep == RInv /\ Room /\ [Next]_vars => Room'
<1> SUFFICES ASSUME RInv, Room, [Next]_vars PROVE Room'
  OBVIOUS
<1> USE DEF Room
<1>0. /\ Len(res) \in Nat /\ accepted \in Nat /\ res \in Seq(Servers)
      /\ numServers \in Nat \ {0} \/ numServers = -1
  BY Expected DEF RInv, RequestInv
<1>1. CASE Begin
  BY <1>0, <1>1, Expected DEF Begin, RInv, StageInv
<1>2. CASE Send
  BY <1>0, <1>2 DEF Send, RInv, StageInv
<1>3. CASE SendFails
  BY <1>3 DEF SendFails
<1>4. ASSUME NEW s \in coming, Callback(s) PROVE Room'
  BY <1>4 DEF Callback
<1>5. CASE CallbackResumes
  BY <1>5 DEF CallbackResumes
<1>6. CASE Receive
  <2>1. Head(msgsChan) \in Servers
    BY <1>6 DEF Receive, RInv, RequestInv
  <2>2. Len(res') = Len(res) + 1
    BY <1>6, <2>1, <1>0 DEF Receive
  <2>3. stage = "receive" /\ accepted = 0 /\ accepted' = 0 /\ UNCHANGED <<numServers, phase>>
    BY <1>6 DEF Receive, RInv, StageInv
  <2>4. numServers # -1 => Len(res') =< numServers
    BY <1>0, <2>2, <2>3
  <2>5. stage' = "receive" /\ numServers # -1 => Len(res') # numServers
    BY <1>6 DEF Receive, Full
  <2> QED
    BY <1>0, <2>2, <2>3, <2>4, <2>5
<1>7. CASE Timeout
  BY <1>7 DEF Timeout
<1>8. CASE Unsubscribe
  BY <1>8 DEF Unsubscribe
<1>9. CASE ReadBad
  <2>1. Len(res') = Len(res) - 1
    BY <1>0, <1>9 DEF ReadBad, Reading
  <2> QED
    BY <1>0, <1>9, <2>1 DEF ReadBad, Reading
<1>10. CASE ReadPlain
  BY <1>10, RoomAccept DEF ReadPlain, Reading
<1>11. CASE ReadAccounts
  BY <1>11, RoomAccept DEF ReadAccounts, Reading
<1>12. CASE ReadJsz
  BY <1>12, RoomAccept DEF ReadJsz, Reading
<1>13. CASE ReadNotEnabled
  <2>1. res' = <<>> /\ UNCHANGED <<numServers, phase, stage, accepted>>
    BY <1>13 DEF ReadNotEnabled
  <2>2. Len(res') =< Len(res) /\ Len(res') = 0
    BY <2>1, <1>0
  <2> QED
    BY <1>0, <1>13, <2>1, <2>2 DEF ReadNotEnabled, Reading
<1>14. CASE Finish
  BY <1>0, <1>14 DEF Finish
<1>15. CASE Build
  BY <1>15, <1>0 DEF Build, Kinds
<1>16. CASE UNCHANGED vars
  BY <1>16 DEF vars
<1> QED
  BY <1>1, <1>2, <1>3, <1>4, <1>5, <1>6, <1>7, <1>8, <1>9, <1>10, <1>11, <1>12, <1>13,
     <1>14, <1>15, <1>16 DEF Next

\* However many servers answer, no more replies are gathered and read than are
\* expected (requestMany and the counting of the functions that read them).
THEOREM NoMoreThanExpected == Spec => []AsExpected
<1>1. Init => RInv /\ Room
  BY RInvInitial, RoomInitial
<1>2. (RInv /\ Room) /\ [Next]_vars => (RInv /\ Room)'
  BY RInvStep, RoomStep
<1>3. RInv /\ Room => AsExpected
  BY DEF Room, AsExpected
<1> QED
  BY <1>1, <1>2, <1>3, PTL DEF Spec

-----------------------------------------------------------------------------
(* Where each reply is                                                     *)

LEMMA ConservedInitial == Init => Conserved
  BY DEF Init, Conserved

LEMMA ConservedStep == RInv /\ Conserved /\ [Next]_vars => Conserved'
<1> SUFFICES ASSUME RInv, Conserved, [Next]_vars PROVE Conserved'
  OBVIOUS
<1> USE DEF Conserved
<1>0. /\ Cardinality(answered) \in Nat /\ Cardinality(coming) \in Nat /\ IsFiniteSet(coming)
      /\ Len(msgsChan) \in Nat /\ Len(res) \in Nat
      /\ msgsChan \in Seq(Servers) /\ res \in Seq(Servers)
      /\ Blocked \in {0, 1}
  BY Finite DEF RInv, RequestInv, Blocked
<1>1. CASE Begin
  BY <1>1 DEF Begin, RInv, StageInv
<1>2. CASE Send
  <2>1. UNCHANGED <<msgsChan, stuck, res>> /\ answered' = coming' /\ coming' \in SUBSET Servers
    BY <1>2 DEF Send
  <2>2. Len(msgsChan') = 0 /\ Len(res') = 0 /\ Blocked' = 0
    BY <1>2, <2>1 DEF Send, RInv, StageInv, Blocked
  <2>3. Cardinality(coming') \in Nat
    BY <2>1, Finite
  <2> QED
    BY <2>1, <2>2, <2>3
<1>3. CASE SendFails
  BY <1>3 DEF SendFails
<1>4. ASSUME NEW s \in coming, Callback(s) PROVE Conserved'
  <2>1. Cardinality(coming') = Cardinality(coming) - 1
    BY <1>0, <1>4, FS_RemoveElement DEF Callback
  <2>2. stuck = NoServer /\ Blocked = 0 /\ s \in Servers /\ s # NoServer
    BY <1>4, StatzRequestsAssumption DEF Callback, Blocked, RInv, RequestInv
  <2>3. stage \in {"receive", "leave"} /\ UNCHANGED <<answered, res>>
    BY <1>4 DEF Callback
  <2>4. Len(msgsChan') + Blocked' = Len(msgsChan) + 1
    <3>1. CASE HasRoom
      <4>1. Len(msgsChan') = Len(msgsChan) + 1
        BY <1>0, <1>4, <2>2, <3>1 DEF Callback
      <4>2. Blocked' = 0
        BY <1>4, <2>2, <3>1 DEF Callback, Blocked
      <4> QED
        BY <1>0, <4>1, <4>2
    <3>2. CASE ~HasRoom
      <4>1. msgsChan' = msgsChan
        BY <1>4, <3>2 DEF Callback
      <4>2. Blocked' = 1
        BY <1>4, <2>2, <3>2 DEF Callback, Blocked
      <4> QED
        BY <1>0, <4>1, <4>2
    <3> QED
      BY <3>1, <3>2
  <2>5. Blocked' \in {0, 1} /\ Len(msgsChan') \in Nat
    <3>1. msgsChan' = msgsChan \/ msgsChan' = Append(msgsChan, s)
      BY <1>4 DEF Callback
    <3> QED
      BY <1>0, <2>2, <3>1 DEF Blocked
  <2> QED
    BY <1>0, <2>1, <2>2, <2>3, <2>4, <2>5
<1>5. CASE CallbackResumes
  <2>1. Len(msgsChan') = Len(msgsChan) + 1
    BY <1>0, <1>5 DEF CallbackResumes, RInv, RequestInv
  <2>2. Blocked = 1 /\ Blocked' = 0
    BY <1>5 DEF CallbackResumes, Blocked
  <2>3. UNCHANGED <<stage, coming, answered, res>>
    BY <1>5 DEF CallbackResumes
  <2> QED
    BY <1>0, <2>1, <2>2, <2>3
<1>6. CASE Receive
  <2>1. msgsChan # <<>> /\ Head(msgsChan) \in Servers
    BY <1>0, <1>6 DEF Receive
  <2>2. Len(msgsChan') = Len(msgsChan) - 1 /\ Len(res') = Len(res) + 1
    BY <1>0, <1>6, <2>1 DEF Receive
  <2>3. UNCHANGED <<coming, answered, stuck>> /\ stage = "receive"
    BY <1>6 DEF Receive
  <2>4. Blocked' = Blocked
    BY <2>3 DEF Blocked
  <2> QED
    BY <1>0, <2>2, <2>3, <2>4
<1>7. CASE Timeout
  BY <1>7 DEF Timeout, requestVars, Blocked
<1>8. CASE Unsubscribe
  BY <1>8 DEF Unsubscribe
<1>9. ASSUME stage = "read" \/ stage = "send", stage' = stage \/ stage' = "send"
      PROVE  Conserved'
  BY <1>9
<1>10. CASE ReadBad \/ ReadPlain \/ ReadAccounts \/ ReadJsz \/ ReadNotEnabled
  BY <1>9, <1>10 DEF ReadBad, ReadPlain, ReadAccounts, ReadJsz, ReadNotEnabled, Reading, Accept
<1>11. CASE Finish
  BY <1>9, <1>11 DEF Finish
<1>12. CASE Build
  BY <1>9, <1>12 DEF Build, RInv, StageInv
<1>13. CASE UNCHANGED vars
  BY <1>13 DEF vars, requestVars, Blocked
<1> QED
  BY <1>1, <1>2, <1>3, <1>4, <1>5, <1>6, <1>7, <1>8, <1>10, <1>11, <1>12, <1>13 DEF Next

\* A callback of requestMany that stays blocked for ever has more servers than
\* were waited for and the channel holds to blame.
THEOREM OnlyExcessBlocks == Spec => []BlockedByExcess
<1>1. Init => RInv /\ Conserved
  BY RInvInitial, ConservedInitial
<1>2. (RInv /\ Conserved) /\ [Next]_vars => (RInv /\ Conserved)'
  BY RInvStep, ConservedStep
<1>3. RInv /\ Conserved => BlockedByExcess
  <2> SUFFICES ASSUME RInv, Conserved, stage = "leave", stuck # NoServer, ~HasRoom
               PROVE  Cardinality(answered) > Len(res) + ChanSize
    BY DEF BlockedByExcess
  <2>1. /\ Cardinality(coming) \in Nat /\ Cardinality(answered) \in Nat
        /\ Len(res) \in Nat /\ Len(msgsChan) \in Nat /\ ChanSize \in Nat
    BY Finite, StatzRequestsAssumption DEF RInv, RequestInv
  <2>2. Blocked = 1 /\ Len(msgsChan) >= ChanSize
    BY <2>1 DEF Blocked, HasRoom
  <2> QED
    BY <2>1, <2>2 DEF Conserved
<1> QED
  BY <1>1, <1>2, <1>3, PTL DEF Spec

-----------------------------------------------------------------------------
(* A server replies once                                                   *)

LEMMA AppendOnce ==
    ASSUME NEW S, NEW s \in Seq(S), IsInjective(s), NEW x \in S, x \notin Range(s)
    PROVE  IsInjective(Append(s, x)) /\ Range(Append(s, x)) = Range(s) \cup {x}
<1> DEFINE t == Append(s, x)
<1>1. Len(s) \in Nat /\ DOMAIN s = 1..Len(s) /\ DOMAIN t = 1..(Len(s) + 1)
  OBVIOUS
<1>2. t[Len(s) + 1] = x /\ \A i \in 1..Len(s) : t[i] = s[i]
  OBVIOUS
<1>3. \A i \in DOMAIN t : i \in 1..Len(s) \/ i = Len(s) + 1
  BY <1>1
<1>4. \A i \in 1..Len(s) : s[i] # x
  BY <1>1 DEF Range
<1>5. \A i, j \in 1..Len(s) : s[i] = s[j] => i = j
  BY <1>1 DEF IsInjective
<1> HIDE DEF t
<1>6. IsInjective(t)
  BY <1>2, <1>3, <1>4, <1>5 DEF IsInjective
<1>7. Range(t) = Range(s) \cup {x}
  BY <1>1, <1>2, <1>3 DEF Range
<1> QED
  BY <1>6, <1>7 DEF t

LEMMA TailOnce ==
    ASSUME NEW S, NEW s \in Seq(S), s # <<>>, IsInjective(s)
    PROVE  /\ IsInjective(Tail(s))
           /\ Head(s) \in Range(s) /\ Head(s) \notin Range(Tail(s))
           /\ Range(Tail(s)) \subseteq Range(s)
<1> DEFINE t == Tail(s)
<1>1. Len(s) \in Nat \ {0} /\ DOMAIN s = 1..Len(s) /\ DOMAIN t = 1..(Len(s) - 1)
  OBVIOUS
<1>2. Head(s) = s[1] /\ \A i \in 1..(Len(s) - 1) : t[i] = s[i + 1]
  OBVIOUS
<1>3. \A i, j \in 1..Len(s) : s[i] = s[j] => i = j
  BY <1>1 DEF IsInjective
<1>4. 1 \in 1..Len(s) /\ \A i \in 1..(Len(s) - 1) : i + 1 \in 1..Len(s) /\ i + 1 # 1
  BY <1>1
<1> HIDE DEF t
<1>5. IsInjective(t)
  <2> SUFFICES ASSUME NEW i \in 1..(Len(s) - 1), NEW j \in 1..(Len(s) - 1), t[i] = t[j]
               PROVE  i = j
    BY <1>1 DEF IsInjective
  <2>1. i + 1 = j + 1
    BY <1>2, <1>3, <1>4
  <2> QED
    BY <2>1, <1>1
<1>6. Head(s) \in Range(s)
  BY <1>1, <1>2, <1>4 DEF Range
<1>7. Head(s) \notin Range(t)
  BY <1>1, <1>2, <1>3, <1>4 DEF Range
<1>8. Range(t) \subseteq Range(s)
  BY <1>1, <1>2, <1>4 DEF Range
<1> QED
  BY <1>5, <1>6, <1>7, <1>8 DEF t

\* No server has two replies on their way, in the channel or gathered.
OnceEach ==
    /\ IsInjective(res) /\ IsInjective(msgsChan)
    /\ Range(res) \cap Range(msgsChan) = {}
    /\ coming \cap (Range(res) \cup Range(msgsChan)) = {}
    /\ stuck \notin Range(res) \cup Range(msgsChan) \cup coming

LEMMA EmptyOnce == IsInjective(<<>>) /\ Range(<<>>) = {}
  BY DEF IsInjective, Range

LEMMA SeqRange == ASSUME NEW S, NEW s \in Seq(S) PROVE Range(s) \subseteq S
  BY DEF Range

LEMMA OnceInitial == Init => OnceEach
<1> SUFFICES ASSUME Init PROVE OnceEach
  OBVIOUS
<1>1. IsInjective(res)
  BY EmptyOnce DEF Init
<1>2. Range(res) \subseteq Servers
  BY GivenSeq, SeqRange
<1> QED
  BY <1>1, <1>2, EmptyOnce, StatzRequestsAssumption DEF Init, OnceEach

\* What is still to be read has fewer replies.
LEMMA OnceReading ==
    ASSUME RInv, OnceEach, res # <<>>, res' \in {<<>>, Tail(res)},
           UNCHANGED <<coming, msgsChan, stuck>>
    PROVE  OnceEach' /\ Head(res) \notin Range(res') /\ Range(res') \subseteq Range(res)
<1>1. res \in Seq(Servers)
  BY DEF RInv, RequestInv
<1>2. IsInjective(res') /\ Range(res') \subseteq Range(res) /\ Head(res) \notin Range(res')
  BY <1>1, TailOnce, EmptyOnce DEF OnceEach
<1> QED
  BY <1>2 DEF OnceEach

LEMMA OnceStep == RInv /\ OnceEach /\ [Next]_vars => OnceEach'
<1> SUFFICES ASSUME RInv, OnceEach, [Next]_vars PROVE OnceEach'
  OBVIOUS
<1>0. /\ res \in Seq(Servers) /\ msgsChan \in Seq(Servers) /\ coming \subseteq Servers
      /\ Range(res) \subseteq Servers /\ Range(msgsChan) \subseteq Servers
      /\ NoServer \notin Servers
  BY SeqRange, StatzRequestsAssumption DEF RInv, RequestInv
<1>1. CASE UNCHANGED <<res, msgsChan, coming, stuck>>
  BY <1>1 DEF OnceEach
<1>2. CASE Send
  <2>1. coming' \subseteq Servers /\ UNCHANGED <<res, msgsChan, stuck>>
    BY <1>2 DEF Send
  <2>2. res = <<>> /\ msgsChan = <<>> /\ stuck = NoServer
    BY <1>2 DEF Send, RInv, StageInv
  <2> QED
    BY <1>0, <2>1, <2>2, EmptyOnce DEF OnceEach
<1>3. ASSUME NEW s \in coming, Callback(s) PROVE OnceEach'
  <2>1. s \in Servers /\ s \notin Range(res) /\ s \notin Range(msgsChan)
    BY <1>0 DEF OnceEach
  <2>2. IsInjective(Append(msgsChan, s)) /\ Range(Append(msgsChan, s)) = Range(msgsChan) \cup {s}
    BY <1>0, <2>1, AppendOnce DEF OnceEach
  <2>3. coming' = coming \ {s} /\ res' = res /\ stuck = NoServer
    BY <1>3 DEF Callback
  <2>4. \/ msgsChan' = Append(msgsChan, s) /\ stuck' = stuck
        \/ msgsChan' = msgsChan /\ stuck' = s
    BY <1>3 DEF Callback
  <2> QED
    BY <1>0, <2>1, <2>2, <2>3, <2>4 DEF OnceEach
<1>4. CASE CallbackResumes
  <2>1. stuck \in Servers
    BY <1>4 DEF CallbackResumes, RInv, RequestInv
  <2>2. /\ IsInjective(Append(msgsChan, stuck))
        /\ Range(Append(msgsChan, stuck)) = Range(msgsChan) \cup {stuck}
    BY <1>0, <2>1, AppendOnce DEF OnceEach
  <2>3. /\ msgsChan' = Append(msgsChan, stuck) /\ stuck' = NoServer
        /\ UNCHANGED <<res, coming>>
    BY <1>4 DEF CallbackResumes
  <2> QED
    BY <1>0, <2>1, <2>2, <2>3 DEF OnceEach
<1>5. CASE Receive
  <2>1. /\ msgsChan # <<>> /\ res' = Append(res, Head(msgsChan)) /\ msgsChan' = Tail(msgsChan)
        /\ UNCHANGED <<coming, stuck>>
    BY <1>5 DEF Receive
  <2>2. /\ IsInjective(Tail(msgsChan)) /\ Head(msgsChan) \in Range(msgsChan)
        /\ Head(msgsChan) \notin Range(Tail(msgsChan))
        /\ Range(Tail(msgsChan)) \subseteq Range(msgsChan)
    BY <1>0, <2>1, TailOnce DEF OnceEach
  <2>3. Head(msgsChan) \in Servers /\ Head(msgsChan) \notin Range(res)
    BY <1>0, <2>2 DEF OnceEach
  <2>4. /\ IsInjective(Append(res, Head(msgsChan)))
        /\ Range(Append(res, Head(msgsChan))) = Range(res) \cup {Head(msgsChan)}
    BY <1>0, <2>3, AppendOnce DEF OnceEach
  <2> QED
    BY <2>1, <2>2, <2>3, <2>4 DEF OnceEach
<1>6. CASE Unsubscribe
  <2>1. coming' = {} /\ msgsChan' = <<>> /\ stuck' = NoServer /\ res' = res
    BY <1>6 DEF Unsubscribe
  <2> QED
    BY <1>0, <2>1, EmptyOnce DEF OnceEach
<1>7. CASE ReadBad \/ ReadPlain \/ ReadAccounts \/ ReadJsz \/ ReadNotEnabled
  BY <1>7, OnceReading DEF ReadBad, ReadPlain, ReadAccounts, ReadJsz, ReadNotEnabled,
     Reading, Accept, requestVars
<1> QED
  BY <1>1, <1>2, <1>3, <1>4, <1>5, <1>6, <1>7
  DEF Next, Begin, SendFails, Timeout, Finish, Build, vars, requestVars

-----------------------------------------------------------------------------
(* Accounts without connections                                            *)

\* zeroConn is the number of silent surveys in a row, up to its limit; a survey
\* reports accounts of servers whose reply it has read, and no others.
SkipInv ==
    /\ zeroConn \in [Pairs -> Nat] /\ silent \in [Pairs -> Nat]
    /\ \A p \in Pairs : zeroConn[p] = IF silent[p] =< ZeroConnSkip THEN silent[p] ELSE ZeroConnSkip
    /\ seen \subseteq Pairs
    /\ phase # "accounts" => seen = {}
    /\ phase \in {"idle", "gatewayz", "raftz"} => accStats = {}
    /\ phase = "accounts" => accStats \subseteq seen
    /\ \A p \in seen : p[1] \notin Range(res)

LEMMA SkipInitial == Init => SkipInv /\ LeftOutWhenSilent
  BY StatzRequestsAssumption DEF Init, SkipInv, LeftOutWhenSilent

\* What a pair that an account reply tells of becomes.
LEMMA TellPair ==
    ASSUME SkipInv, NEW p \in Pairs, NEW n \in Nat, NEW m \in Nat, NEW conns \in {0, 1},
           n = Counted(p, conns),
           m = IF conns > 0 THEN 0 ELSE IF silent[p] > ZeroConnSkip THEN silent[p] ELSE silent[p] + 1
    PROVE  /\ n = IF m =< ZeroConnSkip THEN m ELSE ZeroConnSkip
           /\ ~Skipped(p, conns) <=> m =< ZeroConnSkip
<1>1. /\ zeroConn[p] \in Nat /\ silent[p] \in Nat /\ ZeroConnSkip \in Nat
      /\ zeroConn[p] = IF silent[p] =< ZeroConnSkip THEN silent[p] ELSE ZeroConnSkip
  BY StatzRequestsAssumption DEF SkipInv
<1>2. CASE conns = 1
  BY <1>1, <1>2 DEF Counted, Skipped
<1>3. CASE conns = 0 /\ silent[p] < ZeroConnSkip
  BY <1>1, <1>3 DEF Counted, Skipped
<1>4. CASE conns = 0 /\ silent[p] >= ZeroConnSkip
  BY <1>1, <1>4 DEF Counted, Skipped
<1> QED
  BY <1>1, <1>2, <1>3, <1>4

LEMMA SkipAccounts ==
    ASSUME RInv, OnceEach, SkipInv, LeftOutWhenSilent, ReadAccounts
    PROVE  SkipInv' /\ LeftOutWhenSilent'
<1>1. PICK accounts \in SUBSET Accounts : \E conns \in [{Head(res)} \X accounts -> {0, 1}] :
         /\ zeroConn' = [p \in Pairs |-> IF p \in DOMAIN conns THEN Counted(p, conns[p]) ELSE zeroConn[p]]
         /\ accStats' = accStats \cup {p \in DOMAIN conns : ~Skipped(p, conns[p])}
         /\ seen' = seen \cup DOMAIN conns
         /\ silent' = [p \in Pairs |->
                         CASE p \in DOMAIN conns /\ conns[p] > 0 -> 0
                           [] p \in DOMAIN conns /\ conns[p] = 0 /\ silent[p] =< ZeroConnSkip -> silent[p] + 1
                           [] OTHER -> silent[p]]
  BY DEF ReadAccounts
<1> DEFINE told == {Head(res)} \X accounts
<1>2. PICK conns \in [told -> {0, 1}] :
         /\ zeroConn' = [p \in Pairs |-> IF p \in told THEN Counted(p, conns[p]) ELSE zeroConn[p]]
         /\ accStats' = accStats \cup {p \in told : ~Skipped(p, conns[p])}
         /\ seen' = seen \cup told
         /\ silent' = [p \in Pairs |->
                         CASE p \in told /\ conns[p] > 0 -> 0
                           [] p \in told /\ conns[p] = 0 /\ silent[p] =< ZeroConnSkip -> silent[p] + 1
                           [] OTHER -> silent[p]]
  BY <1>1
<1>3. /\ phase = "accounts" /\ phase' = phase /\ stage = "read" /\ res # <<>>
      /\ res' \in {<<>>, Tail(res)} /\ UNCHANGED <<coming, msgsChan, stuck>>
  BY DEF ReadAccounts, Reading, Accept, requestVars
<1>4. Head(res) \in Servers /\ Head(res) \in Range(res)
  BY <1>3, TailOnce DEF RInv, RequestInv, OnceEach
<1>5. Head(res) \notin Range(res') /\ Range(res') \subseteq Range(res)
  BY <1>3, OnceReading
<1>6. told \subseteq Pairs
  BY <1>4 DEF Pairs
<1>7. \A p \in told : p[1] = Head(res)
  OBVIOUS
<1>8. \A p \in told : p \notin seen /\ p \notin accStats
  BY <1>3, <1>4, <1>7 DEF SkipInv
<1> HIDE DEF told
<1>10. zeroConn' \in [Pairs -> Nat] /\ silent' \in [Pairs -> Nat]
  <2>1. \A p \in Pairs : zeroConn[p] \in Nat /\ silent[p] \in Nat
    BY DEF SkipInv
  <2>2. \A p \in told : Counted(p, conns[p]) \in Nat
    BY <1>2, <1>6, <2>1 DEF Counted
  <2>3. zeroConn' \in [Pairs -> Nat]
    BY <1>2, <2>1, <2>2
  <2>4. silent' \in [Pairs -> Nat]
    BY <1>2, <2>1
  <2> QED
    BY <2>3, <2>4
<1>11. \A p \in told :
          /\ zeroConn'[p] = IF silent'[p] =< ZeroConnSkip THEN silent'[p] ELSE ZeroConnSkip
          /\ ~Skipped(p, conns[p]) <=> silent'[p] =< ZeroConnSkip
  <2> SUFFICES ASSUME NEW p \in told
               PROVE  /\ zeroConn'[p] = IF silent'[p] =< ZeroConnSkip THEN silent'[p] ELSE ZeroConnSkip
                      /\ ~Skipped(p, conns[p]) <=> silent'[p] =< ZeroConnSkip
    OBVIOUS
  <2>1. p \in Pairs /\ conns[p] \in {0, 1}
    BY <1>2, <1>6
  <2>2. zeroConn'[p] = Counted(p, conns[p]) /\ zeroConn'[p] \in Nat /\ silent'[p] \in Nat
    BY <1>2, <1>10, <2>1
  <2>3. silent'[p] = IF conns[p] > 0 THEN 0
                     ELSE IF silent[p] > ZeroConnSkip THEN silent[p] ELSE silent[p] + 1
    <3>1. silent[p] \in Nat /\ ZeroConnSkip \in Nat
      BY <2>1, StatzRequestsAssumption DEF SkipInv
    <3> QED
      BY <1>2, <2>1, <3>1
  <2> QED
    BY <2>1, <2>2, <2>3, TellPair
<1>12. \A p \in Pairs \ told : zeroConn'[p] = zeroConn[p] /\ silent'[p] = silent[p]
  BY <1>2
<1>13. SkipInv'
  <2>1. \A p \in Pairs :
           zeroConn'[p] = IF silent'[p] =< ZeroConnSkip THEN silent'[p] ELSE ZeroConnSkip
    BY <1>11, <1>12 DEF SkipInv
  <2>2. seen' \subseteq Pairs /\ accStats' \subseteq seen'
    BY <1>2, <1>3, <1>6 DEF SkipInv
  <2>3. \A p \in seen' : p[1] \notin Range(res')
    BY <1>2, <1>5, <1>7 DEF SkipInv
  <2> QED
    BY <1>3, <1>10, <2>1, <2>2, <2>3 DEF SkipInv
<1>14. LeftOutWhenSilent'
  <2> SUFFICES ASSUME NEW p \in seen' PROVE p \in accStats' <=> silent'[p] =< ZeroConnSkip
    BY DEF LeftOutWhenSilent
  <2>1. CASE p \in told
    BY <1>2, <1>8, <1>11, <2>1
  <2>2. CASE p \notin told
    <3>1. p \in seen /\ p \in Pairs /\ (p \in accStats' <=> p \in accStats)
      BY <1>2, <2>2 DEF SkipInv
    <3> QED
      BY <1>12, <2>2, <3>1 DEF LeftOutWhenSilent
  <2> QED
    BY <2>1, <2>2
<1> QED
  BY <1>13, <1>14

LEMMA SkipStep ==
    RInv /\ OnceEach /\ SkipInv /\ LeftOutWhenSilent /\ [Next]_vars => (SkipInv /\ LeftOutWhenSilent)'
<1> SUFFICES ASSUME RInv, OnceEach, SkipInv, LeftOutWhenSilent, [Next]_vars
             PROVE  (SkipInv /\ LeftOutWhenSilent)'
  OBVIOUS
<1>1. ASSUME UNCHANGED <<zeroConn, silent, accStats, seen>>,
             phase' = phase \/ (seen = {} /\ accStats = {}),
             seen = {} \/ Range(res') \subseteq Range(res)
      PROVE  (SkipInv /\ LeftOutWhenSilent)'
  BY <1>1 DEF SkipInv, LeftOutWhenSilent
<1>2. CASE Begin
  <2>1. seen = {} /\ accStats = {}
    BY <1>2 DEF Begin, SkipInv
  <2>2. UNCHANGED <<zeroConn, silent, accStats, seen>>
    BY <1>2 DEF Begin, accountVars
  <2> QED
    BY <1>1, <2>1, <2>2
<1>3. stage # "read" => seen = {}
  BY DEF RInv, StageInv
<1>4. CASE Send \/ SendFails \/ (\E s \in coming : Callback(s)) \/ CallbackResumes \/ Receive
           \/ Timeout \/ Unsubscribe
  <2>1. stage = "read" => stuck = NoServer /\ UNCHANGED res
    BY <1>4 DEF Send, SendFails, Callback, CallbackResumes, Receive, Timeout, Unsubscribe,
       RInv, StageInv
  <2>2. phase' = phase /\ UNCHANGED <<zeroConn, silent, accStats, seen>>
    BY <1>4 DEF Send, SendFails, Callback, CallbackResumes, Receive, Timeout, Unsubscribe, accountVars
  <2> QED
    BY <1>1, <1>3, <2>1, <2>2
<1>5. CASE ReadBad \/ ReadPlain \/ ReadJsz \/ ReadNotEnabled
  <2>1. /\ phase' = phase /\ UNCHANGED <<zeroConn, silent, accStats, seen>>
        /\ UNCHANGED <<coming, msgsChan, stuck>> /\ res # <<>> /\ res' \in {<<>>, Tail(res)}
    BY <1>5 DEF ReadBad, ReadPlain, ReadJsz, ReadNotEnabled, Reading, Accept, requestVars, accountVars
  <2> QED
    BY <1>1, <2>1, OnceReading
<1>6. CASE ReadAccounts
  BY <1>6, SkipAccounts
<1>7. CASE Finish
  <2>1. /\ phase' \in Following(phase) /\ phase \in Kinds \cup {"given"} /\ seen' = {}
        /\ UNCHANGED <<zeroConn, silent, accStats>>
    BY <1>7 DEF Finish
  <2>2. phase' \in {"gatewayz", "raftz", "accounts"} => accStats = {}
    BY <2>1 DEF SkipInv, Following, Kinds, Kept
  <2>3. phase' # "idle"
    BY <2>1 DEF Following, Kinds, Kept
  <2> QED
    BY <2>1, <2>2, <2>3 DEF SkipInv, LeftOutWhenSilent
<1>8. CASE Build
  <2>1. /\ phase' = "idle" /\ accStats' = {} /\ phase = "build"
        /\ UNCHANGED <<zeroConn, silent, seen>>
    BY <1>8 DEF Build
  <2> QED
    BY <2>1 DEF SkipInv, LeftOutWhenSilent
<1>9. CASE UNCHANGED vars
  BY <1>1, <1>9 DEF vars, accountVars
<1> QED
  BY <1>2, <1>4, <1>5, <1>6, <1>7, <1>8, <1>9 DEF Next

\* An account of a server is left out of a survey that hears of it if and only if
\* that server has now reported no connection of it more than ZeroConnSkip times
\* in a row (the counter accStatZeroConn, over any number of surveys).
THEOREM SilentLeftOut == Spec => []LeftOutWhenSilent
<1>1. Init => RInv /\ OnceEach /\ SkipInv /\ LeftOutWhenSilent
  BY RInvInitial, OnceInitial, SkipInitial
<1>2. (RInv /\ OnceEach /\ SkipInv /\ LeftOutWhenSilent) /\ [Next]_vars
        => (RInv /\ OnceEach /\ SkipInv /\ LeftOutWhenSilent)'
  BY RInvStep, OnceStep, SkipStep
<1> QED
  BY <1>1, <1>2, PTL DEF Spec
=============================================================================
