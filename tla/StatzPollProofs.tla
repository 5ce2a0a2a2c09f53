--------------------------- MODULE StatzPollProofs ---------------------------
(***************************************************************************)
(* Proofs about StatzPoll, for any number of servers and of polls.         *)
(***************************************************************************)
EXTENDS StatzPoll, FiniteSetTheorems, TLAPS

-----------------------------------------------------------------------------
(* The inductive invariant                                                 *)

\* The reply in the callback's hands answers the poll in progress, and so do
\* those received; what was exported came from this poll or the one before.
Fresh == FreshStats /\ (handler # "idle" => msg[2] = pollkey)

\* While poll receives, it has not got the number it waits for.
Room ==
    /\ step = "ping" => stats = {}
    /\ (step = "receive" /\ numServers # -1) => Cardinality(stats) < numServers
    /\ SurveyedAsExpected

\* A reply received has its time, but for one that the callback will record.
Timed == Responders \subseteq rtts \cup (IF handler = "record" THEN {msg[1]} ELSE {})

\* The servers heard of are those known and those that have just replied.
Known ==
    /\ heard = DOMAIN servers \cup Responders
    /\ step \notin {"receive", "seal", "account"} => Responders \subseteq DOMAIN servers

\* A reply is under way, in the callback's hands, received or dropped, one at a
\* time, and no server has answered a ping that is yet to be sent.
Once ==
    /\ handler # "idle" => msg \notin pending
    /\ handler = "offer" => msg \notin stats
    /\ stats \cap pending = {}
    /\ \A r \in pending : r[2] =< pollkey
    /\ step = "ping" => handler = "idle" /\ \A r \in pending : r[2] # pollkey

-----------------------------------------------------------------------------
(* Type correctness.  A ping names its poll, which has begun.              *)

Begun == step # "idle" => pollkey > 0

TypeInv == TypeOK /\ Begun

\* The sets of servers are finite, whatever the number of polls.
LEMMA FiniteReplies ==
    ASSUME TypeOK
    PROVE  IsFiniteSet(stats) /\ IsFiniteSet(Missing)
<1>1. IsFiniteSet(Replies)
  <2>1. IsFiniteSet(1..MaxPolls)
    BY FS_Interval, StatzPollAssumption
  <2> QED
    BY <2>1, FS_Product, StatzPollAssumption DEF Replies
<1>2. stats \in SUBSET Replies
  BY DEF TypeOK
<1>3. Missing \in SUBSET Servers
  BY DEF TypeOK, Missing, Marked, Responders, Replies
<1> QED
  BY <1>1, <1>2, <1>3, FS_Subset, StatzPollAssumption

LEMMA TypeInit == Init => TypeInv
<1> SUFFICES ASSUME Init
             PROVE  TypeInv
  OBVIOUS
<1>1. DOMAIN servers = {} /\ servers \in [{} -> BOOLEAN]
  BY DEF Init
<1>2. DOMAIN servers \subseteq Servers /\ servers \in [DOMAIN servers -> BOOLEAN]
  BY <1>1
<1>3. numServers \in NumServers /\ pollkey \in 0..MaxPolls
  BY StatzPollAssumption DEF Init
<1>4. polling \in BOOLEAN /\ (polling <=> step \in {"ping", "fail", "receive", "seal"})
  BY DEF Init
<1>5. stats \subseteq Replies /\ metrics \subseteq Replies /\ pending \subseteq Replies
  BY DEF Init
<1>6. msg \in Replies \cup {NoReply} /\ (msg = NoReply <=> handler = "idle")
  BY DEF Init
<1> QED
  BY <1>2, <1>3, <1>4, <1>5, <1>6 DEF Init, TypeInv, TypeOK, Begun

LEMMA TypeNext == TypeInv /\ [Next]_vars => TypeInv'
<1> SUFFICES ASSUME TypeInv, [Next]_vars
             PROVE  TypeInv'
  OBVIOUS
<1> USE StatzPollAssumption DEF TypeInv, TypeOK, Begun, pollVars, handlerVars
<1>1. CASE Begin
  BY <1>1 DEF Begin, LockFree
<1>2. CASE Ping
  <2> PICK answering \in SUBSET Servers : pending' = pending \cup (answering \X {pollkey})
    BY <1>2 DEF Ping
  <2>1. pollkey \in 1..MaxPolls
    BY <1>2 DEF Ping
  <2>2. answering \X {pollkey} \subseteq Servers \X (1..MaxPolls)
    BY <2>1
  <2>3. pending' \subseteq Servers \X (1..MaxPolls)
    BY <2>2 DEF Replies
  <2> QED
    BY <1>2, <2>3 DEF Ping, Replies
<1>3. CASE PingFails \/ DiscoveryTimeout \/ PollTimeout
  <2>1. CASE PingFails
    BY <2>1 DEF PingFails
  <2>2. CASE DiscoveryTimeout
    BY <2>2 DEF DiscoveryTimeout
  <2>3. CASE PollTimeout
    BY <2>3 DEF PollTimeout
  <2> QED
    BY <1>3, <2>1, <2>2, <2>3
<1>4. CASE Fail \/ Seal \/ Leave \/ Build
  <2>1. CASE Fail
    BY <2>1 DEF Fail, Failed
  <2>2. CASE Seal
    BY <2>2 DEF Seal, Sealed
  <2>3. CASE Leave
    BY <2>3 DEF Leave
  <2>4. CASE Build
    BY <2>4 DEF Build
  <2> QED
    BY <1>4, <2>1, <2>2, <2>3, <2>4
<1>5. CASE Receive
  <2>1. msg \in Replies /\ msg[1] \in Servers
    BY <1>5 DEF Receive, Replies
  <2> QED
    BY <1>5, <2>1 DEF Receive
<1>6. CASE Account
  <2>1. Responders \subseteq Servers
    BY DEF Responders, Replies
  <2>2. CASE Complete
    <3>1. DOMAIN servers' = Responders /\ servers' \in [Responders -> BOOLEAN]
      BY <1>6, <2>2 DEF Account
    <3> QED
      BY <1>6, <2>1, <2>2, <3>1 DEF Account
  <2>3. CASE ~Complete
    <3>1. Cardinality(Missing) \in Nat
      BY FiniteReplies, FS_CardinalityType
    <3>2. servers' = [s \in DOMAIN servers \cup Responders |-> s \in Responders]
      BY <1>6, <2>3, Zenon DEF Account, Marked
    <3>3. DOMAIN servers' = DOMAIN servers \cup Responders
      BY <3>2, Zenon
    <3>4. servers' \in [DOMAIN servers \cup Responders -> BOOLEAN]
      <4>1. \A s \in DOMAIN servers \cup Responders : (s \in Responders) \in BOOLEAN
        OBVIOUS
      <4> QED
        BY <3>2, <4>1, Zenon
    <3> QED
      BY <1>6, <2>1, <2>3, <3>1, <3>3, <3>4 DEF Account
  <2> QED
    BY <2>2, <2>3
<1>7. ASSUME NEW r \in pending, Offer(r) \/ Late(r) \/ Extra(r)
      PROVE  TypeInv'
  <2>1. r \in Replies /\ r # NoReply
    BY DEF Replies
  <2>2. pending' \subseteq Replies
    BY <1>7 DEF Offer, Late, Extra, Take
  <2>3. CASE Offer(r)
    BY <2>1, <2>2, <2>3 DEF Offer
  <2>4. CASE Late(r)
    BY <2>2, <2>4 DEF Late
  <2>5. CASE Extra(r)
    BY <2>2, <2>5 DEF Extra
  <2> QED
    BY <1>7, <2>3, <2>4, <2>5
<1>8. CASE OfferTimeout \/ Record
  <2>1. handler # "idle" => msg \in Replies /\ msg[1] \in Servers
    BY DEF Replies
  <2> QED
    <3>1. CASE OfferTimeout
      BY <3>1 DEF OfferTimeout
    <3>2. CASE Record
      BY <2>1, <3>2 DEF Record
    <3> QED
      BY <1>8, <3>1, <3>2
<1>9. CASE UNCHANGED vars
  BY <1>9 DEF vars
<1> QED
  BY <1>1, <1>2, <1>3, <1>4, <1>5, <1>6, <1>7, <1>8, <1>9 DEF Next, PollStep, HandlerStep

\* The collector's state has the types that StatzPoll gives it.
THEOREM TypeCorrect == Spec => []TypeOK
<1>1. TypeInv => TypeOK
  BY DEF TypeInv
<1> QED
  BY <1>1, TypeInit, TypeNext, PTL DEF Spec

-----------------------------------------------------------------------------
(* The parts of the invariant, one by one.  Each needs the types only.     *)

LEMMA FreshNext == TypeInv /\ Fresh /\ [Next]_vars => Fresh'
<1> SUFFICES ASSUME TypeInv, Fresh, [Next]_vars
             PROVE  Fresh'
  OBVIOUS
<1>0. pollkey \in Nat
  BY StatzPollAssumption DEF TypeInv, TypeOK
<1> USE DEF Fresh, FreshStats, pollVars, handlerVars
<1>1. CASE Begin
  BY <1>0, <1>1 DEF Begin, LockFree
<1>2. CASE Ping \/ PingFails \/ DiscoveryTimeout \/ PollTimeout
  BY <1>2 DEF Ping, PingFails, DiscoveryTimeout, PollTimeout
<1>3. CASE Fail \/ Build
  BY <1>3 DEF Fail, Failed, Build
<1>4. CASE Receive
  <2>1. \A r \in stats' : r[2] = pollkey'
    BY <1>4 DEF Receive
  <2>2. handler' # "idle" => msg'[2] = pollkey'
    BY <1>4 DEF Receive
  <2> QED
    BY <1>4, <2>1, <2>2 DEF Receive
<1>5. CASE Seal \/ Account \/ Leave
  BY <1>5 DEF Seal, Account, Leave
<1>6. ASSUME NEW r \in pending, Offer(r) \/ Late(r) \/ Extra(r)
      PROVE  Fresh'
  BY <1>6 DEF Offer, Late, Extra, Take, Current
<1>7. CASE OfferTimeout \/ Record
  BY <1>7 DEF OfferTimeout, Record
<1>8. CASE UNCHANGED vars
  BY <1>8 DEF vars
<1> QED
  BY <1>1, <1>2, <1>3, <1>4, <1>5, <1>6, <1>7, <1>8 DEF Next, PollStep, HandlerStep

LEMMA RoomNext == TypeInv /\ Room /\ [Next]_vars => Room'
<1> SUFFICES ASSUME TypeInv, Room, [Next]_vars
             PROVE  Room'
  OBVIOUS
<1>0. numServers \in (Nat \ {0}) \cup {-1}
  BY StatzPollAssumption DEF TypeInv, TypeOK
<1>c. IsFiniteSet(stats) /\ Cardinality(stats) \in Nat
  BY FiniteReplies, FS_CardinalityType DEF TypeInv
<1>e. Cardinality({}) = 0
  BY FS_EmptySet
<1> USE DEF Room, SurveyedAsExpected, pollVars, handlerVars
<1>1. CASE Begin
  BY <1>0, <1>e, <1>1 DEF Begin
<1>2. CASE Ping
  BY <1>0, <1>e, <1>2 DEF Ping
<1>3. CASE PingFails \/ Fail \/ Build
  BY <1>3 DEF PingFails, Fail, Failed, Build
<1>4. CASE Receive
  <2>1. Cardinality(stats') \in Nat /\ Cardinality(stats') =< Cardinality(stats) + 1
    BY <1>4, <1>c, FS_AddElement DEF Receive
  <2>2. step = "receive" /\ step' \in {"receive", "seal"}
    BY <1>4 DEF Receive
  <2>3. step' = "receive" => Cardinality(stats') # numServers
    BY <1>4 DEF Receive, Full
  <2>4. numServers' = numServers
    BY <1>4 DEF Receive
  <2> QED
    BY <1>0, <1>c, <2>1, <2>2, <2>3, <2>4
<1>5. CASE DiscoveryTimeout \/ PollTimeout \/ Seal \/ Account \/ Leave
  BY <1>5 DEF DiscoveryTimeout, PollTimeout, Seal, Account, Leave
<1>6. ASSUME NEW r \in pending, Offer(r) \/ Late(r) \/ Extra(r)
      PROVE  Room'
  BY <1>6 DEF Offer, Late, Extra
<1>7. CASE OfferTimeout \/ Record
  BY <1>7 DEF OfferTimeout, Record
<1>8. CASE UNCHANGED vars
  BY <1>8 DEF vars
<1> QED
  BY <1>1, <1>2, <1>3, <1>4, <1>5, <1>6, <1>7, <1>8 DEF Next, PollStep, HandlerStep

LEMMA TimedNext == TypeInv /\ Timed /\ [Next]_vars => Timed'
<1> SUFFICES ASSUME TypeInv, Timed, [Next]_vars
             PROVE  Timed'
  OBVIOUS
<1> USE DEF Timed, Responders, pollVars, handlerVars
<1>1. CASE Begin
  BY <1>1 DEF Begin
<1>2. CASE Ping \/ PingFails \/ Fail \/ DiscoveryTimeout \/ PollTimeout
  BY <1>2 DEF Ping, PingFails, Fail, DiscoveryTimeout, PollTimeout
<1>3. CASE Receive
  BY <1>3 DEF Receive
<1>4. CASE Seal \/ Account \/ Leave \/ Build
  BY <1>4 DEF Seal, Account, Leave, Build
<1>5. ASSUME NEW r \in pending, Offer(r) \/ Late(r) \/ Extra(r)
      PROVE  Timed'
  BY <1>5 DEF Offer, Late, Extra, Take, LockFree
<1>6. CASE OfferTimeout \/ Record
  BY <1>6 DEF OfferTimeout, Record
<1>7. CASE UNCHANGED vars
  BY <1>7 DEF vars
<1> QED
  BY <1>1, <1>2, <1>3, <1>4, <1>5, <1>6, <1>7 DEF Next, PollStep, HandlerStep

LEMMA KnownNext == TypeInv /\ Room /\ Known /\ [Next]_vars => Known'
<1> SUFFICES ASSUME TypeInv, Room, Known, [Next]_vars
             PROVE  Known'
  OBVIOUS
<1> USE DEF Known, Responders, pollVars, handlerVars
<1>1. CASE Begin
  BY <1>1 DEF Begin
<1>2. CASE Ping \/ PingFails \/ Fail \/ DiscoveryTimeout \/ PollTimeout
  BY <1>2 DEF Ping, PingFails, Fail, DiscoveryTimeout, PollTimeout, Room
<1>3. CASE Receive
  <2>1. Responders' = Responders \cup {msg[1]}
    BY <1>3 DEF Receive
  <2> QED
    BY <1>3, <2>1 DEF Receive
<1>4. CASE Account
  <2>1. Responders' = Responders
    BY <1>4 DEF Account
  <2>2. CASE Complete
    <3>1. servers' = [s \in Responders |-> FALSE] /\ heard' = Responders
      BY <1>4, <2>2 DEF Account
    <3>2. DOMAIN servers' = Responders
      BY <3>1
    <3> QED
      BY <2>1, <3>1, <3>2
  <2>3. CASE ~Complete
    <3>1. heard' = heard /\ DOMAIN servers' = DOMAIN servers \cup Responders
      BY <1>4, <2>3 DEF Account, Marked
    <3> QED
      BY <2>1, <3>1
  <2> QED
    BY <2>2, <2>3
<1>5. CASE Seal \/ Leave \/ Build
  BY <1>5 DEF Seal, Leave, Build
<1>6. ASSUME NEW r \in pending, Offer(r) \/ Late(r) \/ Extra(r)
      PROVE  Known'
  BY <1>6 DEF Offer, Late, Extra
<1>7. CASE OfferTimeout \/ Record
  BY <1>7 DEF OfferTimeout, Record
<1>8. CASE UNCHANGED vars
  BY <1>8 DEF vars
<1> QED
  BY <1>1, <1>2, <1>3, <1>4, <1>5, <1>6, <1>7, <1>8 DEF Next, PollStep, HandlerStep

LEMMA OnceNext == TypeInv /\ Room /\ Once /\ [Next]_vars => Once'
<1> SUFFICES ASSUME TypeInv, Room, Once, [Next]_vars
             PROVE  Once'
  OBVIOUS
<1>0. pollkey \in Nat
  BY StatzPollAssumption DEF TypeInv, TypeOK
<1> USE DEF Once, pollVars, handlerVars
<1>1. CASE Begin
  <2>1. pollkey' = pollkey + 1 /\ pending' = pending /\ handler' = "idle" /\ stats' = {}
    BY <1>1 DEF Begin, LockFree
  <2>2. \A r \in pending : r[2] =< pollkey + 1 /\ r[2] # pollkey + 1
    <3> TAKE r \in pending
    <3>1. r[2] \in Nat
      BY StatzPollAssumption DEF TypeInv, TypeOK, Replies
    <3> QED
      BY <1>0, <3>1
  <2> QED
    BY <2>1, <2>2
<1>2. CASE Ping
  <2> PICK answering \in SUBSET Servers : pending' = pending \cup (answering \X {pollkey})
    BY <1>2 DEF Ping
  <2>1. \A r \in answering \X {pollkey} : r[2] = pollkey
    OBVIOUS
  <2>2. stats' = {} /\ handler' = "idle" /\ pollkey' = pollkey /\ step' = "receive"
    BY <1>2 DEF Ping, Room
  <2> QED
    BY <1>0, <2>1, <2>2
<1>3. CASE PingFails \/ Fail \/ DiscoveryTimeout \/ PollTimeout
  BY <1>3 DEF PingFails, Fail, Failed, DiscoveryTimeout, PollTimeout
<1>4. CASE Receive
  <2>1. stats' \cap pending' = {}
    BY <1>4 DEF Receive
  <2> QED
    BY <1>4, <2>1 DEF Receive
<1>5. CASE Seal \/ Account \/ Leave \/ Build
  BY <1>5 DEF Seal, Account, Leave, Build
<1>6. ASSUME NEW r \in pending, Offer(r) \/ Late(r) \/ Extra(r)
      PROVE  Once'
  BY <1>6 DEF Offer, Late, Extra, Take, LockFree, Current
<1>7. CASE OfferTimeout \/ Record
  BY <1>7 DEF OfferTimeout, Record
<1>8. CASE UNCHANGED vars
  BY <1>8 DEF vars
<1> QED
  BY <1>1, <1>2, <1>3, <1>4, <1>5, <1>6, <1>7, <1>8 DEF Next, PollStep, HandlerStep

-----------------------------------------------------------------------------
(* What a survey guarantees                                                *)

IInv == TypeInv /\ Fresh /\ Room /\ Timed /\ Known /\ Once

\* The invariant holds, whatever late replies and timers do.
THEOREM Invariance == Spec => []IInv
<1>1. Init => Fresh /\ Room /\ Timed /\ Known /\ Once
  <2> SUFFICES ASSUME Init
               PROVE  Fresh /\ Room /\ Timed /\ Known /\ Once
    OBVIOUS
  <2>1. Cardinality(stats) = 0
    BY FS_EmptySet DEF Init
  <2>2. numServers \in (Nat \ {0}) \cup {-1}
    BY StatzPollAssumption DEF Init
  <2>3. Room
    BY <2>1, <2>2 DEF Init, Room, SurveyedAsExpected
  <2>4. DOMAIN servers = {} /\ Responders = {}
    BY DEF Init, Responders
  <2>5. Fresh
    BY DEF Init, Fresh, FreshStats
  <2> QED
    BY <2>3, <2>4, <2>5 DEF Init, Timed, Known, Once
<1>2. IInv /\ [Next]_vars => IInv'
  BY TypeNext, FreshNext, RoomNext, TimedNext, KnownNext, OnceNext DEF IInv
<1> QED
  BY <1>1, <1>2, TypeInit, PTL DEF Spec, IInv

\* A survey exports replies to its own ping only.
THEOREM OnlyFresh == Spec => []FreshStats
<1>1. IInv => FreshStats
  BY DEF IInv, Fresh
<1> QED
  BY <1>1, Invariance, PTL

\* Every reply exported has its round trip time.
THEOREM AllTimed == Spec => []StatsHaveRtt
<1>1. IInv => StatsHaveRtt
  BY DEF IInv, Timed, StatsHaveRtt, LockFree
<1> QED
  BY <1>1, Invariance, PTL

\* No survey has more replies than servers are expected.
THEOREM WithinExpected == Spec => []SurveyedAsExpected
<1>1. IInv => SurveyedAsExpected
  BY DEF IInv, Room
<1> QED
  BY <1>1, Invariance, PTL

\* The servers counted as missing are those heard of that are silent now.
THEOREM CountsMissing == Spec => MissingCounted
<1>1. IInv /\ [Next]_vars =>
        ((step = "account" /\ step' # "account") =>
           noReplies' = noReplies + (IF Complete THEN 0 ELSE Cardinality(heard \ Responders)))
  <2> SUFFICES ASSUME IInv, [Next]_vars, step = "account", step' # "account"
               PROVE  noReplies' = noReplies
                        + (IF Complete THEN 0 ELSE Cardinality(heard \ Responders))
    OBVIOUS
  <2>1. Account
    <3> USE DEF pollVars, handlerVars, vars
    <3>1. (~Begin /\ ~PollStep) \/ Account
      BY DEF Begin, PollStep, Ping, PingFails, Fail, Receive, DiscoveryTimeout, PollTimeout,
             Seal, Leave, Build
    <3>2. ~HandlerStep
      BY DEF HandlerStep, OfferTimeout, Record
    <3>3. \A r \in pending : ~(Offer(r) \/ Late(r) \/ Extra(r))
      BY DEF Offer, Late, Extra
    <3>4. ~UNCHANGED vars
      BY DEF vars
    <3> QED
      BY <3>1, <3>2, <3>3, <3>4 DEF Next
  <2>2. Missing = heard \ Responders
    BY DEF IInv, Known, Missing, Marked
  <2>3. noReplies \in Nat
    BY DEF IInv, TypeInv, TypeOK
  <2> QED
    BY <2>1, <2>2, <2>3 DEF Account
<1> QED
  BY <1>1, Invariance, PTL DEF Spec, MissingCounted

-----------------------------------------------------------------------------
(* A survey implements Survey: what each of its steps is there.            *)

\* The instance's name for the cardinality of a set.
LEMMA IdealCardinality == \A S : Ideal!Cardinality(S) = Cardinality(S)
  BY DEF Ideal!Cardinality, Cardinality

LEMMA IdealInit == TypeInv /\ Init => Ideal!Init
<1> SUFFICES ASSUME TypeInv, Init
             PROVE  Ideal!Init
  OBVIOUS
<1>1. DOMAIN servers = {} /\ Responders = {}
  BY DEF Init, Responders
<1>2. {s \in Servers : Underway(s)} = {} /\ {r[1] : r \in metrics} = {}
  BY DEF Init, Underway
<1> QED
  BY <1>1, <1>2 DEF Ideal!Init, Init, Phase

\* Steps that Survey does not see: what the callback does with a late reply, or
\* before and after it gives away a reply, and the locking.
LEMMA IdealStutter ==
    ASSUME UNCHANGED <<numServers, pollkey, stats, servers, noReplies, metrics>>,
           Phase' = Phase,
           \A s \in Servers : Underway(s)' <=> Underway(s)
    PROVE  UNCHANGED Ideal!vars
<1>1. {s \in Servers : Underway(s)}' = {s \in Servers : Underway(s)}
  OBVIOUS
<1> QED
  BY <1>1 DEF Ideal!vars, Responders

\* Replies to one ping come from as many servers.
LEMMA CountSenders ==
    ASSUME NEW replies \in SUBSET Replies, NEW key, \A r \in replies : r[2] = key
    PROVE  Cardinality({r[1] : r \in replies}) = Cardinality(replies)
<1> DEFINE senders == {r[1] : r \in replies}
<1>1. replies = senders \X {key}
  <2>1. \A r \in replies : r = <<r[1], key>>
    BY DEF Replies
  <2> QED
    BY <2>1
<1>2. IsFiniteSet(senders) /\ Cardinality(senders) \in Nat
  <2>1. senders \in SUBSET Servers
    BY DEF Replies
  <2> QED
    BY <2>1, FS_Subset, FS_CardinalityType, StatzPollAssumption
<1>3. IsFiniteSet({key}) /\ Cardinality({key}) = 1
  BY FS_Singleton
<1> HIDE DEF senders
<1>4. Cardinality(senders \X {key}) = Cardinality(senders) * Cardinality({key})
  BY <1>2, <1>3, FS_Product
<1>5. Cardinality(replies) = Cardinality(senders)
  BY <1>1, <1>2, <1>3, <1>4
<1> QED
  BY <1>5 DEF senders

LEMMA IdealBegin ==
    ASSUME IInv, Begin
    PROVE  Ideal!Begin
<1>1. pollkey \in Nat
  BY StatzPollAssumption DEF IInv, TypeInv, TypeOK
<1>2. \A s \in Servers : ~Underway(s)'
  <2> SUFFICES ASSUME NEW s \in Servers, <<s, pollkey + 1>> \in pending
               PROVE  FALSE
    BY DEF Begin, LockFree, Underway, handlerVars
  <2>1. <<s, pollkey + 1>>[2] =< pollkey
    BY DEF IInv, Once
  <2> QED
    BY <1>1, <2>1
<1>3. {s \in Servers : Underway(s)}' = {}
  BY <1>2
<1>4. Responders' = {}
  BY DEF Begin, Responders
<1>5. DOMAIN servers' \cup Responders' = DOMAIN servers \cup Responders
  BY <1>4 DEF IInv, Known, Begin
<1>6. Phase = "idle" /\ Phase' = "begun"
  BY DEF Begin, Phase
<1> QED
  BY <1>3, <1>4, <1>5, <1>6 DEF Ideal!Begin, Begin

LEMMA IdealAsk ==
    ASSUME IInv, Ping
    PROVE  Ideal!Ask
<1>1. Phase = "begun" /\ Phase' = "open"
  BY DEF Ping, Phase
<1>2. {s \in Servers : Underway(s)}' \in SUBSET Servers
  OBVIOUS
<1>3. Responders' = Responders
  BY DEF Ping, Responders
<1> QED
  BY <1>1, <1>2, <1>3 DEF Ideal!Ask, Ping

LEMMA IdealGather ==
    ASSUME IInv, Receive
    PROVE  \E s \in Servers : Ideal!Gather(s)
<1> DEFINE s == msg[1]
<1>1. msg = <<s, pollkey>> /\ s \in Servers
  <2>1. msg \in Servers \X (1..MaxPolls)
    BY DEF IInv, TypeInv, TypeOK, Receive, Replies
  <2>2. msg[2] = pollkey
    BY DEF IInv, Fresh, Receive
  <2> QED
    BY <2>1, <2>2
<1>2. Phase = "open" /\ Phase' = IF Full(stats') THEN "closed" ELSE "open"
  BY DEF Receive, Phase
<1>3. s \notin Responders
  <2> SUFFICES ASSUME NEW r \in stats, r[1] = s
               PROVE  FALSE
    BY DEF Responders
  <2>1. r \in Servers \X (1..MaxPolls) /\ r[2] = pollkey
    BY DEF IInv, TypeInv, TypeOK, Replies, Fresh, FreshStats
  <2>2. r = msg
    BY <1>1, <2>1
  <2> QED
    BY <2>2 DEF IInv, Once, Receive
<1>4. Responders' = Responders \cup {s}
  BY DEF Receive, Responders
<1>5. {t \in Servers : Underway(t)}' = {t \in Servers : Underway(t)} \ {s}
  <2>1. <<s, pollkey>> \notin pending
    BY <1>1 DEF IInv, Once, Receive
  <2>2. \A t \in Servers : Underway(t)' <=> <<t, pollkey>> \in pending
    BY DEF Receive, Underway
  <2>3. \A t \in Servers : Underway(t) <=> <<t, pollkey>> \in pending \/ t = s
    BY <1>1 DEF Receive, Underway
  <2> QED
    BY <2>1, <2>2, <2>3
<1>6. Underway(s)
  BY <1>1 DEF Underway, Receive
<1>7. Full(stats') <=> Cardinality(Responders') = numServers
  <2>1. TypeOK'
    BY TypeNext DEF IInv, TypeInv, Next, PollStep
  <2>2. \A r \in stats' : r[2] = pollkey'
    BY <1>1 DEF Receive, IInv, Fresh, FreshStats
  <2>3. Cardinality({r[1] : r \in stats'}) = Cardinality(stats')
    BY <2>1, <2>2, CountSenders DEF TypeOK
  <2> QED
    BY <2>3 DEF Full, Responders
<1>8. Ideal!Gather(s)
  BY <1>1, <1>2, <1>3, <1>4, <1>5, <1>6, <1>7, IdealCardinality DEF Ideal!Gather, Receive
<1> QED
  BY <1>1, <1>8

\* A reply that is dropped, or that comes when its poll has ended, is lost; one
\* to an earlier poll was lost when the next one began.
LEMMA IdealLose ==
    ASSUME IInv, OfferTimeout \/ \E r \in pending : Extra(r)
    PROVE  \E s \in Servers : Ideal!Lose(s)
<1>1. PICK r \in Replies :
        /\ r[2] = pollkey
        /\ \/ OfferTimeout /\ r = msg
           \/ r \in pending /\ Extra(r)
  <2>1. CASE OfferTimeout
    <3>1. msg \in Replies /\ msg[2] = pollkey
      BY <2>1 DEF OfferTimeout, IInv, TypeInv, TypeOK, Fresh
    <3> QED
      BY <2>1, <3>1
  <2>2. ASSUME NEW r \in pending, Extra(r)
        PROVE  r \in Replies /\ r[2] = pollkey
    BY <2>2 DEF IInv, TypeInv, TypeOK, Extra, Current
  <2> QED
    BY <2>1, <2>2
<1> DEFINE s == r[1]
<1>2. s \in Servers /\ r = <<s, pollkey>>
  BY <1>1 DEF Replies
<1>3. /\ \A t \in Servers : Underway(t)' <=> Underway(t) /\ t # s
      /\ Underway(s)
  <2>1. CASE OfferTimeout /\ r = msg
    BY <1>2, <2>1 DEF OfferTimeout, IInv, Once, Underway
  <2>2. CASE r \in pending /\ Extra(r)
    <3>1. /\ pending' = pending \ {<<s, pollkey>>} /\ <<s, pollkey>> \in pending
          /\ handler = "idle" /\ handler' = handler /\ pollkey' = pollkey
      BY <1>2, <2>2 DEF Extra, Take, LockFree
    <3> QED
      BY <3>1 DEF Underway
  <2> QED
    BY <1>1, <2>1, <2>2
<1>4. {t \in Servers : Underway(t)}' = {t \in Servers : Underway(t)} \ {s}
  BY <1>3
<1>5. /\ UNCHANGED <<numServers, pollkey, stats, servers, noReplies, metrics>>
      /\ Phase' = Phase
  BY <1>1 DEF OfferTimeout, Extra, pollVars, Phase
<1>6. Ideal!Lose(s)
  BY <1>2, <1>3, <1>4, <1>5 DEF Ideal!Lose, Responders
<1> QED
  BY <1>2, <1>6

\* The answers under way stay so when poll goes on.
LEMMA SameUnderway ==
    ASSUME UNCHANGED <<pollkey, pending, handler, msg>>
    PROVE  {s \in Servers : Underway(s)}' = {s \in Servers : Underway(s)}
  BY DEF Underway

LEMMA IdealClose ==
    ASSUME DiscoveryTimeout \/ PollTimeout
    PROVE  Ideal!Close
<1>1. Phase = "open" /\ Phase' = "closed"
  BY DEF DiscoveryTimeout, PollTimeout, Phase
<1>2. UNCHANGED <<pollkey, pending, handler, msg, numServers, stats, servers, noReplies, metrics>>
  BY DEF DiscoveryTimeout, PollTimeout, handlerVars
<1> QED
  BY <1>1, <1>2, SameUnderway DEF Ideal!Close, Responders

\* The marks of the servers are forgotten here: those missing are the known
\* ones without those that replied.
LEMMA IdealCount ==
    ASSUME IInv, Account
    PROVE  Ideal!Count
<1>1. Phase = "closed" /\ Phase' = "counted"
  BY DEF Account, Phase
<1>2. UNCHANGED <<pollkey, pending, handler, msg, numServers, stats, metrics>>
  BY DEF Account, handlerVars
<1>3. Responders' = Responders
  BY <1>2 DEF Responders
<1>4. Complete <=> numServers \in {-1, Cardinality(Responders)}
  <2>1. Cardinality(Responders) = Cardinality(stats)
    BY CountSenders DEF IInv, TypeInv, TypeOK, Fresh, FreshStats, Responders
  <2> QED
    BY <2>1 DEF Complete
<1>5. CASE Complete
  <2>1. servers' = [s \in Responders |-> FALSE] /\ noReplies' = noReplies
    BY <1>5 DEF Account
  <2>2. DOMAIN servers' \cup Responders' = Responders
    BY <1>3, <2>1
  <2> QED
    BY <1>1, <1>2, <1>3, <1>4, <1>5, <2>1, <2>2, SameUnderway, IdealCardinality DEF Ideal!Count
<1>6. CASE ~Complete
  <2>1. servers' = Marked /\ noReplies' = noReplies + Cardinality(Missing)
    BY <1>6 DEF Account
  <2>2. DOMAIN servers' \cup Responders' = DOMAIN servers \cup Responders
    BY <1>3, <2>1 DEF Marked
  <2>3. Missing = (DOMAIN servers \cup Responders) \ Responders
    BY DEF Missing, Marked
  <2> QED
    BY <1>1, <1>2, <1>3, <1>4, <1>6, <2>1, <2>2, <2>3, SameUnderway, IdealCardinality
       DEF Ideal!Count
<1> QED
  BY <1>5, <1>6

LEMMA IdealConfirm ==
    ASSUME Leave
    PROVE  Ideal!Confirm
<1>1. Phase = "counted" /\ Phase' = "sound"
  BY DEF Leave, Phase
<1>2. UNCHANGED <<pollkey, pending, handler, msg, numServers, stats, servers, noReplies, metrics>>
  BY DEF Leave, handlerVars
<1> QED
  BY <1>1, <1>2, SameUnderway DEF Ideal!Confirm, Responders

LEMMA IdealPublish ==
    ASSUME Build
    PROVE  Ideal!Publish
<1>1. Phase = "sound" /\ Phase' = "idle"
  BY DEF Build, Phase
<1>2. /\ UNCHANGED <<pollkey, pending, handler, msg, numServers, stats, servers, noReplies>>
      /\ metrics' = stats
  BY DEF Build, handlerVars
<1> QED
  BY <1>1, <1>2, SameUnderway DEF Ideal!Publish, Responders

LEMMA IdealFail ==
    ASSUME Fail
    PROVE  Ideal!Fail
<1>1. Phase \in {"begun", "counted"} /\ Phase' = "idle"
  BY DEF Fail, Phase
<1>2. /\ UNCHANGED <<pollkey, pending, handler, msg, numServers, stats, servers, noReplies>>
      /\ metrics' = {}
  BY DEF Fail, Failed, handlerVars
<1> QED
  BY <1>1, <1>2, SameUnderway DEF Ideal!Fail, Responders

\* The failure to ping, the end of the polling, and the callback's own steps.
LEMMA IdealSame ==
    ASSUME IInv,
           \/ PingFails \/ Seal \/ Record \/ UNCHANGED vars
           \/ \E r \in pending : Offer(r) \/ Late(r)
    PROVE  UNCHANGED Ideal!vars
<1>1. CASE PingFails \/ Seal
  <2>1. UNCHANGED <<numServers, pollkey, stats, servers, noReplies, metrics, pending, handler, msg>>
    BY <1>1 DEF PingFails, Seal, handlerVars
  <2>2. Phase' = Phase
    BY <1>1 DEF PingFails, Seal, Phase
  <2> QED
    BY <2>1, <2>2, IdealStutter DEF Underway
<1>2. CASE Record \/ UNCHANGED vars
  <2>1. UNCHANGED <<numServers, pollkey, stats, servers, noReplies, metrics, pending, step>>
    BY <1>2 DEF Record, vars, pollVars, handlerVars
  <2>2. \/ handler # "offer" /\ handler' # "offer"
        \/ UNCHANGED <<handler, msg>>
    BY <1>2 DEF Record, vars, handlerVars
  <2> QED
    BY <2>1, <2>2, IdealStutter DEF Underway, Phase
<1>3. ASSUME NEW r \in pending, Offer(r) \/ Late(r)
      PROVE  UNCHANGED Ideal!vars
  <2>1. UNCHANGED <<numServers, pollkey, stats, servers, noReplies, metrics, step>>
    BY <1>3 DEF Offer, Late, pollVars
  <2>2. handler = "idle" /\ pending' = pending \ {r}
    BY <1>3 DEF Offer, Late, Take, LockFree
  <2>3. \A s \in Servers : Underway(s)' <=> Underway(s)
    <3>1. CASE Offer(r)
      BY <2>1, <2>2, <3>1 DEF Offer, Underway
    <3>2. CASE Late(r)
      BY <2>1, <2>2, <3>2 DEF Late, Current, Underway
    <3> QED
      BY <1>3, <3>1, <3>2
  <2> QED
    BY <2>1, <2>3, IdealStutter DEF Phase
<1> QED
  BY <1>1, <1>2, <1>3

\* Every survey is one that Survey describes: it gathers each answer to its own
\* ping at most once and no other, as many as it expects, and exports them all.
THEOREM RefinesSurvey == Spec => ImplementsSurvey
<1>1. IInv /\ [Next]_vars => [Ideal!Next]_(Ideal!vars)
  <2> SUFFICES ASSUME IInv, [Next]_vars
               PROVE  [Ideal!Next]_(Ideal!vars)
    OBVIOUS
  <2>1. CASE Begin
    BY <2>1, IdealBegin DEF Ideal!Next
  <2>2. CASE Ping
    BY <2>2, IdealAsk DEF Ideal!Next
  <2>3. CASE Receive
    BY <2>3, IdealGather DEF Ideal!Next
  <2>4. CASE DiscoveryTimeout \/ PollTimeout
    BY <2>4, IdealClose DEF Ideal!Next
  <2>5. CASE Account
    BY <2>5, IdealCount DEF Ideal!Next
  <2>6. CASE Build
    BY <2>6, IdealPublish DEF Ideal!Next
  <2>7. CASE Fail
    BY <2>7, IdealFail DEF Ideal!Next
  <2>8. CASE OfferTimeout \/ \E r \in pending : Extra(r)
    BY <2>8, IdealLose DEF Ideal!Next
  <2>9. CASE \/ PingFails \/ Seal \/ Record \/ UNCHANGED vars
             \/ \E r \in pending : Offer(r) \/ Late(r)
    BY <2>9, IdealSame
  <2>10. CASE Leave
    BY <2>10, IdealConfirm DEF Ideal!Next
  <2> QED
    BY <2>1, <2>2, <2>3, <2>4, <2>5, <2>6, <2>7, <2>8, <2>9, <2>10
       DEF Next, PollStep, HandlerStep
<1>2. TypeInv /\ Init => Ideal!Init
  BY IdealInit
<1> QED
  BY <1>1, <1>2, TypeInit, Invariance, PTL DEF Spec, ImplementsSurvey, Ideal!Spec
=============================================================================
