---------------------------- MODULE ConfigProofs ----------------------------
(***************************************************************************)
(* Proofs about ObsConfig and AdvConfig, for topics and subjects of any    *)
(* length and any positions.                                               *)
(***************************************************************************)
EXTENDS AdvConfig, TLAPS

-----------------------------------------------------------------------------
(* Observations: ObsConfig                                                 *)

\* Where a token may be taken from, a subject has one.
LEMMA TokenOfSubject ==
    ASSUME NEW n \in Nat, NEW subject \in [1..n -> Names], NEW pos \in 1..n
    PROVE  ~NoToken(subject, pos) /\ subject[pos] \in Names
<1>1. Len(subject) = n
  OBVIOUS
<1> QED
  BY <1>1 DEF NoToken

Accepted == verdict = "accepted" => IsWildcard(topic, accountPos) /\ IsWildcard(topic, servicePos)

IInv == topic \in Topics /\ Accepted /\ AcceptedIsHandled

LEMMA ConfigNext == IInv /\ [Next]_vars => IInv'
<1> SUFFICES ASSUME IInv, [Next]_vars
             PROVE  IInv'
  OBVIOUS
<1> USE DEF IInv, configVars
<1>1. CASE Validate
  BY <1>1 DEF Validate, ServiceVerdict, Accepted, IsWildcard, AcceptedIsHandled
<1>2. ASSUME NEW n \in 1..(Len(topic) + 1), NEW subject \in [1..n -> Names], Observe(subject)
      PROVE  IInv'
  <2>1. topic \in Seq(Names \cup {Wildcard, FullWildcard}) /\ n \in Nat
    BY ObsConfigAssumption
  <2>2. Len(subject) = n /\ n >= Len(topic)
    BY <1>2, <2>1 DEF Observe, Matches
  <2>3. accountPos \in 1..n /\ servicePos \in 1..n
    BY <1>2, <2>1, <2>2 DEF Observe, Accepted, IsWildcard
  <2>4. ~NoToken(subject, accountPos) /\ ~NoToken(subject, servicePos)
    BY <2>1, <2>3, TokenOfSubject
  <2>5. labels' = LabelsOf(subject) /\ invalid' = invalid
    BY <1>2, <2>4 DEF Observe
  <2>6. subject[accountPos] \in Names /\ subject[servicePos] \in Names
    BY <2>1, <2>3, TokenOfSubject
  <2>7. LabelsOf(subject) = <<subject[servicePos], subject[accountPos]>>
    <3>1. accountPos # 0 /\ servicePos # 0
      BY <2>3
    <3> QED
      BY <3>1, Zenon DEF LabelsOf
  <2>8. UNCHANGED <<topic, accountPos, servicePos, verdict>>
    BY <1>2 DEF Observe
  <2> QED
    BY <2>5, <2>6, <2>7, <2>8 DEF Accepted, IsWildcard, AcceptedIsHandled
<1>3. CASE UNCHANGED vars
  BY <1>3 DEF vars, Accepted, IsWildcard, AcceptedIsHandled
<1> QED
  BY <1>1, <1>2, <1>3 DEF Next

\* For every topic and all positions, the handler finds in each subject that NATS
\* delivers what Validate has promised for the topic.
THEOREM Handled == Spec => []AcceptedIsHandled
<1>1. Init => IInv
  BY DEF Init, IInv, Accepted, AcceptedIsHandled
<1>2. IInv => AcceptedIsHandled
  BY DEF IInv
<1> QED
  BY <1>1, <1>2, ConfigNext, PTL DEF Spec

-----------------------------------------------------------------------------
(* Advisories: AdvConfig                                                   *)

Tokens == Names \cup {Wildcard, FullWildcard}

Valid == external => \A s \in Subs : IsWildcard(subjectOf[s], positionOf[s])

Named ==
    /\ external \in BOOLEAN
    /\ subjectOf \in [Subs -> Seq(Tokens)]

\* Who is subscribed holds the connection and has passed the validation, as has
\* a listener on its way there.
Subscribed ==
    /\ listener \in {"valid", "starting", "running"} => Valid
    /\ subs \subseteq Subs
    /\ listener = "valid" => subs = {}
    /\ listener \in {"starting", "running"} => held
    /\ subs # {} => listener \in {"starting", "running"}

LInv == Named /\ Subscribed /\ AdvisoryAccount

LEMMA ListenerInitial == ConfigsInit => LInv
<1> SUFFICES ASSUME ConfigsInit PROVE LInv
  OBVIOUS
<1>1. OwnSubject \in [Subs -> Seq(Tokens)]
  BY AdvConfigAssumption DEF OwnSubject, Tokens
<1>2. Subjects \subseteq Seq(Tokens)
  BY AdvConfigAssumption DEF Tokens
<1>3. Named
  BY <1>1, <1>2 DEF ConfigsInit, ListenerInit, Named
<1>4. Subscribed
  BY AdvConfigAssumption DEF ConfigsInit, ListenerInit, Subscribed
<1>5. AdvisoryAccount
  BY DEF ConfigsInit, ListenerInit, AdvisoryAccount
<1> QED
  BY <1>3, <1>4, <1>5 DEF LInv

\* A subject that is delivered is at least as long as what was subscribed to.
LEMMA DeliveredHasToken ==
    ASSUME NEW t \in Seq(Tokens), NEW pos, IsWildcard(t, pos),
           NEW n \in Nat, NEW told \in [1..n -> Names], Matches(t, told)
    PROVE  ~NoToken(told, pos)
<1>1. Len(told) = n /\ n >= Len(t) /\ Len(t) \in Nat
  BY DEF Matches
<1>2. pos \in 1..Len(t)
  BY DEF IsWildcard
<1> QED
  BY <1>1, <1>2 DEF NoToken

LEMMA ListenerStep == LInv /\ [ConfigsNext]_<<vars, advVars>> => LInv'
<1> SUFFICES ASSUME LInv, [ConfigsNext]_<<vars, advVars>>
             PROVE  LInv'
  OBVIOUS
<1> USE DEF LInv, listenerConfig
<1>1. CASE UNCHANGED advVars
  BY <1>1 DEF advVars, Named, Subscribed, Valid, AdvisoryAccount
<1>2. CASE ValidateListener
  BY <1>2, AdvConfigAssumption DEF ValidateListener, Named, Subscribed, Valid, AdvisoryAccount
<1>3. CASE Connect
  BY <1>3 DEF Connect, Named, Subscribed, Valid, AdvisoryAccount
<1>4. CASE Subscribe
  BY <1>4 DEF Subscribe, SubscribeTo, Subs, Named, Subscribed, Valid, AdvisoryAccount
<1>5. CASE SubscribeFails
  BY <1>5 DEF SubscribeFails, Failed, Named, Subscribed, Valid, AdvisoryAccount
<1>6. CASE StopListener
  BY <1>6 DEF StopListener, Named, Subscribed, Valid, AdvisoryAccount
<1>7. ASSUME NEW s \in subs, NEW n \in 1..(Len(subjectOf[s]) + 1),
             NEW told \in [1..n -> Names], Advise(s, told)
      PROVE  LInv'
  <2>1. s \in Subs /\ subjectOf[s] \in Seq(Tokens) /\ n \in Nat
    BY <1>7 DEF Subscribed, Named
  <2>2. UNCHANGED <<external, subjectOf, positionOf, listener, subs, held>>
    BY <1>7 DEF Advise
  <2>3. AdvisoryAccount'
    <3>1. SUFFICES ASSUME subjectOf["metrics"] # subjectOf["advisories"]
                   PROVE  counted' = <<s, told, IF external THEN told[positionOf[s]] ELSE OwnAccount>>
      BY <2>2 DEF AdvisoryAccount
    <3>2. TokenPosition(s) = positionOf[s]
      BY <2>1, <3>1 DEF TokenPosition, Subs
    <3>3. CASE external
      <4>1. IsWildcard(subjectOf[s], positionOf[s])
        BY <1>7, <2>1, <3>3 DEF Subscribed, Valid
      <4>2. ~NoToken(told, positionOf[s])
        BY <1>7, <2>1, <4>1, DeliveredHasToken DEF Advise
      <4> QED
        BY <1>7, <3>2, <3>3, <4>2 DEF Advise
    <3>4. CASE ~external
      BY <1>7, <3>4 DEF Advise
    <3> QED
      BY <3>3, <3>4
  <2> QED
    BY <2>2, <2>3 DEF Named, Subscribed, Valid
<1> QED
  BY <1>1, <1>2, <1>3, <1>4, <1>5, <1>6, <1>7 DEF ConfigsNext, ListenerNext, advVars

\* For all subjects and positions, every advisory counts for the account that its
\* subject names by the position of the subscription it came by, unless the two
\* subscriptions have one subject.
THEOREM AdvisoryNamed == ConfigsSpec => []AdvisoryAccount
<1>1. LInv => AdvisoryAccount
  BY DEF LInv
<1> QED
  BY <1>1, ListenerInitial, ListenerStep, PTL DEF ConfigsSpec

\* A listener that has failed to start, or is stopped, has no subscription left on
\* a connection that it no longer holds.
THEOREM NoSubLeft == ConfigsSpec => []SubsEndWithConn
<1>1. LInv => SubsEndWithConn
  BY DEF LInv, Subscribed, SubsEndWithConn
<1> QED
  BY <1>1, ListenerInitial, ListenerStep, PTL DEF ConfigsSpec
=============================================================================
