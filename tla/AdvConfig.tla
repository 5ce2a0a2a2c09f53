----------------------------- MODULE AdvConfig ------------------------------
(***************************************************************************)
(* A listener of JetStream advisories (jsAdvisoryListener in               *)
(* surveyor/jetstream_advisories.go) and its configuration, next to that   *)
(* of an observation.  It has two subscriptions with one handler, which    *)
(* finds the account in a subject at a position that goes with the         *)
(* subscription.  A manager starts a listener once, and stops it once if   *)
(* that succeeds.                                                          *)
(*                                                                         *)
(* A run is about an observation's configuration or about a listener.      *)
(***************************************************************************)
EXTENDS ObsConfig

CONSTANTS
    Subjects,   \* subjects that are configured
    Prefixes,   \* "$JS.EVENT.METRIC" and "$JS.EVENT.ADVISORY", as tokens
    OwnAccount, \* AccountName, for advisories of the listener's own account
    NoListener  \* the run is about an observation

Subs == {"metrics", "advisories"}

ASSUME AdvConfigAssumption ==
    /\ Subjects \subseteq Seq(Names \cup {Wildcard, FullWildcard}) \ {<<>>}
    /\ Prefixes \in [Subs -> Names]
    /\ OwnAccount \notin Names
    /\ NoListener \notin {"given", "valid", "starting", "running"}

VARIABLES
    external, \* ExternalAccountConfig is set
    subjectOf, \* the subjects of the subscriptions
    positionOf, \* the positions of the account in them
    listener, \* where the listener is
    subs,     \* the subscriptions there are
    held,     \* it has a connection
    counted   \* <<subscription, subject, account>> of the latest advisory counted,
              \* or <<subscription, subject>> of one that was dropped

listenerConfig == <<external, subjectOf, positionOf>>
advVars == <<listenerConfig, listener, subs, held, counted>>

\* The subjects that are subscribed to without ExternalAccountConfig.
OwnSubject == [s \in Subs |-> <<Prefixes[s], FullWildcard>>]

ListenerInit ==
    /\ \/ external = TRUE /\ subjectOf \in [Subs -> Subjects] /\ positionOf \in [Subs -> Positions]
       \/ external = FALSE /\ subjectOf = OwnSubject /\ positionOf = [s \in Subs |-> 0]
    /\ listener = "given"
    /\ subs = {} /\ held = FALSE /\ counted = <<>>

\* Each position has to be that of a wildcard.
ValidateListener ==
    /\ listener = "given"
    /\ listener' = IF external => \A s \in Subs : IsWildcard(subjectOf[s], positionOf[s])
                     THEN "valid" ELSE "rejected"
    /\ UNCHANGED <<listenerConfig, subs, held, counted>>

Connect ==
    /\ listener = "valid"
    /\ listener' = "starting" /\ held' = TRUE
    /\ UNCHANGED <<listenerConfig, subs, counted>>

SubscribeTo(s) ==
    /\ subs' = subs \cup {s}
    /\ listener' = IF s = "advisories" THEN "running" ELSE "starting"
    /\ UNCHANGED <<listenerConfig, held, counted>>

\* The metrics come first.
Subscribe ==
    /\ listener = "starting"
    /\ SubscribeTo(IF subs = {} THEN "metrics" ELSE "advisories")

\* Mutant: the first subscription is left when the second one fails.
FailedWithFirst == subs

Failed == {}

SubscribeFails ==
    /\ listener = "starting"
    /\ subs' = Failed /\ held' = FALSE
    /\ listener' = "failed"
    /\ UNCHANGED <<listenerConfig, counted>>

\* The position that goes with a subscription, told by its subject: the metrics'
\* is looked at first.  Mutant: what is not of the metrics' subject is not known.
TokenPositionOfMetrics(s) == IF subjectOf[s] = subjectOf["metrics"] THEN positionOf["metrics"] ELSE 0

TokenPosition(s) ==
    IF subjectOf[s] = subjectOf["metrics"] THEN positionOf["metrics"] ELSE positionOf["advisories"]

\* advisoryHandler, up to the parsing of the event.
Advise(s, told) ==
    /\ s \in subs
    /\ Matches(subjectOf[s], told)
    /\ counted' = CASE ~external -> <<s, told, OwnAccount>>
                    [] external /\ NoToken(told, TokenPosition(s)) -> <<s, told>>
                    [] OTHER -> <<s, told, told[TokenPosition(s)]>>
    /\ UNCHANGED <<listenerConfig, listener, subs, held>>

StopListener ==
    /\ listener = "running"
    /\ subs' = {} /\ held' = FALSE
    /\ listener' = "stopped"
    /\ UNCHANGED <<listenerConfig, counted>>

ListenerNext ==
    \/ ValidateListener \/ Connect \/ Subscribe \/ SubscribeFails \/ StopListener
    \/ \E s \in subs : \E n \in 1..(Len(subjectOf[s]) + 1) :
         \E told \in [1..n -> Names] : Advise(s, told)

ConfigsInit ==
    \/ /\ Init
       /\ listener = NoListener
       /\ external = FALSE /\ subjectOf = OwnSubject /\ positionOf = [s \in Subs |-> 0]
       /\ subs = {} /\ held = FALSE /\ counted = <<>>
    \/ /\ ListenerInit
       /\ topic = <<FullWildcard>> /\ accountPos = 0 /\ servicePos = 0
       /\ verdict = "none" /\ labels = NoLabels /\ invalid = FALSE

ConfigsNext ==
    \/ listener = NoListener /\ Next /\ UNCHANGED advVars
    \/ ListenerNext /\ UNCHANGED vars

ConfigsSpec == ConfigsInit /\ [][ConfigsNext]_<<vars, advVars>>

-----------------------------------------------------------------------------

\* An advisory counts for the account that its subject names where the
\* configuration of the subscription it came by says so, or for the listener's own
\* account, and none is dropped, unless both subscriptions have one subject.
AdvisoryAccount ==
    (counted # <<>> /\ subjectOf["metrics"] # subjectOf["advisories"]) =>
        LET s == counted[1]  told == counted[2]
        IN  counted = <<s, told, IF external THEN told[positionOf[s]] ELSE OwnAccount>>

\* No subscription outlives the listener's hold on its connection, which others
\* may share: neither when it is stopped nor when the second one fails.
SubsEndWithConn == subs # {} => held
=============================================================================
