----------------------------- MODULE ObsConfig ------------------------------
(***************************************************************************)
(* The configuration of a service observation that aggregates accounts     *)
(* (ExternalAccountConfig in surveyor/observation.go): the positions of    *)
(* the account name and of the service name in the subject, their          *)
(* validation, and their use by the handler of the observations.           *)
(***************************************************************************)
EXTENDS Integers, Sequences

CONSTANTS
    Names,      \* tokens of a subject other than the wildcards
    Topics,     \* topics that are configured
    Positions,  \* positions that are configured, 0 when the field is not set
    Wildcard,   \* "*"
    FullWildcard, \* ">"
    NoLabels    \* no observation has been counted

ASSUME ObsConfigAssumption ==
    /\ Topics \subseteq Seq(Names \cup {Wildcard, FullWildcard}) \ {<<>>}
    /\ Positions \subseteq Int
    /\ Wildcard \notin Names /\ FullWildcard \notin Names /\ Wildcard # FullWildcard

VARIABLES
    topic,       \* ServiceObsConfig.Topic, split at the dots
    accountPos,  \* AccountTokenPosition
    servicePos,  \* ServiceNamePosition
    verdict,     \* what Validate made of them
    labels,      \* <<service, account>> that the latest observation was counted under
    invalid      \* the handler has called the subject of an observation invalid

configVars == <<topic, accountPos, servicePos>>
vars == <<configVars, verdict, labels, invalid>>

\* The token at pos-1 of a topic exists and is a wildcard.
IsWildcard(t, pos) == pos \in 1..Len(t) /\ t[pos] = Wildcard

\* The cases of the switch on the service position: the first two reject, the
\* third one indexes the tokens with pos-1, which is out of range for 0.
ServiceVerdict ==
    CASE servicePos < 0 \/ servicePos > Len(topic) -> "rejected"
      [] servicePos = 0 -> "panic"
      [] OTHER -> IF IsWildcard(topic, servicePos) THEN "accepted" ELSE "rejected"

Validate ==
    /\ verdict = "none"
    /\ verdict' = CASE ServiceVerdict = "panic" -> "panic"
                    [] ServiceVerdict = "accepted" /\ IsWildcard(topic, accountPos) -> "accepted"
                    [] OTHER -> "rejected"
    /\ UNCHANGED <<configVars, labels, invalid>>

\* NATS delivers a subject to who subscribes to a topic that matches it.
Matches(t, subject) ==
    /\ Len(subject) >= Len(t)
    /\ Len(subject) > Len(t) => t[Len(t)] = FullWildcard
    /\ \A i \in 1..Len(t) : t[i] \in {subject[i], Wildcard, FullWildcard}

\* getTokenFromSubject fails.  Mutant: the last token is out of its reach.
NoTokenLast(subject, pos) == pos =< 0 \/ pos >= Len(subject)

NoToken(subject, pos) == pos =< 0 \/ pos > Len(subject)

\* The labels that the handler finds in a subject.
LabelsOf(subject) ==
    LET account == IF accountPos # 0 THEN subject[accountPos] ELSE ""
    IN  <<IF servicePos # 0 THEN subject[servicePos] ELSE account, account>>

\* observationHandler, up to the parsing of the event.
Observe(subject) ==
    /\ verdict = "accepted"
    /\ Matches(topic, subject)
    /\ IF \/ accountPos # 0 /\ NoToken(subject, accountPos)
          \/ servicePos # 0 /\ NoToken(subject, servicePos)
         THEN invalid' = TRUE /\ UNCHANGED labels
         ELSE labels' = LabelsOf(subject) /\ UNCHANGED invalid
    /\ UNCHANGED <<configVars, verdict>>

Init ==
    /\ topic \in Topics
    /\ accountPos \in Positions
    /\ servicePos \in Positions
    /\ verdict = "none"
    /\ labels = NoLabels
    /\ invalid = FALSE

Next ==
    \/ Validate
    \/ \E n \in 1..(Len(topic) + 1) : \E subject \in [1..n -> Names] : Observe(subject)

Spec == Init /\ [][Next]_vars

\* A validated configuration never makes the handler call the subject of a
\* delivered observation invalid, and every observation counts for an account and
\* a service that its subject names: a position was checked against the topic, and
\* is used on a subject that may be longer.
AcceptedIsHandled ==
    /\ ~invalid
    /\ labels # NoLabels => labels[1] \in Names /\ labels[2] \in Names

\* "optional service name position in subject ... if not set, account name from
\* account_token_position is used": without it a configuration whose account
\* position is right is valid.
ServicePositionIsOptional ==
    (servicePos = 0 /\ IsWildcard(topic, accountPos) /\ verdict # "none") => verdict = "accepted"
=============================================================================
