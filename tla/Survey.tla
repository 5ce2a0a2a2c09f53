------------------------------- MODULE Survey -------------------------------
(***************************************************************************)
(* What a survey of the servers promises, without its channel, its lock,   *)
(* its keys or its timers: it asks once, gathers each answer to this       *)
(* question at most once and no other, and as many as it expects; it       *)
(* counts the servers it knows that are missing, and publishes all that it *)
(* has gathered if nothing failed, or else nothing.                        *)
(***************************************************************************)
EXTENDS Integers, FiniteSets

CONSTANTS
    Servers,
    Limits    \* how many answers may be expected; -1 stands for any number

VARIABLES
    expected,  \* how many answers are expected
    number,    \* how many surveys have begun
    phase,     \* of the latest: "begun", "open", "closed", "counted", "sound" or "idle"
    answers,   \* the servers whose answer to it is under way
    gathered,  \* the servers whose answer it has
    known,     \* the servers of the last complete survey and those heard of since
    missed,    \* counter of known servers that were missing
    published  \* the servers that the latest survey to end has published

vars == <<expected, number, phase, answers, gathered, known, missed, published>>

Init ==
    /\ expected \in Limits
    /\ number = 0
    /\ phase = "idle"
    /\ answers = {}
    /\ gathered = {}
    /\ known = {}
    /\ missed = 0
    /\ published = {}

\* Answers to earlier surveys are of no use from here on.
Begin ==
    /\ phase = "idle"
    /\ phase' = "begun"
    /\ number' = number + 1
    /\ answers' = {}
    /\ gathered' = {}
    /\ UNCHANGED <<expected, known, missed, published>>

Ask ==
    /\ phase = "begun"
    /\ phase' = "open"
    /\ answers' \in SUBSET Servers
    /\ UNCHANGED <<expected, number, gathered, known, missed, published>>

\* The survey closes with the last answer that it expects.
Gather(s) ==
    /\ phase = "open"
    /\ s \in answers \ gathered
    /\ answers' = answers \ {s}
    /\ gathered' = gathered \cup {s}
    /\ known' = known \cup {s}
    /\ phase' = IF Cardinality(gathered') = expected THEN "closed" ELSE "open"
    /\ UNCHANGED <<expected, number, missed, published>>

\* An answer that comes too late for its survey.
Lose(s) ==
    /\ s \in answers
    /\ answers' = answers \ {s}
    /\ UNCHANGED <<expected, number, phase, gathered, known, missed, published>>

\* Enough time has passed.
Close ==
    /\ phase = "open"
    /\ phase' = "closed"
    /\ UNCHANGED <<expected, number, answers, gathered, known, missed, published>>

Count ==
    /\ phase = "closed"
    /\ phase' = "counted"
    /\ \/ expected \in {-1, Cardinality(gathered)} /\ known' = gathered /\ UNCHANGED missed
       \/ /\ expected \notin {-1, Cardinality(gathered)}
          /\ missed' = missed + Cardinality(known \ gathered)
          /\ UNCHANGED known
    /\ UNCHANGED <<expected, number, answers, gathered, published>>

\* What else the survey asks the servers for has been answered.
Confirm ==
    /\ phase = "counted"
    /\ phase' = "sound"
    /\ UNCHANGED <<expected, number, answers, gathered, known, missed, published>>

Publish ==
    /\ phase = "sound"
    /\ phase' = "idle"
    /\ published' = gathered
    /\ UNCHANGED <<expected, number, answers, gathered, known, missed>>

Fail ==
    /\ phase \in {"begun", "counted"}
    /\ phase' = "idle"
    /\ published' = {}
    /\ UNCHANGED <<expected, number, answers, gathered, known, missed>>

Next ==
    \/ Begin \/ Ask \/ Close \/ Count \/ Confirm \/ Publish \/ Fail
    \/ \E s \in Servers : Gather(s) \/ Lose(s)

Spec == Init /\ [][Next]_vars
=============================================================================
