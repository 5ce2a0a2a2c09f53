---------------------------- MODULE MCObsConfig -----------------------------
(* An instance of AdvConfig for TLC: topics and subjects of up to three tokens. *)
EXTENDS AdvConfig

CONSTANTS a, b

TopicsUpTo3 ==
    {t \in UNION {[1..n -> Names \cup {Wildcard, FullWildcard}] : n \in 1..3} :
        \A i \in 1..(Len(t) - 1) : t[i] # FullWildcard}

\* Those with an account to be named, and one without.
SubjectsUpTo3 == {t \in TopicsUpTo3 : \E i \in 1..Len(t) : t[i] = Wildcard} \cup {<<a, b>>}

PrefixesOf == [s \in Subs |-> IF s = "metrics" THEN a ELSE b]

PositionsInt == -1..4
=============================================================================
