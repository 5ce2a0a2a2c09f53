----------------------------- MODULE ConnLease ------------------------------
(***************************************************************************)
(* What the connection pool promises, without its cache, its counts, its   *)
(* flights or its locks: a connection is leased to a set of users, retires *)
(* when the last of them gives it back, is never leased again, and only    *)
(* then is its socket closed.  A forced shutdown may close any socket.     *)
(***************************************************************************)
CONSTANTS Users, Conns

VARIABLES
    lessees,  \* the users of each connection
    phase,    \* "none": not there; "pooled": users may join; "retired"
    socket    \* "open" or "closed"

vars == <<lessees, phase, socket>>

TypeOK ==
    /\ lessees \in [Conns -> SUBSET Users]
    /\ phase \in [Conns -> {"none", "pooled", "retired"}]
    /\ socket \in [Conns -> {"open", "closed"}]

Init ==
    /\ lessees = [c \in Conns |-> {}]
    /\ phase = [c \in Conns |-> "none"]
    /\ socket = [c \in Conns |-> "closed"]

Establish(c) ==
    /\ phase[c] = "none"
    /\ phase' = [phase EXCEPT ![c] = "pooled"]
    /\ socket' = [socket EXCEPT ![c] = "open"]
    /\ UNCHANGED lessees

Take(u, c) ==
    /\ phase[c] = "pooled"
    /\ \A d \in Conns : u \notin lessees[d]
    /\ lessees' = [lessees EXCEPT ![c] = @ \cup {u}]
    /\ UNCHANGED <<phase, socket>>

\* The socket of a retired connection is closed, unless a shutdown did that.
Give(u, c) ==
    /\ u \in lessees[c]
    /\ lessees' = [lessees EXCEPT ![c] = @ \ {u}]
    /\ phase' = IF lessees[c] # {u}
                  THEN phase
                  ELSE [phase EXCEPT ![c] = IF socket[c] = "open" THEN "retired" ELSE "none"]
    /\ UNCHANGED socket

Close(c) ==
    /\ phase[c] = "retired"
    /\ phase' = [phase EXCEPT ![c] = "none"]
    /\ socket' = [socket EXCEPT ![c] = "closed"]
    /\ UNCHANGED lessees

\* Shutdown of a socket whose owner, if any, finds it closed.
Shutdown(c) ==
    /\ socket[c] = "open"
    /\ socket' = [socket EXCEPT ![c] = "closed"]
    /\ phase' = [phase EXCEPT ![c] = IF @ = "retired" THEN "none" ELSE @]
    /\ UNCHANGED lessees

Next ==
    \E c \in Conns :
      \/ Establish(c)
      \/ \E u \in Users : Take(u, c) \/ Give(u, c)
      \/ Close(c)
      \/ Shutdown(c)

Spec == Init /\ [][Next]_vars

\* A retired connection is closed in the end.
LiveSpec == Spec /\ \A c \in Conns : WF_vars(Close(c))
=============================================================================
