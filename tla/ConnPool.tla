------------------------------ MODULE ConnPool ------------------------------
(***************************************************************************)
(* The NATS connection pool of the surveyor (surveyor/conn_pool.go).       *)
(*                                                                         *)
(* Goroutines ("users") ask the pool for a connection with given           *)
(* credentials (the "key", a hash of the NatsContext), share it with every *)
(* other user of the same key, and return it.  The pool counts the users   *)
(* of a connection and closes it when the last one returns it.             *)
(*                                                                         *)
(* A step of the model is a critical section of cacheMu or openMu, a call  *)
(* of the singleflight group, or one call of nats.go that changes the      *)
(* socket.  Between two of them any other goroutine may run.               *)
(***************************************************************************)
EXTENDS Naturals, FiniteSets

CONSTANTS
    Users,       \* goroutines that call Get and ReturnToPool
    Keys,        \* hashes of the NatsContexts they ask for
    Conns,       \* pooledNatsConn objects, recycled once nothing refers to them
    NoConn,      \* nil *pooledNatsConn
    NoKey,       \* what a user outside Get asks for
    MaxTries,    \* getPooledConnMaxTries, 10 in the code
    MaxCount,    \* the largest uint64, 2^64-1 in the code
    CloseModes,  \* the values of force with which Close is called
    MaxOpen      \* bound: no Get starts while an open connection is listed this often

ASSUME ConnPoolAssumption ==
    /\ IsFiniteSet(Users)
    /\ MaxCount \in Nat \ {0}
    /\ Cardinality(Users) =< MaxCount
    /\ MaxTries \in Nat \ {0}
    /\ MaxOpen \in Nat
    /\ CloseModes \subseteq BOOLEAN
    /\ NoConn \notin Conns
    /\ NoKey \notin Keys

VARIABLES
    pc,         \* where each user is in Get or ReturnToPool
    want,       \* the key of its Get
    got,        \* the connection it has in hand
    tries,      \* iterations of Get's loop that found a closed connection
    cache,      \* natsConnPool.cache
    connKey,    \* pooledNatsConn.key
    count,      \* pooledNatsConn.count
    closed,     \* pooledNatsConn.closed
    nc,         \* state of the nats.Conn behind the pooledNatsConn
    openConns,  \* natsConnPool.openConns: how often each connection is listed
    closer,     \* where the goroutine in natsConnPool.Close is
    todo,       \* the listed connections its loop has not visited yet
    shutting    \* the connection it closes after returning it to the pool

getVars   == <<pc, want, got, tries>>
poolVars  == <<cache, connKey, count, closed>>
closeVars == <<closer, todo, shutting>>
vars      == <<getVars, poolVars, nc, openConns, closeVars>>

ConnOrNil == Conns \cup {NoConn}

\* The steps of the function that the singleflight group runs.
FlightSteps == {"lookup", "list", "dial", "store", "finish"}

UserSteps == {"idle", "do", "wait", "count", "hold", "shut"} \cup FlightSteps

TypeOK ==
    /\ pc \in [Users -> UserSteps]
    /\ want \in [Users -> Keys \cup {NoKey}]
    /\ got \in [Users -> ConnOrNil]
    /\ tries \in [Users -> 0..(MaxTries - 1)]
    /\ cache \in [Keys -> ConnOrNil]
    /\ connKey \in [Conns -> Keys \cup {NoKey}]
    /\ count \in [Conns -> 0..MaxCount]
    /\ closed \in [Conns -> BOOLEAN]
    /\ nc \in [Conns -> {"connected", "reconnecting", "closed"}]
    /\ openConns \in [Conns -> Nat]
    /\ closer \in {"idle", "force", "return", "shut"}
    /\ todo \in [Conns -> Nat]
    /\ shutting \in ConnOrNil

\* cacheMu is held across a step only by the flight that also wants openMu;
\* openMu is held across a step only by Close.
CacheMuFree == \A u \in Users : pc[u] # "list"
OpenMuFree  == closer = "idle"

\* The singleflight group has a call for the key in progress.
InFlight(k) == \E u \in Users : want[u] = k /\ pc[u] \in FlightSteps

\* The garbage collector has taken the object, or it was never allocated.
Unused(c) ==
    /\ nc[c] = "closed"
    /\ \A k \in Keys : cache[k] # c
    /\ \A u \in Users : got[u] # c
    /\ openConns[c] = 0
    /\ todo[c] = 0
    /\ shutting # c

Init ==
    /\ pc = [u \in Users |-> "idle"]
    /\ want = [u \in Users |-> NoKey]
    /\ got = [u \in Users |-> NoConn]
    /\ tries = [u \in Users |-> 0]
    /\ cache = [k \in Keys |-> NoConn]
    /\ connKey = [c \in Conns |-> NoKey]
    /\ count = [c \in Conns |-> 0]
    /\ closed = [c \in Conns |-> TRUE]
    /\ nc = [c \in Conns |-> "closed"]
    /\ openConns = [c \in Conns |-> 0]
    /\ closer = "idle"
    /\ todo = [c \in Conns |-> 0]
    /\ shutting = NoConn

Goto(u, step) == pc' = [pc EXCEPT ![u] = step]

-----------------------------------------------------------------------------
(* Get and getPooledConn                                                   *)

\* Get is called with a non-nil context whose defaulted fields hash to k.
StartGet(u, k) ==
    /\ pc[u] = "idle"
    /\ \A c \in Conns : nc[c] # "closed" => openConns[c] < MaxOpen
    /\ Goto(u, "do")
    /\ want' = [want EXCEPT ![u] = k]
    /\ UNCHANGED <<got, tries, poolVars, nc, openConns, closeVars>>

\* group.Do finds no call for the key: this user runs the function.
Lead(u) ==
    /\ pc[u] = "do"
    /\ ~InFlight(want[u])
    /\ Goto(u, "lookup")
    /\ UNCHANGED <<want, got, tries, poolVars, nc, openConns, closeVars>>

\* group.Do finds a call for the key and blocks until it completes.
Join(u) ==
    /\ pc[u] = "do"
    /\ InFlight(want[u])
    /\ Goto(u, "wait")
    /\ UNCHANGED <<want, got, tries, poolVars, nc, openConns, closeVars>>

\* The function reads the cache under cacheMu.  It returns a connected
\* connection; it keeps cacheMu to list one that is reconnecting; it dials
\* when there is none or the one there is closed.
Lookup(u) ==
    /\ pc[u] = "lookup"
    /\ CacheMuFree
    /\ LET c == cache[want[u]] IN
         \/ /\ c # NoConn /\ nc[c] = "connected"
            /\ got' = [got EXCEPT ![u] = c]
            /\ Goto(u, "finish")
         \/ /\ c # NoConn /\ nc[c] = "reconnecting"
            /\ Goto(u, "list")
            /\ UNCHANGED got
         \/ /\ c # NoConn => nc[c] = "closed"
            /\ Goto(u, "dial")
            /\ UNCHANGED got
    /\ UNCHANGED <<want, tries, poolVars, nc, openConns, closeVars>>

\* openConns rebuilt: c is added (again, if it is listed) and closed ones go.
\* Mutants: c is not added; the list forgets what it held.
RelistedWithout(c) == [d \in Conns |-> IF nc[d] = "closed" THEN 0 ELSE openConns[d]]

RelistedAlone(c) == [d \in Conns |-> IF d = c THEN 1 ELSE 0]

Relisted(c) ==
    [d \in Conns |-> (IF nc[d] = "closed" THEN 0 ELSE openConns[d])
                       + (IF d = c THEN 1 ELSE 0)]

\* Holding both locks, the function lists the connection that it will replace.
ListOpen(u) ==
    /\ pc[u] = "list"
    /\ OpenMuFree
    /\ openConns' = Relisted(cache[want[u]])
    /\ Goto(u, "dial")
    /\ UNCHANGED <<want, got, tries, poolVars, nc, closeVars>>

\* nats.Connect succeeds and the new connection is wrapped, with count 0.
DialOk(u) ==
    /\ pc[u] = "dial"
    /\ \E c \in Conns :
         /\ Unused(c)
         /\ got' = [got EXCEPT ![u] = c]
         /\ connKey' = [connKey EXCEPT ![c] = want[u]]
         /\ count' = [count EXCEPT ![c] = 0]
         /\ closed' = [closed EXCEPT ![c] = FALSE]
         /\ nc' = [nc EXCEPT ![c] = "connected"]
    /\ Goto(u, "store")
    /\ UNCHANGED <<want, tries, cache, openConns, closeVars>>

\* nats.Connect, or loading the nkey, fails: the flight ends with an error.
DialFail(u) ==
    /\ pc[u] = "dial"
    /\ Goto(u, "finish")
    /\ UNCHANGED <<want, got, tries, poolVars, nc, openConns, closeVars>>

\* The new connection replaces whatever is cached under the key.
Store(u) ==
    /\ pc[u] = "store"
    /\ CacheMuFree
    /\ cache' = [cache EXCEPT ![want[u]] = got[u]]
    /\ Goto(u, "finish")
    /\ UNCHANGED <<want, got, tries, connKey, count, closed, nc, openConns, closeVars>>

\* Mutant: one singleflight call for all keys.
SharersOfAnyKey(u) == {v \in Users : v = u \/ pc[v] = "wait"}

\* The users to whom the singleflight group hands the result of u's flight.
Sharers(u) == {v \in Users : v = u \/ (pc[v] = "wait" /\ want[v] = want[u])}

\* The flight completes: its user and all who wait for it leave Do with its
\* result, and leave Get when the result is an error.
Finish(u) ==
    LET out == Sharers(u)
        ok  == got[u] # NoConn
    IN  /\ pc[u] = "finish"
        /\ pc' = [v \in Users |-> IF v \in out
                                    THEN IF ok THEN "count" ELSE "idle"
                                    ELSE pc[v]]
        /\ got' = [v \in Users |-> IF v \in out THEN got[u] ELSE got[v]]
        /\ want' = [v \in Users |-> IF v \in out /\ ~ok THEN NoKey ELSE want[v]]
        /\ tries' = [v \in Users |-> IF v \in out /\ ~ok THEN 0 ELSE tries[v]]
        /\ UNCHANGED <<poolVars, nc, openConns, closeVars>>

\* A uint64 increment.  Mutant: only the first user is counted.
IncrementedOnce(n) == 1

Incremented(n) == (n + 1) % (MaxCount + 1)

\* Nobody closed the connection between the flight and this critical section.
\* Mutant: Get does not look.
StillOpenAssumed(u) == TRUE

StillOpen(u) == ~closed[got[u]]

\* The loop has run MaxTries times.  Mutant: it has no limit.
LastTryNever(u) == FALSE

LastTry(u) == tries[u] + 1 = MaxTries

\* Get counts the user in, unless the connection was closed since the flight
\* returned it: then it tries again, MaxTries times in all.
Count(u) ==
    /\ pc[u] = "count"
    /\ CacheMuFree
    /\ StillOpen(u)
    /\ count' = [count EXCEPT ![got[u]] = Incremented(@)]
    /\ Goto(u, "hold")
    /\ want' = [want EXCEPT ![u] = NoKey]
    /\ tries' = [tries EXCEPT ![u] = 0]
    /\ UNCHANGED <<got, cache, connKey, closed, nc, openConns, closeVars>>

Retry(u) ==
    /\ pc[u] = "count"
    /\ CacheMuFree
    /\ ~StillOpen(u)
    /\ ~LastTry(u)
    /\ tries' = [tries EXCEPT ![u] = @ + 1]
    /\ got' = [got EXCEPT ![u] = NoConn]
    /\ Goto(u, "do")
    /\ UNCHANGED <<want, poolVars, nc, openConns, closeVars>>

GiveUp(u) ==
    /\ pc[u] = "count"
    /\ CacheMuFree
    /\ ~StillOpen(u)
    /\ LastTry(u)
    /\ tries' = [tries EXCEPT ![u] = 0]
    /\ got' = [got EXCEPT ![u] = NoConn]
    /\ want' = [want EXCEPT ![u] = NoKey]
    /\ Goto(u, "idle")
    /\ UNCHANGED <<poolVars, nc, openConns, closeVars>>

-----------------------------------------------------------------------------
(* ReturnToPool                                                            *)

\* nats.Conn.Close.  Mutant: it is not called.
SocketKept(c) == nc

SocketClosed(c) == [nc EXCEPT ![c] = "closed"]

\* A uint64 decrement.
Decremented(n) == IF n = 0 THEN MaxCount ELSE n - 1

\* Mutant: the count is tested before it is decremented.
LastUserLate(c) == count[c] = 0

LastUser(c) == Decremented(count[c]) = 0

\* The cache without c, unless another connection has replaced c there.
\* Mutant: c stays.
Kept(c) == cache

Uncached(c) ==
    IF cache[connKey[c]] = c THEN [cache EXCEPT ![connKey[c]] = NoConn] ELSE cache

\* The critical section of ReturnToPool.
Uncount(c) ==
    /\ CacheMuFree
    /\ count' = [count EXCEPT ![c] = Decremented(@)]
    /\ IF LastUser(c)
         THEN /\ cache' = Uncached(c)
              /\ closed' = [closed EXCEPT ![c] = TRUE]
         ELSE UNCHANGED <<cache, closed>>
    /\ UNCHANGED connKey

ReturnToPool(u) ==
    /\ pc[u] = "hold"
    /\ Uncount(got[u])
    /\ IF LastUser(got[u])
         THEN Goto(u, "shut") /\ UNCHANGED got
         ELSE Goto(u, "idle") /\ got' = [got EXCEPT ![u] = NoConn]
    /\ UNCHANGED <<want, tries, nc, openConns, closeVars>>

\* The last user closes the socket, after releasing cacheMu.
Shut(u) ==
    /\ pc[u] = "shut"
    /\ nc' = SocketClosed(got[u])
    /\ got' = [got EXCEPT ![u] = NoConn]
    /\ Goto(u, "idle")
    /\ UNCHANGED <<want, tries, poolVars, openConns, closeVars>>

-----------------------------------------------------------------------------
(* natsConnPool.Close: it holds openMu and visits each listed connection.  *)
(* The order of the list is left out: the loop may take any of them next.  *)

\* Mutant: force is ignored.
UnforcedLoop(force) == "return"

Loop(force) == IF force THEN "force" ELSE "return"

CloseBegin(force) ==
    /\ closer = "idle"
    /\ closer' = Loop(force)
    /\ todo' = openConns
    /\ UNCHANGED <<getVars, poolVars, nc, openConns, shutting>>

Visit(c) == todo[c] > 0 /\ todo' = [todo EXCEPT ![c] = @ - 1]

\* Close(true) closes the socket and leaves the pool's records alone.
CloseForce(c) ==
    /\ closer = "force"
    /\ Visit(c)
    /\ nc' = SocketClosed(c)
    /\ UNCHANGED <<getVars, poolVars, openConns, closer, shutting>>

\* Close(false) calls ReturnToPool, which needs cacheMu.
CloseReturn(c) ==
    /\ closer = "return"
    /\ Visit(c)
    /\ Uncount(c)
    /\ IF LastUser(c)
         THEN closer' = "shut" /\ shutting' = c
         ELSE UNCHANGED <<closer, shutting>>
    /\ UNCHANGED <<getVars, nc, openConns>>

CloseShut ==
    /\ closer = "shut"
    /\ nc' = SocketClosed(shutting)
    /\ closer' = "return"
    /\ shutting' = NoConn
    /\ UNCHANGED <<getVars, poolVars, openConns, todo>>

CloseEnd ==
    /\ closer \in {"force", "return"}
    /\ \A c \in Conns : todo[c] = 0
    /\ closer' = "idle"
    /\ UNCHANGED <<getVars, poolVars, nc, openConns, todo, shutting>>

-----------------------------------------------------------------------------
(* nats.go: with MaxReconnects(-1) and IgnoreAuthErrorAbort a connection   *)
(* that loses its server reconnects for ever, and is closed only by Close. *)

Disconnect(c) ==
    /\ nc[c] = "connected"
    /\ nc' = [nc EXCEPT ![c] = "reconnecting"]
    /\ UNCHANGED <<getVars, poolVars, openConns, closeVars>>

Reconnect(c) ==
    /\ nc[c] = "reconnecting"
    /\ nc' = [nc EXCEPT ![c] = "connected"]
    /\ UNCHANGED <<getVars, poolVars, openConns, closeVars>>

-----------------------------------------------------------------------------

LockStep(u) == Lookup(u) \/ ListOpen(u) \/ Store(u) \/ Count(u) \/ Retry(u) \/ GiveUp(u)

FreeStep(u) == Lead(u) \/ Join(u) \/ DialOk(u) \/ DialFail(u) \/ Finish(u) \/ Shut(u)

CloseStep ==
    \/ \E c \in Conns : CloseForce(c) \/ CloseReturn(c)
    \/ CloseShut
    \/ CloseEnd

Next ==
    \/ \E u \in Users :
         \/ \E k \in Keys : StartGet(u, k)
         \/ LockStep(u)
         \/ FreeStep(u)
         \/ ReturnToPool(u)
    \/ \E force \in CloseModes : CloseBegin(force)
    \/ CloseStep
    \/ \E c \in Conns : Disconnect(c) \/ Reconnect(c)

Spec == Init /\ [][Next]_vars

\* A sync.Mutex hands itself to a waiter that has waited for a millisecond, so
\* a goroutine that wants a lock again and again gets it.  A dial ends, with a
\* connection or an error.  Nothing makes users return, or servers come back.
Fairness ==
    /\ \A u \in Users : SF_vars(LockStep(u)) /\ WF_vars(FreeStep(u))
    /\ WF_vars(CloseStep)

LiveSpec == Spec /\ Fairness

-----------------------------------------------------------------------------
(* What the pool guarantees.                                               *)

Holders(c) == {u \in Users : pc[u] = "hold" /\ got[u] = c}

\* The count of a connection is the number of users that hold it: it neither
\* drifts nor wraps below zero, whatever Gets, retries and returns interleave.
CountIsUsers == \A c \in Conns : count[c] = Cardinality(Holders(c))

\* What the cache offers under a key was made with the credentials of that key
\* and has not been given up by its last user.
CacheConsistent ==
    \A k \in Keys : cache[k] # NoConn => /\ connKey[cache[k]] = k
                                         /\ ~closed[cache[k]]

\* A user that leaves a flight, its own or one it joined, has a connection
\* made with the credentials it asked for.
CredentialsMatch ==
    \A u \in Users : pc[u] = "count" => connKey[got[u]] = want[u]

\* Every open socket has somebody who will close it: a flight that will hand it
\* out, a user that is about to be counted in, one that holds it, or the last
\* user on its way to close it.  Connections are not leaked when they are
\* replaced, when flights share them, or when a user comes too late.
NoConnLeak ==
    \A c \in Conns : nc[c] # "closed" =>
        \E u \in Users :
           /\ got[u] = c
           /\ \/ pc[u] = "shut"
              \/ ~closed[c] /\ pc[u] \in {"store", "finish", "count", "hold"}

\* A connection that was replaced in the cache while it was reconnecting, and
\* is still in use, is in openConns: Close(true) finds it.
ReplacedIsListed ==
    \A c \in Conns :
        (/\ nc[c] # "closed"
         /\ ~closed[c]
         /\ cache[connKey[c]] # c
         /\ \A u \in Users : pc[u] = "store" => got[u] # c)
        => openConns[c] > 0

\* Nobody's socket is closed while he holds the connection, except by the
\* forced Close of a surveyor that stops.
NeverClosedUnderUser ==
    [][\A c \in Conns :
         (nc[c] # "closed" /\ nc'[c] = "closed" /\ Holders(c) # {})
         => closer = "force"]_vars

\* The pool implements leases: the set of users that hold a connection stands
\* for its count, and a connection may be joined until its count falls to zero.
LeasePhase(c) ==
    CASE ~closed[c] -> "pooled"
      [] closed[c] /\ nc[c] # "closed" -> "retired"
      [] OTHER -> "none"

Lease == INSTANCE ConnLease WITH
    lessees <- [c \in Conns |-> Holders(c)],
    phase   <- [c \in Conns |-> LeasePhase(c)],
    socket  <- [c \in Conns |-> IF nc[c] = "closed" THEN "closed" ELSE "open"]

ImplementsLease == Lease!LiveSpec

\* Every Get returns, with a connection or an error.
GetReturns ==
    \A u \in Users : pc[u] = "do" ~> pc[u] \in {"hold", "idle"}

\* A connection its last user has returned is closed.
LastUserShuts == \A c \in Conns : closed[c] ~> nc[c] = "closed"
=============================================================================
