--------------------------- MODULE ConnPoolProofs ---------------------------
(***************************************************************************)
(* Proofs about the connection pool, for every number of users, keys and   *)
(* connections, every retry limit and every width of the counter.          *)
(***************************************************************************)
EXTENDS ConnPool, FiniteSetTheorems, TLAPS

-----------------------------------------------------------------------------
(* Type correctness.                                                       *)

\* A user in Get has a key: without it a lookup would have no type.
HasKey == \A u \in Users : pc[u] \notin {"idle", "hold", "shut"} => want[u] \in Keys

TypeInv == TypeOK /\ HasKey

LEMMA TypeInit == Init => TypeInv
  BY ConnPoolAssumption DEF Init, TypeInv, HasKey, TypeOK, ConnOrNil, UserSteps

\* The arithmetic of the counter stays within a uint64.
LEMMA CounterType ==
    ASSUME NEW n \in 0..MaxCount
    PROVE  Incremented(n) \in 0..MaxCount /\ Decremented(n) \in 0..MaxCount
  BY ConnPoolAssumption DEF Incremented, Decremented

LEMMA UserTypeStep ==
    ASSUME TypeInv, NEW u \in Users,
           \/ \E k \in Keys : StartGet(u, k)
           \/ LockStep(u)
           \/ FreeStep(u)
           \/ ReturnToPool(u)
    PROVE  TypeInv'
<1> USE DEF TypeInv, HasKey, TypeOK, ConnOrNil, UserSteps, FlightSteps, Goto, getVars, poolVars, closeVars
<1>1. ASSUME NEW k \in Keys, StartGet(u, k) PROVE TypeInv'
  BY <1>1 DEF StartGet
<1>2. CASE Lookup(u)
  BY <1>2 DEF Lookup
<1>3. CASE ListOpen(u)
  BY <1>3 DEF ListOpen, Relisted
<1>4. CASE Store(u)
  BY <1>4 DEF Store
<1>5. CASE Count(u)
  <2>1. \A n \in 0..MaxCount : Incremented(n) \in 0..MaxCount
    BY CounterType
  <2>2. count' \in [Conns -> 0..MaxCount]
    BY <1>5, <2>1 DEF Count
  <2>3. QED
    BY <1>5, <2>2, ConnPoolAssumption DEF Count
<1>6. CASE Retry(u)
  BY <1>6, ConnPoolAssumption DEF Retry, LastTry
<1>7. CASE GiveUp(u)
  BY <1>7, ConnPoolAssumption DEF GiveUp
<1>8. CASE Lead(u)
  BY <1>8 DEF Lead
<1>9. CASE Join(u)
  BY <1>9 DEF Join
<1>10. CASE DialOk(u)
  BY <1>10, ConnPoolAssumption DEF DialOk
<1>11. CASE DialFail(u)
  BY <1>11 DEF DialFail
<1>12. CASE Finish(u)
  <2> DEFINE ok == got[u] # NoConn
             out == Sharers(u)
  <2>1. pc' = [v \in Users |-> IF v \in out THEN IF ok THEN "count" ELSE "idle" ELSE pc[v]]
    BY <1>12 DEF Finish
  <2>2. got' = [v \in Users |-> IF v \in out THEN got[u] ELSE got[v]]
    BY <1>12 DEF Finish
  <2>3. want' = [v \in Users |-> IF v \in out /\ ~ok THEN NoKey ELSE want[v]]
    BY <1>12 DEF Finish
  <2>4. tries' = [v \in Users |-> IF v \in out /\ ~ok THEN 0 ELSE tries[v]]
    BY <1>12 DEF Finish
  <2>5. UNCHANGED <<poolVars, nc, openConns, closeVars>>
    BY <1>12 DEF Finish
  <2>6. \A v \in out : pc[v] \in {"wait", "finish"}
    BY <1>12 DEF Finish, Sharers
  <2> HIDE DEF ok, out
  <2>7. pc' \in [Users -> UserSteps] /\ got' \in [Users -> ConnOrNil]
    BY <2>1, <2>2
  <2>8. want' \in [Users -> Keys \cup {NoKey}] /\ tries' \in [Users -> 0..(MaxTries - 1)]
    BY <2>3, <2>4, ConnPoolAssumption
  <2>9. HasKey'
    BY <2>1, <2>3, <2>6
  <2>10. QED
    BY <2>5, <2>7, <2>8, <2>9
<1>13. CASE Shut(u)
  BY <1>13 DEF Shut, SocketClosed
<1>14. CASE ReturnToPool(u)
  BY <1>14, CounterType DEF ReturnToPool, Uncount, Uncached
<1>15. QED
  BY <1>1, <1>2, <1>3, <1>4, <1>5, <1>6, <1>7, <1>8, <1>9, <1>10, <1>11, <1>12, <1>13, <1>14
  DEF LockStep, FreeStep

LEMMA OtherTypeStep ==
    ASSUME TypeInv,
           \/ \E force \in CloseModes : CloseBegin(force)
           \/ CloseStep
           \/ \E c \in Conns : Disconnect(c) \/ Reconnect(c)
           \/ UNCHANGED vars
    PROVE  TypeInv'
<1> USE DEF TypeInv, HasKey, TypeOK, ConnOrNil, getVars, poolVars, closeVars
<1>1. ASSUME NEW force \in CloseModes, CloseBegin(force) PROVE TypeInv'
  BY <1>1 DEF CloseBegin, Loop
<1>2. ASSUME NEW c \in Conns, CloseForce(c) PROVE TypeInv'
  BY <1>2 DEF CloseForce, Visit, SocketClosed
<1>3. ASSUME NEW c \in Conns, CloseReturn(c) PROVE TypeInv'
  <2>1. \A n \in 0..MaxCount : Decremented(n) \in 0..MaxCount
    BY CounterType
  <2>2. count' \in [Conns -> 0..MaxCount]
    BY <1>3, <2>1 DEF CloseReturn, Uncount
  <2>3. todo' \in [Conns -> Nat]
    BY <1>3 DEF CloseReturn, Visit
  <2>4. cache' \in [Keys -> ConnOrNil] /\ closed' \in [Conns -> BOOLEAN]
    BY <1>3 DEF CloseReturn, Uncount, Uncached
  <2>5. closer' \in {"idle", "force", "return", "shut"} /\ shutting' \in ConnOrNil
    BY <1>3 DEF CloseReturn
  <2>6. UNCHANGED <<getVars, connKey, nc, openConns>>
    BY <1>3 DEF CloseReturn, Uncount
  <2>7. QED
    BY <2>2, <2>3, <2>4, <2>5, <2>6
<1>4. CASE CloseShut
  BY <1>4 DEF CloseShut, SocketClosed
<1>5. CASE CloseEnd
  BY <1>5 DEF CloseEnd
<1>6. ASSUME NEW c \in Conns, Disconnect(c) \/ Reconnect(c) PROVE TypeInv'
  BY <1>6 DEF Disconnect, Reconnect
<1>7. CASE UNCHANGED vars
  BY <1>7 DEF vars
<1>8. QED
  BY <1>1, <1>2, <1>3, <1>4, <1>5, <1>6, <1>7 DEF CloseStep

\* The pool's variables have their types in every behaviour; in particular no
\* Get makes more than MaxTries attempts and every count is a uint64.
THEOREM TypeCorrect == Spec => []TypeOK
<1>1. TypeInv /\ [Next]_vars => TypeInv'
  BY UserTypeStep, OtherTypeStep DEF Next
<1>2. TypeInv => TypeOK
  BY DEF TypeInv
<1>3. QED
  BY TypeInit, <1>1, <1>2, PTL DEF Spec

-----------------------------------------------------------------------------
(* The inductive invariant.  The safety properties of the pool speak of    *)
(* users that hold a connection; they hold because of what is true of a    *)
(* connection on its way from the dial to its first user and from its last *)
(* user to the close of its socket.                                        *)

\* A user has a connection in hand exactly at the steps that use one.
HandInv ==
    \A u \in Users :
      /\ pc[u] \in {"idle", "do", "wait", "lookup", "list", "dial"} => got[u] = NoConn
      /\ pc[u] \in {"store", "count", "hold", "shut"} => got[u] \in Conns

\* The singleflight group runs one function per key.
OneFlight ==
    \A u, v \in Users :
      (pc[u] \in FlightSteps /\ pc[v] \in FlightSteps /\ want[u] = want[v]) => u = v

\* Nobody but the flight that dialled a connection knows it before it is stored.
StoreInv ==
    \A u \in Users : pc[u] = "store" =>
      /\ connKey[got[u]] = want[u]
      /\ ~closed[got[u]]
      /\ \A k \in Keys : cache[k] # got[u]
      /\ \A v \in Users : got[v] = got[u] => v = u
      /\ openConns[got[u]] = 0 /\ todo[got[u]] = 0 /\ shutting # got[u]

FinishInv ==
    \A u \in Users : (pc[u] = "finish" /\ got[u] # NoConn) => connKey[got[u]] = want[u]

\* Close is only called with force, as Surveyor.Stop does.
ForcedOnly == closer \in {"idle", "force"} /\ shutting = NoConn

\* Then a connection is closed by its last user, never before.
UseInv ==
    \A u \in Users : /\ pc[u] = "hold" => ~closed[got[u]]
                     /\ pc[u] = "shut" => closed[got[u]]

\* A flight that is going to replace an open connection has listed it.
DialListed ==
    \A u \in Users : pc[u] \in {"dial", "store"} =>
      \A c \in Conns : (cache[want[u]] = c /\ nc[c] # "closed") => openConns[c] > 0

\* A connection that is not closed has a flight or a user, and an open socket
\* whose connection is closed has the last user.
OwnedInv ==
    \A c \in Conns :
      /\ ~closed[c] => \E u \in Users : /\ got[u] = c
                                       /\ pc[u] \in {"store", "finish", "count", "hold"}
      /\ (closed[c] /\ nc[c] # "closed") => \E u \in Users : got[u] = c /\ pc[u] = "shut"

ControlInv == TypeInv /\ HandInv /\ OneFlight

PoolInv == CacheConsistent /\ StoreInv /\ FinishInv /\ CredentialsMatch

ListInv == DialListed /\ ReplacedIsListed

\* What holds however Close is called, and what else holds when it is forced.
AnyInv == ControlInv /\ PoolInv /\ ListInv

IInv == AnyInv /\ ForcedOnly /\ UseInv /\ CountIsUsers /\ OwnedInv

\* What a step of a user is.
UserStep(u) ==
    \/ \E k \in Keys : StartGet(u, k)
    \/ LockStep(u)
    \/ FreeStep(u)
    \/ ReturnToPool(u)

\* What a step of nobody in particular is.
OtherStep ==
    \/ \E force \in CloseModes : CloseBegin(force)
    \/ CloseStep
    \/ \E c \in Conns : Disconnect(c) \/ Reconnect(c)
    \/ UNCHANGED vars

\* And when Close is called with force.
ForcedStep ==
    \/ CloseBegin(TRUE)
    \/ \E c \in Conns : CloseForce(c)
    \/ CloseEnd
    \/ \E c \in Conns : Disconnect(c) \/ Reconnect(c)
    \/ UNCHANGED vars

LEMMA StepCases == [Next]_vars => (\E u \in Users : UserStep(u)) \/ OtherStep
  BY DEF Next, UserStep, OtherStep

LEMMA ForcedCases ==
    ASSUME ForcedOnly, CloseModes \subseteq {TRUE}, OtherStep
    PROVE  ForcedStep
  BY DEF ForcedOnly, OtherStep, ForcedStep, CloseStep, CloseReturn, CloseShut

-----------------------------------------------------------------------------
(* The control part: hands and flights.                                    *)

LEMMA ControlInit == Init => ControlInv
  BY TypeInit DEF ControlInv, Init, HandInv, OneFlight, FlightSteps

LEMMA ControlUserStep ==
    ASSUME ControlInv, NEW w \in Users, UserStep(w)
    PROVE  ControlInv'
<1> USE DEF HandInv, OneFlight, FlightSteps, Goto,
            getVars, poolVars, closeVars
<1> DEFINE Rest == HandInv /\ OneFlight
<1>0. TypeInv'
  BY UserTypeStep DEF UserStep, ControlInv
<1>a. /\ pc \in [Users -> UserSteps] /\ want \in [Users -> Keys \cup {NoKey}]
      /\ got \in [Users -> ConnOrNil] /\ cache \in [Keys -> ConnOrNil]
      /\ HasKey /\ Rest
  BY DEF ControlInv, TypeInv, TypeOK
<1> SUFFICES Rest'
  BY <1>0 DEF ControlInv
<1> USE <1>a DEF HasKey, ConnOrNil
<1>1. ASSUME NEW k \in Keys, StartGet(w, k) PROVE Rest'
  BY <1>1 DEF StartGet
<1>2. CASE Lookup(w)
  BY <1>2 DEF Lookup
<1>3. CASE ListOpen(w)
  BY <1>3 DEF ListOpen
<1>4. CASE Store(w)
  BY <1>4 DEF Store
<1>5. CASE Count(w)
  BY <1>5 DEF Count
<1>6. CASE Retry(w)
  BY <1>6 DEF Retry
<1>7. CASE GiveUp(w)
  BY <1>7 DEF GiveUp
<1>8. CASE Lead(w)
  BY <1>8 DEF Lead, InFlight
<1>9. CASE Join(w)
  BY <1>9 DEF Join
<1>10. CASE DialOk(w)
  BY <1>10 DEF DialOk
<1>11. CASE DialFail(w)
  BY <1>11 DEF DialFail
<1>12. CASE Finish(w)
  BY <1>12 DEF Finish, Sharers
<1>13. CASE Shut(w)
  BY <1>13 DEF Shut
<1>14. CASE ReturnToPool(w)
  BY <1>14 DEF ReturnToPool, Uncount
<1>15. QED
  BY <1>1, <1>2, <1>3, <1>4, <1>5, <1>6, <1>7, <1>8, <1>9, <1>10, <1>11, <1>12, <1>13, <1>14
  DEF UserStep, LockStep, FreeStep

LEMMA ControlOtherStep ==
    ASSUME ControlInv, OtherStep
    PROVE  ControlInv'
<1>1. TypeInv'
  BY OtherTypeStep DEF OtherStep, ControlInv
<1>2. UNCHANGED getVars
  BY DEF OtherStep, CloseBegin, CloseStep, CloseForce, CloseReturn, CloseShut, CloseEnd,
         Disconnect, Reconnect, vars
<1>3. QED
  BY <1>1, <1>2 DEF ControlInv, HandInv, OneFlight, getVars

-----------------------------------------------------------------------------
(* Counting holders.                                                       *)

LEMMA HoldersFinite ==
    ASSUME NEW c
    PROVE  /\ IsFiniteSet(Holders(c))
           /\ Cardinality(Holders(c)) \in Nat
           /\ Cardinality(Holders(c)) =< MaxCount
<1>1. Holders(c) \subseteq Users
  BY DEF Holders
<1>2. IsFiniteSet(Holders(c)) /\ Cardinality(Holders(c)) =< Cardinality(Users)
  BY <1>1, FS_Subset, ConnPoolAssumption
<1>3. Cardinality(Holders(c)) \in Nat /\ Cardinality(Users) \in Nat
  BY <1>2, FS_CardinalityType, ConnPoolAssumption
<1>4. QED
  BY <1>2, <1>3, ConnPoolAssumption

\* ReturnToPool sees a count of one exactly when its caller is the only user.
LEMMA LastHolder ==
    ASSUME CountIsUsers, NEW u \in Users, pc[u] = "hold", got[u] \in Conns
    PROVE  /\ Decremented(count[got[u]]) = Cardinality(Holders(got[u]) \ {u})
           /\ LastUser(got[u]) <=> Holders(got[u]) = {u}
<1> DEFINE H == Holders(got[u])
<1>1. u \in H /\ IsFiniteSet(H) /\ Cardinality(H) \in Nat
  BY HoldersFinite DEF Holders
<1>2. Cardinality(H) # 0
  BY <1>1, FS_EmptySet
<1>3. IsFiniteSet(H \ {u}) /\ Cardinality(H \ {u}) = Cardinality(H) - 1
  BY <1>1, FS_RemoveElement
<1>4. Decremented(count[got[u]]) = Cardinality(H \ {u})
  BY <1>1, <1>2, <1>3 DEF CountIsUsers, Decremented
<1>5. Cardinality(H \ {u}) = 0 <=> H \ {u} = {}
  BY <1>3, FS_EmptySet
<1>6. H \ {u} = {} <=> H = {u}
  BY <1>1
<1>7. QED
  BY <1>4, <1>5, <1>6 DEF LastUser

-----------------------------------------------------------------------------
(* What the cache, the flights and the users know of a connection.         *)

LEMMA PoolInit == Init => PoolInv
  BY DEF Init, PoolInv, CacheConsistent, StoreInv, FinishInv, CredentialsMatch

LEMMA PoolUserStep ==
    ASSUME ControlInv, PoolInv, NEW w \in Users, UserStep(w)
    PROVE  PoolInv'
<1>a. /\ pc \in [Users -> UserSteps] /\ want \in [Users -> Keys \cup {NoKey}]
      /\ got \in [Users -> ConnOrNil] /\ cache \in [Keys -> ConnOrNil]
      /\ connKey \in [Conns -> Keys \cup {NoKey}] /\ closed \in [Conns -> BOOLEAN]
      /\ openConns \in [Conns -> Nat] /\ todo \in [Conns -> Nat]
      /\ HasKey /\ HandInv
  BY DEF ControlInv, TypeInv, TypeOK
<1> USE <1>a, ConnPoolAssumption
        DEF PoolInv, CacheConsistent, StoreInv, FinishInv, CredentialsMatch,
            HasKey, HandInv, ConnOrNil, Goto, getVars, poolVars, closeVars
<1>1. ASSUME NEW k \in Keys, StartGet(w, k) PROVE PoolInv'
  BY <1>1 DEF StartGet
<1>2. CASE Lookup(w)
  BY <1>2 DEF Lookup
<1>3. CASE ListOpen(w)
  BY <1>3 DEF ListOpen, Relisted
<1>4. CASE Store(w)
  BY <1>4 DEF Store
<1>5. CASE Count(w)
  BY <1>5 DEF Count, StillOpen
<1>6. CASE Retry(w)
  BY <1>6 DEF Retry
<1>7. CASE GiveUp(w)
  BY <1>7 DEF GiveUp
<1>8. CASE Lead(w)
  BY <1>8 DEF Lead
<1>9. CASE Join(w)
  BY <1>9 DEF Join
<1>10. CASE DialOk(w)
  BY <1>10 DEF DialOk, Unused
<1>11. CASE DialFail(w)
  BY <1>11 DEF DialFail
<1>12. CASE Finish(w)
  BY <1>12 DEF Finish, Sharers
<1>13. CASE Shut(w)
  BY <1>13 DEF Shut
<1>14. CASE ReturnToPool(w)
  <2> DEFINE c == got[w]
  <2>1. pc[w] = "hold" /\ c \in Conns /\ UNCHANGED <<want, connKey, openConns, todo, shutting>>
    BY <1>14 DEF ReturnToPool, Uncount
  <2>2. CASE LastUser(c)
    <3>1. /\ pc' = [pc EXCEPT ![w] = "shut"] /\ got' = got
          /\ cache' = Uncached(c) /\ closed' = [closed EXCEPT ![c] = TRUE]
      BY <1>14, <2>2 DEF ReturnToPool, Uncount
    <3>2. \A k \in Keys : cache'[k] # c /\ (cache'[k] = cache[k] \/ cache'[k] = NoConn)
      BY <2>1, <3>1 DEF Uncached
    <3> QED
      BY <2>1, <3>1, <3>2
  <2>3. CASE ~LastUser(c)
    <3>1. /\ pc' = [pc EXCEPT ![w] = "idle"] /\ got' = [got EXCEPT ![w] = NoConn]
          /\ UNCHANGED <<cache, closed>>
      BY <1>14, <2>3 DEF ReturnToPool, Uncount
    <3>2. QED
      BY <2>1, <3>1
  <2>4. QED
    BY <2>2, <2>3
<1>15. QED
  BY <1>1, <1>2, <1>3, <1>4, <1>5, <1>6, <1>7, <1>8, <1>9, <1>10, <1>11, <1>12, <1>13, <1>14
  DEF UserStep, LockStep, FreeStep

\* Close(false) takes a connection that it gives up out of the cache, too.
LEMMA CloseUncaches ==
    ASSUME ControlInv, CacheConsistent, NEW c \in Conns, CloseReturn(c)
    PROVE  /\ UNCHANGED <<getVars, connKey, nc, openConns>> /\ todo[c] > 0
           /\ shutting' \in {shutting, c}
           /\ \A d \in Conns : todo'[d] =< todo[d]
           /\ \/ UNCHANGED <<cache, closed>>
              \/ /\ closed' = [closed EXCEPT ![c] = TRUE]
                 /\ \A k \in Keys : /\ cache[k] = c => cache'[k] = NoConn
                                    /\ cache[k] # c => cache'[k] = cache[k]
                 /\ \A d \in Conns \ {c} : cache[connKey[d]] = d => cache'[connKey[d]] = d
<1>1. todo \in [Conns -> Nat] /\ cache \in [Keys -> ConnOrNil]
  BY DEF ControlInv, TypeInv, TypeOK
<1>2. todo[c] > 0 /\ \A d \in Conns : todo'[d] =< todo[d]
  BY <1>1 DEF CloseReturn, Visit
<1>3. CASE LastUser(c)
  <2>1. cache' = Uncached(c) /\ closed' = [closed EXCEPT ![c] = TRUE]
    BY <1>3 DEF CloseReturn, Uncount
  <2>2. ASSUME NEW k \in Keys
        PROVE  /\ cache[k] = c => cache'[k] = NoConn
               /\ cache[k] # c => cache'[k] = cache[k]
    BY <1>1, <2>1, ConnPoolAssumption DEF Uncached, CacheConsistent
  <2>3. \A d \in Conns \ {c} : cache[connKey[d]] = d => cache'[connKey[d]] = d
    BY <2>1 DEF Uncached
  <2> QED
    BY <1>2, <2>1, <2>2, <2>3 DEF CloseReturn, Uncount
<1>4. CASE ~LastUser(c)
  BY <1>2, <1>4 DEF CloseReturn, Uncount
<1> QED
  BY <1>3, <1>4

LEMMA PoolOtherStep ==
    ASSUME ControlInv, PoolInv, OtherStep
    PROVE  PoolInv'
<1>a. /\ got \in [Users -> ConnOrNil] /\ cache \in [Keys -> ConnOrNil] /\ HandInv
      /\ connKey \in [Conns -> Keys \cup {NoKey}] /\ closed \in [Conns -> BOOLEAN]
      /\ openConns \in [Conns -> Nat] /\ todo \in [Conns -> Nat]
  BY DEF ControlInv, TypeInv, TypeOK
<1> USE <1>a, ConnPoolAssumption
        DEF PoolInv, CacheConsistent, StoreInv, FinishInv, CredentialsMatch, HandInv, ConnOrNil,
            getVars, poolVars, closeVars
<1>1. ASSUME NEW c \in Conns, CloseReturn(c) PROVE PoolInv'
  <2>1. /\ UNCHANGED <<pc, want, got, connKey, openConns>> /\ todo[c] > 0
        /\ shutting' \in {shutting, c}
        /\ \A d \in Conns : todo'[d] =< todo[d]
        /\ \/ UNCHANGED <<cache, closed>>
           \/ /\ closed' = [closed EXCEPT ![c] = TRUE]
              /\ \A k \in Keys : /\ cache[k] = c => cache'[k] = NoConn
                                 /\ cache[k] # c => cache'[k] = cache[k]
    BY <1>1, CloseUncaches
  <2>2. todo' \in [Conns -> Nat]
    BY <1>1 DEF CloseReturn, Visit
  <2>3. CacheConsistent' /\ FinishInv' /\ CredentialsMatch'
    BY <2>1
  <2>4. StoreInv'
    BY <2>1, <2>2
  <2> QED
    BY <2>3, <2>4
<1>2. ASSUME NEW c \in Conns, CloseForce(c) PROVE PoolInv'
  BY <1>2 DEF CloseForce, Visit
<1>3. CASE \E force \in CloseModes : CloseBegin(force)
  BY <1>3 DEF CloseBegin
<1>4. CASE CloseShut \/ CloseEnd
  BY <1>4 DEF CloseShut, CloseEnd
<1>5. CASE \E c \in Conns : Disconnect(c) \/ Reconnect(c)
  BY <1>5 DEF Disconnect, Reconnect
<1>6. CASE UNCHANGED vars
  BY <1>6 DEF vars
<1> QED
  BY <1>1, <1>2, <1>3, <1>4, <1>5, <1>6 DEF OtherStep, CloseStep

-----------------------------------------------------------------------------
(* Who uses a connection that is closed, when Close is forced.             *)

LEMMA UseUserStep ==
    ASSUME ControlInv, CountIsUsers, UseInv, NEW w \in Users, UserStep(w)
    PROVE  UseInv'
<1>a. /\ pc \in [Users -> UserSteps] /\ got \in [Users -> ConnOrNil] /\ HandInv
      /\ closed \in [Conns -> BOOLEAN]
  BY DEF ControlInv, TypeInv, TypeOK
<1> USE <1>a, ConnPoolAssumption DEF UseInv, HandInv, ConnOrNil, Goto, getVars, poolVars
<1>1. CASE ReturnToPool(w)
  <2> DEFINE c == got[w]
  <2>1. pc[w] = "hold" /\ c \in Conns
    BY <1>1 DEF ReturnToPool
  <2>2. CASE LastUser(c)
    <3>1. \A v \in Users : (pc[v] = "hold" /\ got[v] = c) => v = w
      <4>1. Holders(c) = {w}
        BY <2>1, <2>2, LastHolder
      <4>2. QED
        BY <4>1 DEF Holders
    <3>2. /\ pc' = [pc EXCEPT ![w] = "shut"] /\ got' = got
          /\ closed' = [closed EXCEPT ![c] = TRUE]
      BY <1>1, <2>2 DEF ReturnToPool, Uncount
    <3> QED
      BY <2>1, <3>1, <3>2
  <2>3. CASE ~LastUser(c)
    BY <1>1, <2>1, <2>3 DEF ReturnToPool, Uncount
  <2> QED
    BY <2>2, <2>3
<1>2. CASE Count(w)
  BY <1>2 DEF Count, StillOpen
<1>3. CASE DialOk(w)
  BY <1>3 DEF DialOk, Unused
<1>4. CASE Finish(w)
  BY <1>4 DEF Finish, Sharers
<1>5. CASE Lookup(w) \/ ListOpen(w) \/ Store(w)
  BY <1>5 DEF Lookup, ListOpen, Store
<1>6. CASE Retry(w) \/ GiveUp(w) \/ Shut(w)
  BY <1>6 DEF Retry, GiveUp, Shut
<1>7. CASE Lead(w) \/ Join(w) \/ DialFail(w)
  BY <1>7 DEF Lead, Join, DialFail
<1>8. CASE \E k \in Keys : StartGet(w, k)
  BY <1>8 DEF StartGet
<1> QED
  BY <1>1, <1>2, <1>3, <1>4, <1>5, <1>6, <1>7, <1>8 DEF UserStep, LockStep, FreeStep

LEMMA UseOtherStep ==
    ASSUME UseInv, ForcedStep
    PROVE  UseInv'
<1>1. UNCHANGED <<pc, got, closed>>
  BY DEF ForcedStep, CloseBegin, CloseForce, CloseEnd, Disconnect, Reconnect, vars, getVars,
         poolVars
<1> QED
  BY <1>1 DEF UseInv

LEMMA ForcedKept ==
    ASSUME ForcedOnly, (\E u \in Users : UserStep(u)) \/ ForcedStep
    PROVE  ForcedOnly'
  BY DEF ForcedOnly, UserStep, LockStep, FreeStep, StartGet, Lookup, ListOpen, Store, Count, Retry,
         GiveUp, Lead, Join, DialOk, DialFail, Finish, Shut, ReturnToPool, ForcedStep, CloseBegin,
         Loop, CloseForce, CloseEnd, Disconnect, Reconnect, vars, closeVars

-----------------------------------------------------------------------------
(* The count.                                                              *)

LEMMA CountInit == Init => CountIsUsers
<1>1. Init => \A c \in Conns : Holders(c) = {}
  BY DEF Init, Holders
<1>2. QED
  BY <1>1, FS_EmptySet DEF Init, CountIsUsers

\* Only Count and ReturnToPool change who holds what.
LEMMA HoldersKept ==
    ASSUME ControlInv, NEW w \in Users, UserStep(w), ~Count(w), ~ReturnToPool(w)
    PROVE  \A c \in Conns : Holders(c)' = Holders(c)
<1>a. /\ pc \in [Users -> UserSteps] /\ got \in [Users -> ConnOrNil] /\ HandInv
  BY DEF ControlInv, TypeInv, TypeOK
<1> SUFFICES ASSUME NEW v \in Users, NEW c \in Conns
             PROVE  (pc'[v] = "hold" /\ got'[v] = c) <=> (pc[v] = "hold" /\ got[v] = c)
  BY DEF Holders
<1> USE <1>a DEF Goto, getVars
<1>1. ASSUME NEW k \in Keys, StartGet(w, k)
      PROVE (pc'[v] = "hold" /\ got'[v] = c) <=> (pc[v] = "hold" /\ got[v] = c)
  BY <1>1 DEF StartGet
<1>2. CASE Lookup(w) \/ ListOpen(w) \/ Store(w)
  BY <1>2 DEF Lookup, ListOpen, Store
<1>3. CASE Retry(w) \/ GiveUp(w)
  BY <1>3 DEF Retry, GiveUp
<1>4. CASE Lead(w) \/ Join(w) \/ DialFail(w)
  BY <1>4 DEF Lead, Join, DialFail
<1>5. CASE DialOk(w)
  BY <1>5 DEF DialOk
<1>6. CASE Finish(w)
  BY <1>6 DEF Finish, Sharers
<1>7. CASE Shut(w)
  BY <1>7 DEF Shut
<1>8. QED
  BY <1>1, <1>2, <1>3, <1>4, <1>5, <1>6, <1>7 DEF UserStep, LockStep, FreeStep

\* A connection that is dialled anew has no holders.
LEMMA FreshCount ==
    ASSUME ControlInv, CountIsUsers, NEW w \in Users, DialOk(w)
    PROVE  \A c \in Conns : count'[c] = count[c]
<1>1. PICK c \in Conns : Unused(c) /\ count' = [count EXCEPT ![c] = 0]
  BY DEF DialOk
<1>2. Holders(c) = {}
  BY <1>1 DEF Unused, Holders
<1>3. count[c] = 0
  BY <1>2, FS_EmptySet DEF CountIsUsers
<1>4. QED
  BY <1>1, <1>3 DEF ControlInv, TypeInv, TypeOK

LEMMA CountUserStep ==
    ASSUME ControlInv, CountIsUsers, NEW w \in Users, UserStep(w)
    PROVE  CountIsUsers'
<1>a. /\ pc \in [Users -> UserSteps] /\ got \in [Users -> ConnOrNil] /\ HandInv
      /\ count \in [Conns -> 0..MaxCount]
  BY DEF ControlInv, TypeInv, TypeOK
<1> DEFINE d == got[w]
<1>1. CASE Count(w)
  <2>1. d \in Conns /\ w \notin Holders(d)
    BY <1>1, <1>a DEF Count, HandInv, Holders
  <2>2. /\ count' = [count EXCEPT ![d] = Incremented(@)]
        /\ pc' = [pc EXCEPT ![w] = "hold"] /\ got' = got
    BY <1>1 DEF Count, Goto
  <2>3. Holders(d)' = Holders(d) \cup {w}
    BY <1>a, <2>2 DEF Holders
  <2>4. ASSUME NEW c \in Conns, c # d PROVE Holders(c)' = Holders(c)
    BY <1>a, <1>1, <2>2, <2>4 DEF Holders, Count
  <2>5. Cardinality(Holders(d) \cup {w}) = Cardinality(Holders(d)) + 1
    BY <2>1, HoldersFinite, FS_AddElement
  <2>6. Holders(d) \cup {w} \subseteq Users
    BY DEF Holders
  <2>7. Cardinality(Holders(d)) + 1 =< MaxCount
    <3>1. Cardinality(Holders(d) \cup {w}) =< Cardinality(Users)
      BY <2>6, FS_Subset, ConnPoolAssumption
    <3>2. Cardinality(Users) \in Nat /\ Cardinality(Holders(d)) \in Nat
      BY HoldersFinite, FS_CardinalityType, ConnPoolAssumption
    <3>3. QED
      BY <2>5, <3>1, <3>2, ConnPoolAssumption
  <2>8. Incremented(count[d]) = Cardinality(Holders(d)) + 1
    <3>1. count[d] = Cardinality(Holders(d))
      BY <2>1 DEF CountIsUsers
    <3>2. QED
      BY <2>7, <3>1, HoldersFinite, ConnPoolAssumption DEF Incremented
  <2>9. ASSUME NEW c \in Conns PROVE count'[c] = Cardinality(Holders(c)')
    BY <1>a, <2>1, <2>2, <2>3, <2>4, <2>5, <2>8 DEF CountIsUsers
  <2>10. QED
    BY <2>9 DEF CountIsUsers
<1>2. CASE ReturnToPool(w)
  <2>1. PICK e \in Conns : e = got[w]
    BY <1>2, <1>a DEF ReturnToPool, HandInv
  <2>2. pc[w] = "hold" /\ count' = [count EXCEPT ![e] = Decremented(@)]
    BY <1>2, <2>1 DEF ReturnToPool, Uncount
  <2>3. \A v \in Users : /\ v # w => pc'[v] = pc[v] /\ got'[v] = got[v]
                         /\ pc'[w] # "hold"
    BY <1>2, <1>a DEF ReturnToPool, Goto
  <2>4. Holders(e)' = Holders(e) \ {w}
    BY <2>3 DEF Holders
  <2>5. ASSUME NEW c \in Conns, c # e PROVE Holders(c)' = Holders(c)
    BY <2>1, <2>2, <2>3, <2>5 DEF Holders
  <2>6. Decremented(count[e]) = Cardinality(Holders(e) \ {w})
    BY <2>1, <2>2, LastHolder
  <2>7. ASSUME NEW c \in Conns PROVE count'[c] = Cardinality(Holders(c)')
    BY <1>a, <2>2, <2>4, <2>5, <2>6 DEF CountIsUsers
  <2>8. QED
    BY <2>7 DEF CountIsUsers
<1>3. CASE ~Count(w) /\ ~ReturnToPool(w)
  <2>1. \A c \in Conns : Holders(c)' = Holders(c)
    BY <1>3, HoldersKept
  <2>2. \A c \in Conns : count'[c] = count[c]
    BY <1>3, FreshCount
    DEF UserStep, LockStep, FreeStep, StartGet, Lookup, ListOpen, Store, Retry, GiveUp, Lead,
        Join, DialFail, Finish, Shut, poolVars
  <2>3. ASSUME NEW c \in Conns PROVE count'[c] = Cardinality(Holders(c)')
    BY <2>1, <2>2 DEF CountIsUsers
  <2>4. QED
    BY <2>3 DEF CountIsUsers
<1>4. QED
  BY <1>1, <1>2, <1>3

LEMMA CountOtherStep ==
    ASSUME CountIsUsers, ForcedStep
    PROVE  CountIsUsers'
<1>1. UNCHANGED <<pc, got, count>>
  BY DEF ForcedStep, CloseBegin, CloseForce, CloseEnd, Disconnect, Reconnect, vars, getVars,
         poolVars
<1>2. QED
  BY <1>1 DEF CountIsUsers, Holders

-----------------------------------------------------------------------------
(* No leak.                                                                *)

LEMMA LeakUserStep ==
    ASSUME ControlInv, CountIsUsers, OwnedInv, NEW w \in Users, UserStep(w)
    PROVE  OwnedInv'
<1>a. /\ pc \in [Users -> UserSteps] /\ got \in [Users -> ConnOrNil] /\ HandInv
      /\ nc \in [Conns -> {"connected", "reconnecting", "closed"}]
      /\ closed \in [Conns -> BOOLEAN]
  BY DEF ControlInv, TypeInv, TypeOK
<1> USE <1>a, ConnPoolAssumption DEF OwnedInv, HandInv, ConnOrNil, Goto, getVars, poolVars
<1>1. ASSUME NEW k \in Keys, StartGet(w, k) PROVE OwnedInv'
  BY <1>1 DEF StartGet
<1>2. CASE Lookup(w)
  BY <1>2 DEF Lookup
<1>3. CASE ListOpen(w)
  BY <1>3 DEF ListOpen
<1>4. CASE Store(w)
  BY <1>4 DEF Store
<1>5. CASE Count(w)
  BY <1>5 DEF Count, StillOpen
<1>6. CASE Retry(w)
  BY <1>6 DEF Retry, StillOpen
<1>7. CASE GiveUp(w)
  BY <1>7 DEF GiveUp, StillOpen
<1>8. CASE Lead(w)
  BY <1>8 DEF Lead
<1>9. CASE Join(w)
  BY <1>9 DEF Join
<1>10. CASE DialOk(w)
  BY <1>10 DEF DialOk, Unused
<1>11. CASE DialFail(w)
  BY <1>11 DEF DialFail
<1>12. CASE Finish(w)
  BY <1>12 DEF Finish, Sharers
<1>13. CASE Shut(w)
  BY <1>13 DEF Shut, SocketClosed
<1>14. CASE ReturnToPool(w)
  <2>1. PICK e \in Conns : e = got[w]
    BY <1>14 DEF ReturnToPool
  <2>2. pc[w] = "hold" /\ UNCHANGED nc
    BY <1>14 DEF ReturnToPool
  <2>3. CASE LastUser(e)
    BY <1>14, <2>1, <2>2, <2>3 DEF ReturnToPool, Uncount
  <2>4. CASE ~LastUser(e)
    <3>1. PICK v \in Users : v # w /\ pc[v] = "hold" /\ got[v] = e
      <4>1. Holders(e) # {w}
        BY <2>1, <2>2, <2>4, LastHolder
      <4>2. w \in Holders(e)
        BY <2>1, <2>2 DEF Holders
      <4>3. QED
        BY <4>1, <4>2 DEF Holders
    <3>2. /\ pc' = [pc EXCEPT ![w] = "idle"] /\ got' = [got EXCEPT ![w] = NoConn]
          /\ closed' = closed
      BY <1>14, <2>1, <2>4 DEF ReturnToPool, Uncount
    <3>3. QED
      BY <2>1, <2>2, <3>1, <3>2
  <2>5. QED
    BY <2>3, <2>4
<1>15. QED
  BY <1>1, <1>2, <1>3, <1>4, <1>5, <1>6, <1>7, <1>8, <1>9, <1>10, <1>11, <1>12, <1>13, <1>14
  DEF UserStep, LockStep, FreeStep

LEMMA LeakOtherStep ==
    ASSUME ControlInv, OwnedInv, ForcedStep
    PROVE  OwnedInv'
<1>1. nc \in [Conns -> {"connected", "reconnecting", "closed"}]
  BY DEF ControlInv, TypeInv, TypeOK
<1>2. UNCHANGED <<pc, got, closed>>
  BY DEF ForcedStep, CloseBegin, CloseForce, CloseEnd, Disconnect, Reconnect, vars, getVars,
         poolVars
<1>3. \A c \in Conns : nc'[c] # "closed" => nc[c] # "closed"
  BY <1>1 DEF ForcedStep, CloseBegin, CloseForce, SocketClosed, CloseEnd, Disconnect, Reconnect,
              vars
<1>4. QED
  BY <1>2, <1>3 DEF OwnedInv

-----------------------------------------------------------------------------
(* Replaced connections are listed.                                        *)

LEMMA ListUserStep ==
    ASSUME ControlInv, PoolInv, ListInv, NEW w \in Users, UserStep(w)
    PROVE  ListInv'
<1>a. /\ pc \in [Users -> UserSteps] /\ want \in [Users -> Keys \cup {NoKey}]
      /\ got \in [Users -> ConnOrNil] /\ cache \in [Keys -> ConnOrNil]
      /\ nc \in [Conns -> {"connected", "reconnecting", "closed"}]
      /\ connKey \in [Conns -> Keys \cup {NoKey}] /\ closed \in [Conns -> BOOLEAN]
      /\ openConns \in [Conns -> Nat]
      /\ HasKey /\ HandInv /\ OneFlight /\ StoreInv
  BY DEF ControlInv, PoolInv, TypeInv, TypeOK
<1> USE <1>a, ConnPoolAssumption
        DEF ListInv, DialListed, ReplacedIsListed, HasKey, HandInv, ConnOrNil, Goto,
            getVars, poolVars
<1>1. ASSUME NEW k \in Keys, StartGet(w, k) PROVE ListInv'
  BY <1>1 DEF StartGet
<1>2. CASE Lookup(w)
  BY <1>2 DEF Lookup
<1>3. CASE ListOpen(w)
  BY <1>3 DEF ListOpen, Relisted
<1>4. CASE Store(w)
  BY <1>4 DEF Store, OneFlight, FlightSteps, StoreInv
<1>5. CASE Count(w)
  BY <1>5 DEF Count
<1>6. CASE Retry(w)
  BY <1>6 DEF Retry
<1>7. CASE GiveUp(w)
  BY <1>7 DEF GiveUp
<1>8. CASE Lead(w)
  BY <1>8 DEF Lead
<1>9. CASE Join(w)
  BY <1>9 DEF Join
<1>10. CASE DialOk(w)
  BY <1>10 DEF DialOk, Unused
<1>11. CASE DialFail(w)
  BY <1>11 DEF DialFail
<1>12. CASE Finish(w)
  BY <1>12 DEF Finish, Sharers
<1>13. CASE Shut(w)
  BY <1>13 DEF Shut, SocketClosed
<1>14. CASE ReturnToPool(w)
  <2>1. PICK e \in Conns : e = got[w]
    BY <1>14 DEF ReturnToPool
  <2>2. /\ \A v \in Users : pc'[v] \in {"dial", "store"} <=> pc[v] \in {"dial", "store"}
        /\ \A v \in Users : pc[v] = "store" => pc'[v] = "store" /\ got'[v] = got[v]
        /\ UNCHANGED <<want, connKey, nc, openConns>>
    BY <1>14 DEF ReturnToPool, Uncount
  <2>3. CASE LastUser(e)
    <3>1. cache' = Uncached(e) /\ closed' = [closed EXCEPT ![e] = TRUE]
      BY <1>14, <2>1, <2>3 DEF ReturnToPool, Uncount
    <3>2. /\ \A k \in Keys : cache'[k] = cache[k] \/ cache'[k] = NoConn
          /\ \A c \in Conns : (c # e /\ cache[connKey[c]] = c) => cache'[connKey[c]] = c
      BY <2>1, <3>1 DEF Uncached
    <3>3. DialListed'
      BY <2>2, <3>2
    <3>4. ReplacedIsListed'
      BY <2>2, <3>1, <3>2
    <3>5. QED
      BY <3>3, <3>4
  <2>4. CASE ~LastUser(e)
    <3>1. UNCHANGED <<cache, closed>>
      BY <1>14, <2>1, <2>4 DEF ReturnToPool, Uncount
    <3>2. QED
      BY <2>2, <3>1
  <2>5. QED
    BY <2>3, <2>4
<1>15. QED
  BY <1>1, <1>2, <1>3, <1>4, <1>5, <1>6, <1>7, <1>8, <1>9, <1>10, <1>11, <1>12, <1>13, <1>14
  DEF UserStep, LockStep, FreeStep

LEMMA ListOtherStep ==
    ASSUME ControlInv, PoolInv, ListInv, OtherStep
    PROVE  ListInv'
<1>a. /\ nc \in [Conns -> {"connected", "reconnecting", "closed"}]
      /\ cache \in [Keys -> ConnOrNil] /\ want \in [Users -> Keys \cup {NoKey}]
      /\ connKey \in [Conns -> Keys \cup {NoKey}] /\ closed \in [Conns -> BOOLEAN]
      /\ HasKey
  BY DEF ControlInv, TypeInv, TypeOK
<1> USE <1>a, ConnPoolAssumption
        DEF ListInv, DialListed, ReplacedIsListed, ConnOrNil, HasKey, getVars, poolVars
<1>1. ASSUME NEW c \in Conns, CloseReturn(c) PROVE ListInv'
  <2>1. /\ UNCHANGED <<pc, want, got, connKey, nc, openConns>>
        /\ \/ UNCHANGED <<cache, closed>>
           \/ /\ closed' = [closed EXCEPT ![c] = TRUE]
              /\ \A k \in Keys : /\ cache[k] = c => cache'[k] = NoConn
                                 /\ cache[k] # c => cache'[k] = cache[k]
              /\ \A d \in Conns \ {c} : cache[connKey[d]] = d => cache'[connKey[d]] = d
    BY <1>1, CloseUncaches DEF PoolInv
  <2>2. DialListed'
    BY <2>1
  <2>3. ReplacedIsListed'
    BY <2>1
  <2> QED
    BY <2>2, <2>3
<1>2. ASSUME \A c \in Conns : ~CloseReturn(c) PROVE ListInv'
  <2>1. UNCHANGED <<getVars, poolVars, openConns>>
    BY <1>2 DEF OtherStep, CloseStep, CloseBegin, CloseForce, CloseShut, CloseEnd, Disconnect,
                Reconnect, vars
  <2>2. \A c \in Conns : nc'[c] # "closed" => nc[c] # "closed"
    BY <1>2 DEF OtherStep, CloseStep, CloseBegin, CloseForce, CloseShut, SocketClosed, CloseEnd,
                Disconnect, Reconnect, vars
  <2> QED
    BY <2>1, <2>2
<1> QED
  BY <1>1, <1>2

-----------------------------------------------------------------------------
(* The theorems.                                                           *)

LEMMA AnyInit == Init => AnyInv
<1>1. Init => ListInv
  BY DEF Init, ListInv, DialListed, ReplacedIsListed
<1>2. QED
  BY <1>1, ControlInit, PoolInit DEF AnyInv

LEMMA AnyStep == AnyInv /\ [Next]_vars => AnyInv'
<1> SUFFICES ASSUME AnyInv, [Next]_vars
             PROVE  AnyInv'
  OBVIOUS
<1>1. CASE \E u \in Users : UserStep(u)
  BY <1>1, ControlUserStep, PoolUserStep, ListUserStep DEF AnyInv
<1>2. CASE OtherStep
  BY <1>2, ControlOtherStep, PoolOtherStep, ListOtherStep DEF AnyInv
<1>3. QED
  BY <1>1, <1>2, StepCases

LEMMA InvInit == Init => IInv
<1>1. Init => OwnedInv /\ ForcedOnly /\ UseInv
  BY DEF Init, OwnedInv, ForcedOnly, UseInv
<1>2. QED
  BY <1>1, AnyInit, CountInit DEF IInv

LEMMA InvStep ==
    ASSUME CloseModes \subseteq {TRUE}, IInv, [Next]_vars
    PROVE  IInv'
<1>0. AnyInv'
  BY AnyStep DEF IInv
<1>1. CASE \E u \in Users : UserStep(u)
  BY <1>0, <1>1, UseUserStep, ForcedKept, CountUserStep, LeakUserStep DEF IInv, AnyInv
<1>2. CASE ForcedStep
  BY <1>0, <1>2, UseOtherStep, ForcedKept, CountOtherStep, LeakOtherStep DEF IInv, AnyInv
<1>3. QED
  BY <1>1, <1>2, StepCases, ForcedCases DEF IInv

\* The inductive invariant holds as long as Close is only called with force.
THEOREM Invariance ==
    ASSUME CloseModes \subseteq {TRUE}
    PROVE  Spec => []IInv
<1>1. IInv /\ [Next]_vars => IInv'
  BY InvStep
<1>2. QED
  BY InvInit, <1>1, PTL DEF Spec

\* The count of every connection is the number of its users.
THEOREM CountCorrect ==
    ASSUME CloseModes \subseteq {TRUE}
    PROVE  Spec => []CountIsUsers
<1>1. IInv => CountIsUsers
  BY DEF IInv
<1>2. QED
  BY Invariance, <1>1, PTL

\* The cache never offers a connection that its last user has given up, nor one
\* made with credentials other than those it is kept under.
THEOREM CacheCorrect == Spec => []CacheConsistent
<1>1. AnyInv => CacheConsistent
  BY DEF AnyInv, PoolInv
<1>2. QED
  BY AnyInit, AnyStep, <1>1, PTL DEF Spec

\* A user that leaves a flight has a connection made with the credentials that it
\* asked for, whoever else the flight was for.
THEOREM CredentialsCorrect == Spec => []CredentialsMatch
<1>1. AnyInv => CredentialsMatch
  BY DEF AnyInv, PoolInv
<1>2. QED
  BY AnyInit, AnyStep, <1>1, PTL DEF Spec

\* Every open socket has an owner that will close it.
THEOREM NoLeak ==
    ASSUME CloseModes \subseteq {TRUE}
    PROVE  Spec => []NoConnLeak
<1>1. IInv => NoConnLeak
  BY DEF IInv, OwnedInv, NoConnLeak
<1>2. QED
  BY Invariance, <1>1, PTL

\* Close(true) finds every connection that was replaced while it was in use.
THEOREM ReplacedListed == Spec => []ReplacedIsListed
<1>1. AnyInv => ReplacedIsListed
  BY DEF AnyInv, ListInv
<1>2. QED
  BY AnyInit, AnyStep, <1>1, PTL DEF Spec

\* A step closes the socket of a connection in use only if it is Close(true)'s.
LEMMA CloseStepSafe ==
    ASSUME IInv, [Next]_vars, CloseModes \subseteq {TRUE}, NEW c \in Conns,
           nc[c] # "closed", nc'[c] = "closed", Holders(c) # {}
    PROVE  closer = "force"
<1>a. /\ nc \in [Conns -> {"connected", "reconnecting", "closed"}]
      /\ closed \in [Conns -> BOOLEAN]
      /\ \A u \in Users : /\ pc[u] = "hold" => ~closed[got[u]]
                          /\ pc[u] = "shut" => closed[got[u]]
  BY DEF IInv, AnyInv, ControlInv, TypeInv, TypeOK, UseInv
<1>1. CASE \E u \in Users : UserStep(u)
  <2>1. PICK u \in Users : UserStep(u)
    BY <1>1
  <2>2. Shut(u) /\ got[u] = c
    BY <1>a, <2>1
    DEF UserStep, LockStep, FreeStep, StartGet, Lookup, ListOpen, Store, Count, Retry, GiveUp,
        Lead, Join, DialOk, DialFail, Finish, ReturnToPool, Shut, SocketClosed
  <2>3. closed[c]
    BY <1>a, <2>2 DEF Shut
  <2>4. \A v \in Users : ~(pc[v] = "hold" /\ got[v] = c)
    BY <1>a, <2>3
  <2>5. Holders(c) = {}
    BY <2>4 DEF Holders
  <2>6. QED
    BY <2>5
<1>2. CASE ForcedStep
  BY <1>a, <1>2
  DEF ForcedStep, CloseBegin, CloseForce, CloseEnd, Disconnect, Reconnect, vars
<1>3. QED
  BY <1>1, <1>2, StepCases, ForcedCases DEF IInv

\* No user's socket is closed while it holds the connection, but by Close(true).
THEOREM NotClosedInUse ==
    ASSUME CloseModes \subseteq {TRUE}
    PROVE  Spec => NeverClosedUnderUser
<1>1. IInv /\ [Next]_vars =>
        [\A c \in Conns :
           (nc[c] # "closed" /\ nc'[c] = "closed" /\ Holders(c) # {}) => closer = "force"]_vars
  BY CloseStepSafe
<1>2. QED
  BY Invariance, <1>1, PTL DEF Spec, NeverClosedUnderUser

-----------------------------------------------------------------------------
(* The pool implements leases.                                             *)

SocketState(c) == IF nc[c] = "closed" THEN "closed" ELSE "open"

LEMMA LeaseInit == Init => Lease!Init
  BY DEF Init, Lease!Init, Holders, LeasePhase

\* A step that changes neither the holders, nor what is closed, stutters.
LEMMA LeaseStutter ==
    ASSUME \A c \in Conns : /\ Holders(c)' = Holders(c)
                            /\ closed'[c] = closed[c]
                            /\ (nc'[c] = "closed") <=> (nc[c] = "closed")
    PROVE  UNCHANGED Lease!vars
  BY DEF Lease!vars, LeasePhase

LEMMA LeaseTake ==
    ASSUME ControlInv, NEW w \in Users, Count(w)
    PROVE  \E c \in Conns : Lease!Take(w, c)
<1>a. /\ pc \in [Users -> UserSteps] /\ got \in [Users -> ConnOrNil] /\ HandInv
  BY DEF ControlInv, TypeInv, TypeOK
<1>1. PICK e \in Conns : e = got[w]
  BY <1>a DEF Count, HandInv
<1>2. /\ pc' = [pc EXCEPT ![w] = "hold"] /\ UNCHANGED <<got, closed, nc>>
      /\ pc[w] = "count" /\ ~closed[e]
  BY <1>1 DEF Count, StillOpen, Goto
<1>3. \A c \in Conns : Holders(c)' = IF c = e THEN Holders(c) \cup {w} ELSE Holders(c)
  BY <1>a, <1>1, <1>2 DEF Holders
<1>4. \A c \in Conns : w \notin Holders(c)
  BY <1>2 DEF Holders
<1>5. [c \in Conns |-> Holders(c)]'
        = [[c \in Conns |-> Holders(c)] EXCEPT ![e] = @ \cup {w}]
  BY <1>3
<1>6. LeasePhase(e) = "pooled"
  BY <1>2 DEF LeasePhase
<1>7. QED
  BY <1>2, <1>4, <1>5, <1>6 DEF Lease!Take, LeasePhase

LEMMA LeaseGive ==
    ASSUME ControlInv, UseInv, CountIsUsers, NEW w \in Users, ReturnToPool(w)
    PROVE  \E c \in Conns : Lease!Give(w, c)
<1>a. /\ pc \in [Users -> UserSteps] /\ got \in [Users -> ConnOrNil] /\ HandInv
      /\ closed \in [Conns -> BOOLEAN]
  BY DEF ControlInv, TypeInv, TypeOK
<1>1. PICK e \in Conns : e = got[w]
  BY <1>a DEF ReturnToPool, HandInv
<1>2. pc[w] = "hold" /\ UNCHANGED nc /\ ~closed[e]
  BY <1>a, <1>1 DEF ReturnToPool, UseInv
<1>3. \A v \in Users : /\ v # w => pc'[v] = pc[v] /\ got'[v] = got[v]
                       /\ pc'[w] # "hold"
  BY <1>a DEF ReturnToPool, Goto
<1>4. \A c \in Conns : Holders(c)' = IF c = e THEN Holders(c) \ {w} ELSE Holders(c)
  BY <1>1, <1>2, <1>3 DEF Holders
<1>5. closed' = IF Holders(e) = {w} THEN [closed EXCEPT ![e] = TRUE] ELSE closed
  <2>1. LastUser(e) <=> Holders(e) = {w}
    BY <1>1, <1>2, LastHolder
  <2>2. QED
    BY <1>1, <2>1 DEF ReturnToPool, Uncount
<1>6. [c \in Conns |-> Holders(c)]'
        = [[c \in Conns |-> Holders(c)] EXCEPT ![e] = @ \ {w}]
  BY <1>4
<1>7. [c \in Conns |-> LeasePhase(c)]'
        = IF Holders(e) # {w}
            THEN [c \in Conns |-> LeasePhase(c)]
            ELSE [[c \in Conns |-> LeasePhase(c)] EXCEPT
                    ![e] = IF SocketState(e) = "open" THEN "retired" ELSE "none"]
  BY <1>a, <1>2, <1>5 DEF LeasePhase, SocketState
<1>8. w \in Holders(e)
  BY <1>1, <1>2 DEF Holders
<1>9. QED
  BY <1>2, <1>6, <1>7, <1>8 DEF Lease!Give, SocketState

LEMMA LeaseEstablish ==
    ASSUME IInv, NEW w \in Users, DialOk(w)
    PROVE  \E c \in Conns : Lease!Establish(c)
<1>a. closed \in [Conns -> BOOLEAN] /\ nc \in [Conns -> {"connected", "reconnecting", "closed"}]
  BY DEF IInv, AnyInv, ControlInv, TypeInv, TypeOK
<1>1. PICK e \in Conns : /\ Unused(e)
                         /\ closed' = [closed EXCEPT ![e] = FALSE]
                         /\ nc' = [nc EXCEPT ![e] = "connected"]
  BY DEF DialOk
<1>2. nc[e] = "closed" /\ \A u \in Users : got[u] # e
  BY <1>1 DEF Unused
<1>3. closed[e]
  BY <1>2 DEF IInv, OwnedInv
<1>4. \A c \in Conns : Holders(c)' = Holders(c)
  <2>1. ~Count(w) /\ ~ReturnToPool(w)
    BY DEF DialOk, Count, ReturnToPool
  <2>2. QED
    BY <2>1, HoldersKept DEF UserStep, FreeStep, IInv, AnyInv
<1>5. LeasePhase(e) = "none"
  BY <1>2, <1>3 DEF LeasePhase
<1>6. [c \in Conns |-> LeasePhase(c)]'
        = [[c \in Conns |-> LeasePhase(c)] EXCEPT ![e] = "pooled"]
  BY <1>a, <1>1 DEF LeasePhase
<1>7. [c \in Conns |-> SocketState(c)]'
        = [[c \in Conns |-> SocketState(c)] EXCEPT ![e] = "open"]
  BY <1>a, <1>1 DEF SocketState
<1>8. QED
  BY <1>4, <1>5, <1>6, <1>7 DEF Lease!Establish, SocketState

\* nats.Conn.Close on the socket of e, by its last user or by Close(true).
LEMMA LeaseSocketClosed ==
    ASSUME IInv, NEW e \in Conns, nc' = SocketClosed(e), UNCHANGED closed,
           \A c \in Conns : Holders(c)' = Holders(c)
    PROVE  \/ Lease!Shutdown(e)
           \/ UNCHANGED Lease!vars
<1>a. nc \in [Conns -> {"connected", "reconnecting", "closed"}]
  BY DEF IInv, AnyInv, ControlInv, TypeInv, TypeOK
<1>1. CASE nc[e] = "closed"
  BY <1>a, <1>1, LeaseStutter DEF SocketClosed
<1>2. CASE nc[e] # "closed"
  <2>1. [c \in Conns |-> SocketState(c)]'
          = [[c \in Conns |-> SocketState(c)] EXCEPT ![e] = "closed"]
    BY <1>a DEF SocketState, SocketClosed
  <2>2. [c \in Conns |-> LeasePhase(c)]'
          = [[c \in Conns |-> LeasePhase(c)] EXCEPT ![e] = IF @ = "retired" THEN "none" ELSE @]
    BY <1>a, <1>2 DEF LeasePhase, SocketClosed
  <2>3. QED
    BY <1>2, <2>1, <2>2 DEF Lease!Shutdown, SocketState
<1>3. QED
  BY <1>1, <1>2

LEMMA LeaseUserStep ==
    ASSUME IInv, NEW w \in Users, UserStep(w)
    PROVE  [Lease!Next]_(Lease!vars)
<1>1. CASE Count(w)
  BY <1>1, LeaseTake DEF Lease!Next, IInv, AnyInv
<1>2. CASE ReturnToPool(w)
  BY <1>2, LeaseGive DEF Lease!Next, IInv, AnyInv
<1>3. CASE DialOk(w)
  BY <1>3, LeaseEstablish DEF Lease!Next
<1>4. CASE ~Count(w) /\ ~ReturnToPool(w) /\ ~DialOk(w)
  <2>1. \A c \in Conns : Holders(c)' = Holders(c)
    BY <1>4, HoldersKept DEF IInv, AnyInv
  <2>2. CASE Shut(w)
    <3>1. PICK e \in Conns : e = got[w]
      BY <2>2 DEF Shut, IInv, AnyInv, ControlInv, HandInv
    <3>2. nc' = SocketClosed(e) /\ UNCHANGED closed
      BY <2>2, <3>1 DEF Shut, poolVars
    <3>3. QED
      BY <2>1, <3>2, LeaseSocketClosed DEF Lease!Next
  <2>3. CASE ~Shut(w)
    <3>1. UNCHANGED <<closed, nc>>
      BY <1>4, <2>3
      DEF UserStep, LockStep, FreeStep, StartGet, Lookup, ListOpen, Store, Retry, GiveUp, Lead,
          Join, DialFail, Finish, poolVars
    <3>2. QED
      BY <2>1, <3>1, LeaseStutter
  <2>4. QED
    BY <2>2, <2>3
<1>5. QED
  BY <1>1, <1>2, <1>3, <1>4

LEMMA LeaseOtherStep ==
    ASSUME IInv, ForcedStep
    PROVE  [Lease!Next]_(Lease!vars)
<1>1. UNCHANGED <<pc, got, closed>>
  BY DEF ForcedStep, CloseBegin, CloseForce, CloseEnd, Disconnect, Reconnect, vars, getVars,
         poolVars
<1>2. \A c \in Conns : Holders(c)' = Holders(c)
  BY <1>1 DEF Holders
<1>3. ASSUME NEW c \in Conns, CloseForce(c) PROVE [Lease!Next]_(Lease!vars)
  BY <1>1, <1>2, <1>3, LeaseSocketClosed DEF CloseForce, Lease!Next
<1>4. ASSUME \A c \in Conns : ~CloseForce(c) PROVE [Lease!Next]_(Lease!vars)
  <2>1. nc \in [Conns -> {"connected", "reconnecting", "closed"}]
    BY DEF IInv, AnyInv, ControlInv, TypeInv, TypeOK
  <2>2. \A c \in Conns : (nc'[c] = "closed") <=> (nc[c] = "closed")
    BY <1>4, <2>1 DEF ForcedStep, CloseBegin, CloseEnd, Disconnect, Reconnect, vars
  <2>3. QED
    BY <1>1, <1>2, <2>2, LeaseStutter
<1>5. QED
  BY <1>3, <1>4

\* The pool implements the abstract leases, but for their liveness: what a user
\* sees of the pool is a connection that lives from its first to its last user.
THEOREM RefinesLease ==
    ASSUME CloseModes \subseteq {TRUE}
    PROVE  Spec => Lease!Spec
<1>1. IInv /\ [Next]_vars => [Lease!Next]_(Lease!vars)
  BY LeaseUserStep, LeaseOtherStep, StepCases, ForcedCases DEF IInv
<1>2. QED
  BY LeaseInit, Invariance, <1>1, PTL DEF Spec, Lease!Spec
=============================================================================
