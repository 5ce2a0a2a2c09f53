------------------------------ MODULE StatzPoll ------------------------------
(***************************************************************************)
(* One survey of the NATS servers (StatzCollector.Collect, poll and        *)
(* handleStatzResponse in surveyor/collector_statz.go).                    *)
(*                                                                         *)
(* Collect runs poll: it pings all servers and receives their replies over *)
(* an unbuffered channel until it has the expected number of them or a     *)
(* timer fires.  The callback of the reply subscription offers the replies *)
(* on the channel while it holds the collector's lock, one at a time.  A   *)
(* singleflight group runs one Collect at a time.                          *)
(*                                                                         *)
(* A step is a critical section of the lock, a rendezvous on the channel,  *)
(* or what poll does between two of them.  The requests that follow a      *)
(* survey (accounts, JetStream, gateways, raft) touch none of this state,  *)
(* but they may fail.                                                      *)
(***************************************************************************)
EXTENDS Integers, FiniteSets

CONSTANTS
    Servers,     \* "cluster:id" of the servers there are
    NumServers,  \* the values of numServers: how many are expected, -1 for any number
    NoReply,     \* no message
    MaxPolls     \* bound: this many surveys

ASSUME StatzPollAssumption ==
    /\ IsFiniteSet(Servers)
    /\ NumServers \subseteq (Nat \ {0}) \cup {-1}
    /\ NoReply \notin Servers \X Nat
    /\ MaxPolls \in Nat

VARIABLES
    numServers,   \* StatzCollector.numServers
    step,         \* where Collect is
    polling,      \* StatzCollector.polling
    pollkey,      \* StatzCollector.pollkey; a reply carries the one it answers
    stats,        \* StatzCollector.stats
    rtts,         \* the servers that StatzCollector.rtts has a time for
    servers,      \* StatzCollector.servers: was a known server seen by this poll?
    noReplies,    \* counter of known servers that did not reply
    lateReplies,  \* counter of late replies
    metrics,      \* the replies that the latest Collect exported
    pending,      \* replies under way to the callback
    handler,      \* where the callback is
    msg,          \* the reply it offers
    heard         \* history: who replied in the last complete poll or a later one

pollVars    == <<numServers, step, servers, noReplies, metrics, heard>>
handlerVars == <<pending, handler, msg>>
vars == <<pollVars, handlerVars, polling, pollkey, stats, rtts, lateReplies>>

Replies == Servers \X (1..MaxPolls)

TypeOK ==
    /\ numServers \in NumServers
    /\ step \in {"idle", "ping", "fail", "receive", "seal", "account", "leave", "build"}
    /\ polling \in BOOLEAN
    /\ polling <=> step \in {"ping", "fail", "receive", "seal"}
    /\ pollkey \in 0..MaxPolls
    /\ stats \subseteq Replies
    /\ rtts \subseteq Servers
    /\ DOMAIN servers \subseteq Servers
    /\ servers \in [DOMAIN servers -> BOOLEAN]
    /\ noReplies \in Nat
    /\ lateReplies \in Nat
    /\ metrics \subseteq Replies
    /\ pending \subseteq Replies
    /\ handler \in {"idle", "offer", "record"}
    /\ msg \in Replies \cup {NoReply}
    /\ msg = NoReply <=> handler = "idle"
    /\ heard \subseteq Servers

\* The callback keeps the lock from when it accepts a reply until it has
\* recorded its round trip time.  Mutant: it locks for neither.
LockFreeAlways == TRUE

LockFree == handler = "idle"

Init ==
    /\ numServers \in NumServers
    /\ step = "idle"
    /\ polling = FALSE
    /\ pollkey = 0
    /\ stats = {}
    /\ rtts = {}
    /\ servers = [s \in {} |-> FALSE]
    /\ noReplies = 0
    /\ lateReplies = 0
    /\ metrics = {}
    /\ pending = {}
    /\ handler = "idle"
    /\ msg = NoReply
    /\ heard = {}

-----------------------------------------------------------------------------
(* poll                                                                    *)

Begin ==
    /\ step = "idle"
    /\ LockFree
    /\ pollkey < MaxPolls
    /\ polling' = TRUE
    /\ pollkey' = pollkey + 1
    /\ stats' = {}
    /\ rtts' = {}
    /\ step' = "ping"
    /\ UNCHANGED <<numServers, servers, noReplies, metrics, heard, handlerVars, lateReplies>>

\* The ping is published; some servers reply to it, sooner or later.
Ping ==
    /\ step = "ping"
    /\ \E answering \in SUBSET Servers :
         pending' = pending \cup (answering \X {pollkey})
    /\ step' = "receive"
    /\ UNCHANGED <<numServers, servers, noReplies, metrics, heard, handler, msg,
                   polling, pollkey, stats, rtts, lateReplies>>

\* There is no connection, or the ping cannot be published.
PingFails ==
    /\ step = "ping"
    /\ step' = "fail"
    /\ UNCHANGED <<numServers, servers, noReplies, metrics, heard, handlerVars,
                   polling, pollkey, stats, rtts, lateReplies>>

\* There was an error, here or in a request that follows a survey.  The
\* deferred reset of polling; then Collect exports nats_up = 0 alone.  Mutant:
\* it exports what there is.
FailedUnnoticed == stats

Failed == {}

Fail ==
    /\ step \in {"fail", "leave"}
    /\ LockFree
    /\ polling' = FALSE
    /\ metrics' = Failed
    /\ step' = "idle"
    /\ UNCHANGED <<numServers, servers, noReplies, heard, handlerVars, pollkey, stats, rtts,
                   lateReplies>>

\* The expected number is reached.  Mutant: one more is waited for.
FullLate(replies) == numServers # -1 /\ Cardinality(replies) > numServers

Full(replies) == Cardinality(replies) = numServers

\* The callback and the poll loop meet on the channel.
Receive ==
    /\ step = "receive"
    /\ handler = "offer"
    /\ stats' = stats \cup {msg}
    /\ heard' = heard \cup {msg[1]}
    /\ handler' = "record"
    /\ step' = IF Full(stats') THEN "seal" ELSE "receive"
    /\ UNCHANGED <<numServers, servers, noReplies, metrics, pending, msg,
                   polling, pollkey, rtts, lateReplies>>

\* The pause after a reply grew too long, which matters for any number only.
DiscoveryTimeout ==
    /\ step = "receive"
    /\ numServers = -1
    /\ step' = "seal"
    /\ UNCHANGED <<numServers, servers, noReplies, metrics, heard, handlerVars,
                   polling, pollkey, stats, rtts, lateReplies>>

PollTimeout ==
    /\ step = "receive"
    /\ step' = "seal"
    /\ UNCHANGED <<numServers, servers, noReplies, metrics, heard, handlerVars,
                   polling, pollkey, stats, rtts, lateReplies>>

\* Mutant: polling is left to the deferred function.
SealedLate == polling

Sealed == FALSE

Seal ==
    /\ step = "seal"
    /\ LockFree
    /\ polling' = Sealed
    /\ step' = "account"
    /\ UNCHANGED <<numServers, servers, noReplies, metrics, heard, handlerVars,
                   pollkey, stats, rtts, lateReplies>>

Responders == {r[1] : r \in stats}

\* The known servers and those that have replied, marked for having replied.
\* Mutant: the marks of the previous poll are not reset.
MarkedKeeping == [s \in DOMAIN servers \cup Responders |->
                    s \in Responders \/ (s \in DOMAIN servers /\ servers[s])]

Marked == [s \in DOMAIN servers \cup Responders |-> s \in Responders]

Missing == {s \in DOMAIN Marked : ~Marked[s]}

\* A poll with too few replies counts the known servers that are missing; one
\* that is complete makes its servers the known ones.
Complete == numServers \in {-1, Cardinality(stats)}

Account ==
    /\ step = "account"
    /\ IF Complete
         THEN /\ servers' = [s \in Responders |-> FALSE]
              /\ heard' = Responders
              /\ UNCHANGED noReplies
         ELSE /\ servers' = Marked
              /\ noReplies' = noReplies + Cardinality(Missing)
              /\ UNCHANGED heard
    /\ step' = "leave"
    /\ UNCHANGED <<numServers, metrics, handlerVars, polling, pollkey, stats, rtts, lateReplies>>

\* The deferred reset of polling, after the requests that follow went well.
Leave ==
    /\ step = "leave"
    /\ LockFree
    /\ polling' = FALSE
    /\ step' = "build"
    /\ UNCHANGED <<numServers, servers, noReplies, metrics, heard, handlerVars,
                   pollkey, stats, rtts, lateReplies>>

\* Collect exports what poll left in the collector.
Build ==
    /\ step = "build"
    /\ LockFree
    /\ metrics' = stats
    /\ step' = "idle"
    /\ UNCHANGED <<numServers, servers, noReplies, heard, handlerVars,
                   polling, pollkey, stats, rtts, lateReplies>>

-----------------------------------------------------------------------------
(* handleStatzResponse                                                     *)

\* The subject of the reply ends with the current pollkey.  Mutant: it is not
\* looked at.
CurrentAssumed(r) == TRUE

Current(r) == r[2] = pollkey

Take(r) == r \in pending /\ LockFree /\ pending' = pending \ {r}

\* A reply to the poll in progress is offered to it.
Offer(r) ==
    /\ Take(r)
    /\ polling
    /\ Current(r)
    /\ handler' = "offer"
    /\ msg' = r
    /\ UNCHANGED <<pollVars, polling, pollkey, stats, rtts, lateReplies>>

\* A reply to an earlier poll is late.
Late(r) ==
    /\ Take(r)
    /\ ~Current(r)
    /\ lateReplies' = lateReplies + 1
    /\ UNCHANGED <<pollVars, handler, msg, polling, pollkey, stats, rtts>>

\* A reply to the latest poll, which has ended, is only logged.
Extra(r) ==
    /\ Take(r)
    /\ ~polling
    /\ Current(r)
    /\ UNCHANGED <<pollVars, handler, msg, polling, pollkey, stats, rtts, lateReplies>>

\* Nobody received the reply for 500 ms: it is dropped.  Mutant: the callback
\* waits on.
OfferForever == FALSE

OfferTimeout ==
    /\ handler = "offer"
    /\ handler' = "record"
    /\ UNCHANGED <<pollVars, pending, msg, polling, pollkey, stats, rtts, lateReplies>>

\* Received or dropped, its round trip time is recorded, and the lock released.
Record ==
    /\ handler = "record"
    /\ rtts' = rtts \cup {msg[1]}
    /\ handler' = "idle"
    /\ msg' = NoReply
    /\ UNCHANGED <<pollVars, pending, polling, pollkey, stats, lateReplies>>

-----------------------------------------------------------------------------

PollStep ==
    \/ Ping \/ PingFails \/ Fail
    \/ Receive \/ DiscoveryTimeout \/ PollTimeout
    \/ Seal \/ Account \/ Leave \/ Build

HandlerStep == OfferTimeout \/ Record

Next ==
    \/ Begin
    \/ PollStep
    \/ \E r \in pending : Offer(r) \/ Late(r) \/ Extra(r)
    \/ HandlerStep

Spec == Init /\ [][Next]_vars

\* A sync.Mutex is handed to whoever waits long enough.  The timers fire, even
\* though replies may be received before they do.
LiveSpec == Spec /\ SF_vars(PollStep) /\ WF_vars(HandlerStep)

-----------------------------------------------------------------------------
(* What a survey guarantees.                                               *)

\* A survey exports no reply that an earlier ping has brought, however late
\* replies arrive, and never two polls' replies together.
FreshStats ==
    /\ \A r \in stats : r[2] = pollkey
    /\ \A r \in metrics : r[2] = (IF step = "idle" THEN pollkey ELSE pollkey - 1)

\* Collect finds the round trip time of every reply that it exports: the
\* callback has recorded it before poll goes on.
StatsHaveRtt == (step = "build" /\ LockFree) => Responders \subseteq rtts

\* No more servers are surveyed than are expected, however many reply.
SurveyedAsExpected == numServers # -1 => Cardinality(stats) =< numServers

\* A poll with too few replies counts each server that has replied in the last
\* complete poll, or in a poll since, and has not replied now.
MissingCounted ==
    [][(step = "account" /\ step' # "account") =>
         noReplies' = noReplies + (IF Complete THEN 0 ELSE Cardinality(heard \ Responders))]_vars

\* A survey ends: the callback that offers a reply which nobody receives any
\* more holds the lock that poll needs to end.
PollEnds == step # "idle" ~> step = "idle"

\* "Number of times a reply was received too late": a reply that comes after
\* its poll gave up on it is counted.
LateRepliesCounted ==
    [][\A r \in pending \ pending' :
         (~polling /\ numServers # -1 /\ Cardinality(stats) < numServers /\ r[2] = pollkey)
         => lateReplies' = lateReplies + 1]_vars

\* How the state of a survey looks to module Survey.
Underway(s) == <<s, pollkey>> \in pending \/ (handler = "offer" /\ msg = <<s, pollkey>>)

Phase ==
    CASE step \in {"ping", "fail"}    -> "begun"
      [] step = "receive"             -> "open"
      [] step \in {"seal", "account"} -> "closed"
      [] step = "leave"               -> "counted"
      [] step = "build"               -> "sound"
      [] step = "idle"                -> "idle"

Ideal == INSTANCE Survey WITH
    Limits    <- NumServers,
    expected  <- numServers,
    number    <- pollkey,
    phase     <- Phase,
    answers   <- {s \in Servers : Underway(s)},
    gathered  <- Responders,
    known     <- DOMAIN servers \cup Responders,
    missed    <- noReplies,
    published <- {r[1] : r \in metrics}

\* A survey does what module Survey promises: it asks once, gathers each answer
\* to its own ping at most once and as many as it expects, counts the known
\* servers that are missing, and exports all that it has gathered, or nothing
\* if it failed.  The subjects, the channel, the marks of the servers, the
\* timers and a callback that outlives its poll are how the code gets there.
ImplementsSurvey == Ideal!Spec
=============================================================================
