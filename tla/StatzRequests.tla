--------------------------- MODULE StatzRequests ----------------------------
(***************************************************************************)
(* The requests of a survey after its ping (surveyor/collector_statz.go):  *)
(* requestMany, which gathers the servers' replies, and what is made of    *)
(* them.  Replies on gateways and raft are kept as they are.  Replies on   *)
(* accounts are kept but for accounts that stay without connections.       *)
(* JetStream replies are merged: the details of an account that a server   *)
(* reports take in what the servers before it reported of that account.    *)
(*                                                                         *)
(* A reply on the channel is the name of its server; what it says is       *)
(* chosen when it is read.  A step is a send or a receive of requestMany's *)
(* channel, or the reading of one reply, which is local to the survey.     *)
(* Merging with each reply read gives what merging after the last gives.   *)
(* A user of the package may also give such replies himself (WithStats).   *)
(***************************************************************************)
EXTENDS Integers, Sequences, FiniteSets, Functions

CONSTANTS
    Servers,     \* the servers there are
    Accounts,    \* accounts of theirs
    StreamNames, \* names of streams
    ConsumerNames, \* names of consumers
    Details,     \* what a server may report of an account: sequences of streams
    NumServers,  \* the values of numServers: how many replies are expected, -1 for any number
    ChanSize,    \* replies that msgsChan holds (100)
    ZeroConnSkip, \* accStatZeroConnSkip (3)
    NoServer     \* no server

\* A stream and a consumer, with the server that leads it, if there is one, and
\* the one that has reported it.
Leaders == Servers \cup {NoServer}
ConsumerDetails == [name : ConsumerNames, leader : Leaders, origin : Leaders]
StreamDetails ==
    [name : StreamNames, leader : Leaders, origin : Leaders, consumers : Seq(ConsumerDetails)]

Names(seq) == {seq[i].name : i \in DOMAIN seq}

Distinct(seq) == \A i, j \in DOMAIN seq : seq[i].name = seq[j].name => i = j

\* A server names the streams of an account, and the consumers of a stream, once.
ASSUME StatzRequestsAssumption ==
    /\ IsFiniteSet(Servers) /\ NoServer \notin Servers
    /\ Details \subseteq Seq(StreamDetails)
    /\ \A d \in Details : Distinct(d) /\ \A i \in DOMAIN d : Distinct(d[i].consumers)
    /\ NumServers \subseteq (Nat \ {0}) \cup {-1}
    /\ ChanSize \in Nat /\ ZeroConnSkip \in Nat

VARIABLES
    numServers, \* StatzCollector.numServers
    phase,      \* "idle", the kind of the request in progress, "given", or "build"
    stage,      \* where that request is
    coming,     \* servers whose reply is on its way
    msgsChan,   \* requestMany's channel
    stuck,      \* the server whose reply the callback cannot put there yet
    res,        \* the replies gathered, and not read yet
    accepted,   \* how many replies were read and found good
    zeroConn,   \* StatzCollector.accStatZeroConn
    accStats,   \* server/account pairs that are reported
    jss,        \* JetStream replies, each with the details it has by now
    jsAccInfos, \* account -> the index in jss of the details that stand for it
    answered,   \* history: the servers that answer this request
    answers,    \* history: the JetStream replies accepted, as they came
    silent,     \* history: a pair's reports in a row without a connection
    seen        \* history: pairs in an account reply of this survey

requestVars == <<coming, msgsChan, stuck, answered>>
accountVars == <<zeroConn, accStats, silent, seen>>
jszVars     == <<jss, jsAccInfos, answers>>
vars == <<numServers, phase, stage, requestVars, res, accepted, accountVars, jszVars>>

Pairs == Servers \X Accounts
Kinds == {"gatewayz", "raftz", "accounts", "jsz"}
Kept  == {"jsz", "given"}
Empty == [a \in {} |-> 0]

\* Replies, each of a server, with the streams of some accounts.
IsReplies(seq) ==
    /\ seq \in Seq(Range(seq))
    /\ \A r \in Range(seq) :
         /\ r.server \in Servers
         /\ DOMAIN r.details \subseteq Accounts
         /\ r.details \in [DOMAIN r.details -> Seq(StreamDetails)]

TypeOK ==
    /\ numServers \in NumServers
    /\ phase \in Kinds \cup {"idle", "given", "build"}
    /\ stage \in {"send", "receive", "leave", "read"}
    /\ coming \subseteq Servers
    /\ msgsChan \in Seq(Servers) /\ Len(msgsChan) =< ChanSize
    /\ stuck \in Servers \cup {NoServer}
    /\ res \in Seq(Servers)
    /\ accepted \in Nat
    /\ zeroConn \in [Pairs -> 0..ZeroConnSkip]
    /\ accStats \subseteq Pairs
    /\ IsReplies(jss) /\ IsReplies(answers) /\ Len(answers) = Len(jss)
    /\ jsAccInfos \in [DOMAIN jsAccInfos -> DOMAIN jss]
    /\ DOMAIN jsAccInfos \subseteq Accounts
    /\ silent \in [Pairs -> 0..(ZeroConnSkip + 1)]
    /\ seen \subseteq Pairs

\* The collector starts with replies that it is given (each from a server of its
\* own), or with none.
Init ==
    /\ numServers \in NumServers
    /\ \/ phase = "idle" /\ stage = "send" /\ res = <<>> /\ accStats = {}
       \/ /\ phase = "given" /\ stage = "read"
          /\ \E n \in 0..Cardinality(Servers) :
               res \in {r \in [1..n -> Servers] : IsInjective(r)}
          /\ accStats \in SUBSET Pairs
    /\ coming = {} /\ msgsChan = <<>> /\ stuck = NoServer /\ answered = {}
    /\ accepted = 0
    /\ zeroConn = [p \in Pairs |-> 0] /\ silent = [p \in Pairs |-> 0]
    /\ seen = {}
    /\ jss = <<>> /\ jsAccInfos = Empty /\ answers = <<>>

-----------------------------------------------------------------------------
(* requestMany                                                             *)

\* The survey goes on with one of these, as configured, and ends with "build".
Following(p) ==
    CASE p = "idle"     -> {"gatewayz", "raftz", "accounts"}
      [] p = "gatewayz" -> {"raftz", "accounts", "build"}
      [] p = "raftz"    -> {"accounts", "build"}
      [] p = "accounts" -> {"jsz"}
      [] p \in Kept     -> {"build"}

Begin ==
    /\ phase = "idle"
    /\ phase' \in Following("idle")
    /\ UNCHANGED <<numServers, stage, requestVars, res, accepted, accountVars, jszVars>>

Send ==
    /\ phase \in Kinds /\ stage = "send"
    /\ coming' \in SUBSET Servers
    /\ answered' = coming'
    /\ stage' = "receive"
    /\ UNCHANGED <<numServers, phase, msgsChan, stuck, res, accepted, accountVars, jszVars>>

\* It cannot be published, or there are no responders: the error is logged and
\* no reply is read.
SendFails ==
    /\ phase \in Kinds /\ stage = "send"
    /\ stage' = "read"
    /\ UNCHANGED <<numServers, phase, requestVars, res, accepted, accountVars, jszVars>>

\* Mutant: the channel has no buffer.
HasRoomUnbuffered == FALSE

HasRoom == Len(msgsChan) < ChanSize

\* The callback puts a reply into the channel, or blocks on it, while the
\* subscription is there.
Callback(s) ==
    /\ stage \in {"receive", "leave"}
    /\ s \in coming /\ stuck = NoServer
    /\ coming' = coming \ {s}
    /\ IF HasRoom THEN msgsChan' = Append(msgsChan, s) /\ UNCHANGED stuck
                  ELSE stuck' = s /\ UNCHANGED msgsChan
    /\ UNCHANGED <<numServers, phase, stage, answered, res, accepted, accountVars, jszVars>>

CallbackResumes ==
    /\ stuck # NoServer /\ HasRoom
    /\ msgsChan' = Append(msgsChan, stuck)
    /\ stuck' = NoServer
    /\ UNCHANGED <<numServers, phase, stage, coming, answered, res, accepted,
                   accountVars, jszVars>>

\* Mutant: as many as are expected are not enough.
FullLate(n) == numServers # -1 /\ n > numServers

Full(n) == numServers # -1 /\ n = numServers

Receive ==
    /\ stage = "receive" /\ msgsChan # <<>>
    /\ res' = Append(res, Head(msgsChan))
    /\ msgsChan' = Tail(msgsChan)
    /\ stage' = IF Full(Len(res')) THEN "leave" ELSE "receive"
    /\ UNCHANGED <<numServers, phase, coming, stuck, answered, accepted, accountVars, jszVars>>

\* One of the two timers; select may prefer it to a reply that is there.
Timeout ==
    /\ stage = "receive"
    /\ stage' = "leave"
    /\ UNCHANGED <<numServers, phase, requestVars, res, accepted, accountVars, jszVars>>

\* What has not been taken is lost; a callback that finds no room stays blocked.
Unsubscribe ==
    /\ stage = "leave"
    /\ coming' = {} /\ msgsChan' = <<>> /\ stuck' = NoServer /\ answered' = {}
    /\ stage' = "read"
    /\ UNCHANGED <<numServers, phase, res, accepted, accountVars, jszVars>>

-----------------------------------------------------------------------------
(* Reading the replies                                                     *)

Reading(kinds) == phase \in kinds /\ stage = "read" /\ res # <<>>

\* The head of res is done with; enough good replies end the reading.
Accept ==
    /\ accepted' = accepted + 1
    /\ res' = IF phase # "given" /\ Full(accepted') THEN <<>> ELSE Tail(res)
    /\ UNCHANGED <<numServers, phase, stage, requestVars>>

\* The reply cannot be unmarshalled, or reports an error; or a given one is empty.
ReadBad ==
    /\ Reading(Kinds \cup {"given"})
    /\ res' = Tail(res)
    /\ UNCHANGED <<numServers, phase, stage, requestVars, accepted, accountVars, jszVars>>

ReadPlain ==
    /\ Reading({"gatewayz", "raftz"})
    /\ Accept
    /\ UNCHANGED <<accountVars, jszVars>>

\* The counter of a pair after a report.  Mutants: connections do not reset it; it
\* goes past its limit.
CountedForEver(p, conns) ==
    IF conns = 0 /\ zeroConn[p] < ZeroConnSkip THEN zeroConn[p] + 1 ELSE zeroConn[p]

CountedPast(p, conns) == IF conns > 0 THEN 0 ELSE zeroConn[p] + 1

Counted(p, conns) ==
    CASE conns > 0 -> 0
      [] conns = 0 /\ zeroConn[p] < ZeroConnSkip -> zeroConn[p] + 1
      [] OTHER -> zeroConn[p]

Skipped(p, conns) == conns = 0 /\ zeroConn[p] >= ZeroConnSkip

\* The reply has the number of connections, none or some, of some accounts.
ReadAccounts ==
    /\ Reading({"accounts"})
    /\ Accept
    /\ \E accounts \in SUBSET Accounts : \E conns \in [{Head(res)} \X accounts -> {0, 1}] :
         LET told == DOMAIN conns
         IN  /\ zeroConn' = [p \in Pairs |-> IF p \in told THEN Counted(p, conns[p]) ELSE zeroConn[p]]
             /\ accStats' = accStats \cup {p \in told : ~Skipped(p, conns[p])}
             /\ seen' = seen \cup told
             /\ silent' = [p \in Pairs |->
                             CASE p \in told /\ conns[p] > 0 -> 0
                               [] p \in told /\ conns[p] = 0 /\ silent[p] =< ZeroConnSkip -> silent[p] + 1
                               [] OTHER -> silent[p]]
    /\ UNCHANGED jszVars

\* mergeStreamConsumers: one after the other, what "to" does not have yet is
\* appended.  Mutant: all of it is.
AddOne(x, to) == IF x.name \in Names(to) THEN to ELSE Append(to, x)

AddedAgain(from, to) == to \o from

Added(from, to) ==
    LET after[n \in 0..Len(from)] == IF n = 0 THEN to ELSE AddOne(from[n], after[n - 1])
    IN  after[Len(from)]

MergeStreamConsumers(from, to) == Added(from, to)

\* Mutant: the consumers of a stream that both have are not merged.
MergeStreamDetailsAlone(from, to) == Added(from, to)

\* Mutant: what was merged before is kept, the newer details are added to it.
MergeStreamDetailsInto(from, to) == Added(to, from)

\* mergeStreamDetails merges the consumers of a stream that "to" has.
MergeOne(x, to) ==
    IF x.name \in Names(to)
      THEN [i \in DOMAIN to |->
              IF to[i].name = x.name
                THEN [to[i] EXCEPT !.consumers = MergeStreamConsumers(x.consumers, @)]
                ELSE to[i]]
      ELSE Append(to, x)

MergeStreamDetails(from, to) ==
    LET after[n \in 0..Len(from)] == IF n = 0 THEN to ELSE MergeOne(from[n], after[n - 1])
    IN  after[Len(from)]

\* The streams of the details carry the server that reported them.
Reported(streams, s) ==
    [i \in DOMAIN streams |->
       [streams[i] EXCEPT !.origin = s,
                          !.consumers = [j \in DOMAIN @ |-> [@[j] EXCEPT !.origin = s]]]]

ReadJsz ==
    /\ Reading(Kept)
    /\ Accept
    /\ \E accounts \in SUBSET Accounts : \E told \in [accounts -> Details] :
         LET s == Head(res)
             own == [a \in accounts |-> Reported(told[a], s)]
             merged == [a \in accounts |->
                          IF a \in DOMAIN jsAccInfos
                            THEN MergeStreamDetails(jss[jsAccInfos[a]].details[a], own[a])
                            ELSE own[a]]
         IN  /\ jss' = Append(jss, [server |-> s, details |-> merged])
             /\ answers' = Append(answers, [server |-> s, details |-> own])
             /\ jsAccInfos' = [a \in accounts \cup DOMAIN jsAccInfos |->
                                 IF a \in accounts THEN Len(jss') ELSE jsAccInfos[a]]
    /\ UNCHANGED accountVars

\* "jetstream not enabled": getJSInfos returns with nothing.
ReadNotEnabled ==
    /\ Reading({"jsz"})
    /\ jss' = <<>> /\ jsAccInfos' = Empty /\ answers' = <<>>
    /\ res' = <<>>
    /\ UNCHANGED <<numServers, phase, stage, requestVars, accepted, accountVars>>

\* All is read; the result is published and the survey goes on.
Finish ==
    /\ phase \in Kinds \cup {"given"} /\ stage = "read" /\ res = <<>>
    /\ phase' \in Following(phase)
    /\ stage' = "send"
    /\ accepted' = 0
    /\ seen' = {}
    /\ UNCHANGED <<numServers, requestVars, res, zeroConn, accStats, silent, jszVars>>

\* Collect exports what there is, and nothing reads it before the next survey
\* has replaced it.
Build ==
    /\ phase = "build"
    /\ phase' = "idle"
    /\ accStats' = {}
    /\ jss' = <<>> /\ jsAccInfos' = Empty /\ answers' = <<>>
    /\ UNCHANGED <<numServers, stage, requestVars, res, accepted, zeroConn, silent, seen>>

Next ==
    \/ Begin \/ Send \/ SendFails
    \/ \E s \in coming : Callback(s)
    \/ CallbackResumes \/ Receive \/ Timeout \/ Unsubscribe
    \/ ReadBad \/ ReadPlain \/ ReadAccounts \/ ReadJsz \/ ReadNotEnabled
    \/ Finish \/ Build

Spec == Init /\ [][Next]_vars

-----------------------------------------------------------------------------
(* What Collect exports of streams and consumers                           *)

\* A series of a stream: the reply, the account and the place in its details;
\* and one of a consumer: its place in such a stream.
StreamCells ==
    UNION {UNION {{<<k, a, i>> : i \in DOMAIN jss[k].details[a]} : a \in DOMAIN jss[k].details} :
             k \in DOMAIN jss}

\* The streams that an account's metrics count and sum up.
AccountStreams(a) == jss[jsAccInfos[a]].details[a]

Stream(c) == jss[c[1]].details[c[2]][c[3]]
Server(c) == jss[c[1]].server

ConsumerCells == UNION {{<<c, j>> : j \in DOMAIN Stream(c).consumers} : c \in StreamCells}

Consumer(q) == Stream(q[1]).consumers[q[2]]

StreamLabels(c) == <<c[2], Server(c), Stream(c).name, Stream(c).leader>>
ConsumerLabels(q) == <<StreamLabels(q[1]), Consumer(q).name, Consumer(q).leader>>

Shown(leadersOnly, server, leader) == ~leadersOnly \/ server = leader

StreamSeries(leadersOnly) ==
    {c \in StreamCells : Shown(leadersOnly, Server(c), Stream(c).leader)}

\* Mutant: the consumers go with their stream.
ConsumerSeriesOfStreams(leadersOnly) ==
    {q \in ConsumerCells : q[1] \in StreamSeries(leadersOnly)}

ConsumerSeries(leadersOnly) ==
    {q \in ConsumerCells : Shown(leadersOnly, Server(q[1]), Consumer(q).leader)}

-----------------------------------------------------------------------------
(* What the requests guarantee.                                            *)

\* No more replies are gathered and read than servers are expected, however
\* many answer: requestMany stops at that number, and so does the reading.
AsExpected == (phase \in Kinds /\ numServers # -1) => accepted + Len(res) =< numServers

\* The callback of requestMany is blocked, which it stays for ever when the
\* request ends, only if more servers answer than were waited for and the
\* channel holds.
BlockedByExcess ==
    (stage = "leave" /\ stuck # NoServer /\ ~HasRoom) =>
        Cardinality(answered) > Len(res) + ChanSize

\* A server and account without connections are left out of the survey after
\* ZeroConnSkip surveys that report none, not before, and until one reports some;
\* surveys in which the server is not heard of count for nothing.
LeftOutWhenSilent == \A p \in seen : p \in accStats <=> silent[p] =< ZeroConnSkip

Told(a) == {k \in DOMAIN answers : a \in DOMAIN answers[k].details}

ToldStreams(a) == UNION {Range(answers[k].details[a]) : k \in Told(a)}

\* The details that stand for an account have each stream that any server has
\* reported of it, once, with each consumer that any has reported of that stream.
MergedIsUnion ==
    /\ DOMAIN jsAccInfos = {a \in Accounts : Told(a) # {}}
    /\ \A a \in DOMAIN jsAccInfos :
         LET merged == AccountStreams(a)
         IN  /\ Distinct(merged)
             /\ Names(merged) = {x.name : x \in ToldStreams(a)}
             /\ \A x \in Range(merged) :
                  /\ Distinct(x.consumers)
                  /\ Names(x.consumers) =
                       UNION {Names(y.consumers) : y \in {z \in ToldStreams(a) : z.name = x.name}}

\* No two series have the same labels, though the merge puts streams of other
\* servers into a server's details: Prometheus fails a scrape that has such two.
SeriesAreDistinct ==
    phase = "build" =>
        /\ IsInjective([c \in StreamCells |-> StreamLabels(c)])
        /\ IsInjective([q \in ConsumerCells |-> ConsumerLabels(q)])

\* What a server says of its own streams is exported under its name, whatever
\* the servers before it have said of them.
OwnValuesExported ==
    phase = "build" =>
        \A k \in DOMAIN answers : \A a \in DOMAIN answers[k].details :
            \A x \in Range(answers[k].details[a]) :
                \E c \in StreamSeries(FALSE) :
                    /\ StreamLabels(c) = <<a, answers[k].server, x.name, x.leader>>
                    /\ Stream(c).origin = answers[k].server
                    /\ Range(x.consumers) \subseteq Range(Stream(c).consumers)

\* With leaders only, a server's consumer that it leads is exported under its
\* name even where another server leads the stream.
LeadersExported ==
    phase = "build" =>
        \A k \in DOMAIN answers : \A a \in DOMAIN answers[k].details :
            \A x \in Range(answers[k].details[a]) : \A y \in Range(x.consumers) :
                y.leader = answers[k].server =>
                    \E q \in ConsumerSeries(TRUE) :
                        ConsumerLabels(q) = <<<<a, y.leader, x.name, x.leader>>, y.name, y.leader>>
=============================================================================
