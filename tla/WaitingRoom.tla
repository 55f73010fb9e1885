---------------------------- MODULE WaitingRoom ----------------------------
(***************************************************************************)
(* The waiting room before the seat page. POST /queue/join hands out a     *)
(* number (INCR seq) and stands the user in line (ZADD queue); the         *)
(* dispatcher moves the first of each active line to work-stream;          *)
(* admission workers turn stream entries into admission tokens; a page     *)
(* that was told to wait polls until its token is there. POST /booking-    *)
(* requests can be set to demand the token; a page turned away there joins *)
(* again.                                                                  *)
(*                                                                         *)
(* All shared state is in Redis, where a command or a Lua script is one    *)
(* atomic step; each handler and each loop takes one step per command.     *)
(***************************************************************************)
EXTENDS Naturals, Sequences, FiniteSets

CONSTANTS
    Visits,      \* visits to a seat page, each of which joins once
    Users, Rooms,\* a room is a performance and a show date
    Dispatchers, \* a rolling update runs two for a while
    Workers,     \* admission workers
    Rate,        \* max(1, int(ADMISSION_RATE * TICK_SECONDS))
    BatchSize,   \* ADMISSION_BATCH
    Enforce,     \* ENFORCE_ADMISSION_TOKEN
    MaxNumber,   \* bound: a page turned away joins again below this number
    Null,        \* nobody has come
    Faults       \* what may fail, a subset of AllFaults

AllFaults ==
    { "api",     \* a join stops between two commands
      "redis",   \* a command of a dispatcher or worker raises
      "reply",   \* the reply of an XREADGROUP is lost
      "crash",   \* an admission worker is killed
      "expire" } \* keys reach their TTL

ASSUME RoomAssumption ==
    /\ Rate \in Nat \ {0}
    /\ BatchSize \in Nat \ {0}
    /\ Enforce \in BOOLEAN /\ MaxNumber \in Nat
    /\ Null \notin [user : Users, room : Rooms]
    /\ IsFiniteSet(Users)
    /\ Faults \subseteq AllFaults

VARIABLES
    line,    \* queue:{room}, a ZSET: the number of each member, 0 for others
    seq,     \* seq:{room}, the last number handed out
    active,  \* the set active-queues
    ttl,     \* of each room, its keys that have a TTL, first to expire first
    torn,    \* history: the rooms whose counter expired in the middle of a join
    stream, lastId, pel, \* work-stream, its group's last id and pending ids
    tokens,  \* the keys token:{room}:{user}
    who,     \* who a visit is by, and to which room
    at,      \* where its page, or its join handler, stands
    number,  \* the number its handler has drawn
    dpc, todo, room,  \* of each dispatcher: place, rooms left, current room
    wpc, batch        \* of each worker: place, stream ids left of its batch

lineVars   == <<line, seq, active, ttl, torn>>
streamVars == <<stream, lastId, pel>>
pageVars   == <<who, at, number>>
dispVars   == <<dpc, todo, room>>
workerVars == <<wpc, batch>>
vars == <<lineVars, streamVars, tokens, pageVars, dispVars, workerVars>>

Entry  == [user : Users, room : Rooms]
\* The next command of queue_join, in order.
InJoin == {"zscore", "incr", "zadd", "sadd", "expire_line", "expire_seq", "zrank"}
InLine(q)  == {u \in Users : line[q][u] # 0}
User(v)    == who[v].user
Room(v)    == who[v].room
\* A user has been taken from the line and has not been given a token yet.
InFlight(e) == \E i \in DOMAIN stream : stream[i] = e /\ (lastId < i \/ i \in pel)

TypeOK ==
    /\ line \in [Rooms -> [Users -> Nat]]
    /\ seq \in [Rooms -> Nat]
    /\ active \subseteq Rooms
    /\ ttl \in [Rooms -> {<<>>, <<"line">>, <<"seq">>, <<"line", "seq">>, <<"seq", "line">>}]
    /\ torn \subseteq Rooms
    /\ stream \in Seq(Entry)
    /\ lastId \in 0..Len(stream)
    /\ pel \subseteq 1..lastId
    /\ tokens \subseteq Entry
    /\ who \in [Visits -> Entry \cup {Null}]
    /\ at \in [Visits -> {"away", "waiting", "in", "lost", "booked"} \cup InJoin]
    /\ number \in [Visits -> Nat]
    /\ dpc \in [Dispatchers -> {"idle", "serve", "zcard", "srem"}]
    /\ todo \in [Dispatchers -> SUBSET Rooms]
    /\ room \in [Dispatchers -> Rooms]
    /\ wpc \in [Workers -> {"idle", "issue", "ack", "down"}]
    /\ batch \in [Workers -> Seq(Nat)]

Init ==
    /\ line = [q \in Rooms |-> [u \in Users |-> 0]]
    /\ seq = [q \in Rooms |-> 0]
    /\ active = {}
    /\ ttl = [q \in Rooms |-> <<>>]
    /\ torn = {}
    /\ stream = <<>>
    /\ lastId = 0
    /\ pel = {}
    /\ tokens = {}
    /\ who = [v \in Visits |-> Null]
    /\ at = [v \in Visits |-> "away"]
    /\ number = [v \in Visits |-> 0]
    /\ dpc = [d \in Dispatchers |-> "idle"]
    /\ todo = [d \in Dispatchers |-> {}]
    /\ room \in [Dispatchers -> Rooms]
    /\ wpc = [w \in Workers |-> "idle"]
    /\ batch = [w \in Workers |-> <<>>]

-----------------------------------------------------------------------------
(* POST /queue/join, one action per Redis command.                         *)

Goto(v, label) == at' = [at EXCEPT ![v] = label]

\* With a token from an earlier visit there is no need to stand in line.
Visit(v, e) ==
    /\ at[v] = "away"
    /\ who' = [who EXCEPT ![v] = e]
    /\ Goto(v, IF e \in tokens THEN "in" ELSE "zscore")
    /\ UNCHANGED <<lineVars, streamVars, tokens, number, dispVars, workerVars>>

ZScore(v) ==
    /\ at[v] = "zscore"
    /\ Goto(v, IF User(v) \in InLine(Room(v)) THEN "expire_line" ELSE "incr")
    /\ UNCHANGED <<lineVars, streamVars, tokens, who, number, dispVars, workerVars>>

Incr(v) ==
    /\ at[v] = "incr"
    /\ seq' = [seq EXCEPT ![Room(v)] = @ + 1]
    /\ number' = [number EXCEPT ![v] = seq[Room(v)] + 1]
    /\ Goto(v, "zadd")
    /\ UNCHANGED <<line, active, ttl, torn, streamVars, tokens, who, dispVars, workerVars>>

\* NX: a user whom another visit has put in line meanwhile stays there.
ZAdd(v) ==
    /\ at[v] = "zadd"
    /\ line' = IF User(v) \in InLine(Room(v)) THEN line
               ELSE [line EXCEPT ![Room(v)][User(v)] = number[v]]
    /\ Goto(v, "sadd")
    /\ UNCHANGED <<seq, active, ttl, torn, streamVars, tokens, who, number, dispVars, workerVars>>

SAdd(v) ==
    /\ at[v] = "sadd"
    /\ active' = active \cup {Room(v)}
    /\ Goto(v, "expire_line")
    /\ UNCHANGED <<line, seq, ttl, torn, streamVars, tokens, who, number, dispVars, workerVars>>

HasTTL(q, key) == \E i \in DOMAIN ttl[q] : ttl[q][i] = key
\* What is left of the two keys' order without one of them: the other, if it has a TTL.
Without(q, key) == LET other == IF key = "line" THEN "seq" ELSE "line"
                   IN  IF HasTTL(q, other) THEN <<other>> ELSE <<>>

\* EXPIRE of a key that is not there does nothing.
ExpireLine(v) ==
    /\ at[v] = "expire_line"
    /\ ttl' = IF InLine(Room(v)) = {} THEN ttl
              ELSE [ttl EXCEPT ![Room(v)] = Append(Without(Room(v), "line"), "line")]
    /\ Goto(v, "expire_seq")
    /\ UNCHANGED <<line, seq, active, torn, streamVars, tokens, who, number, dispVars, workerVars>>

\* Mutant: the counter's TTL is not renewed once it has one.
ExpireSeqOnce(v) ==
    /\ at[v] = "expire_seq"
    /\ ttl' = IF seq[Room(v)] = 0 \/ Without(Room(v), "line") # <<>> THEN ttl
              ELSE [ttl EXCEPT ![Room(v)] = Append(@, "seq")]
    /\ Goto(v, "zrank")
    /\ UNCHANGED <<line, seq, active, torn, streamVars, tokens, who, number, dispVars, workerVars>>

ExpireSeq(v) ==
    /\ at[v] = "expire_seq"
    /\ ttl' = IF seq[Room(v)] = 0 THEN ttl
              ELSE [ttl EXCEPT ![Room(v)] = Append(Without(Room(v), "seq"), "seq")]
    /\ Goto(v, "zrank")
    /\ UNCHANGED <<line, seq, active, torn, streamVars, tokens, who, number, dispVars, workerVars>>

\* ZRANK and ZCARD are for display: the answer is "not admitted" whatever the
\* rank, a user taken from the line meanwhile included.
AnswerJoin(v) ==
    /\ at[v] = "zrank"
    /\ Goto(v, "waiting")
    /\ UNCHANGED <<lineVars, streamVars, tokens, who, number, dispVars, workerVars>>

\* The handler stops, or a command raises.  The page takes a failed join for
\* an open door ("catch" without a body) and shows the seats.
JoinFails(v) ==
    /\ "api" \in Faults
    /\ at[v] \in InJoin
    /\ Goto(v, "lost")
    /\ UNCHANGED <<lineVars, streamVars, tokens, who, number, dispVars, workerVars>>

\* GET /queue/status every two seconds: only the token counts.
Poll(v) ==
    /\ at[v] = "waiting"
    /\ who[v] \in tokens
    /\ Goto(v, "in")
    /\ UNCHANGED <<lineVars, streamVars, tokens, who, number, dispVars, workerVars>>

\* Mutant: whoever sees the seats may book.
BookUngated(v) ==
    /\ at[v] \in {"in", "lost"}
    /\ Goto(v, "booked")
    /\ UNCHANGED <<lineVars, streamVars, tokens, who, number, dispVars, workerVars>>

\* POST /booking-requests from the seat page.
Book(v) ==
    /\ at[v] \in {"in", "lost"}
    /\ Enforce => who[v] \in tokens
    /\ Goto(v, "booked")
    /\ UNCHANGED <<lineVars, streamVars, tokens, who, number, dispVars, workerVars>>

\* 403: the token has expired or was never issued, and the page joins again.
TurnedAway(v) ==
    /\ Enforce
    /\ at[v] \in {"in", "lost"}
    /\ who[v] \notin tokens
    /\ seq[Room(v)] < MaxNumber
    /\ Goto(v, "zscore")
    /\ UNCHANGED <<lineVars, streamVars, tokens, who, number, dispVars, workerVars>>

-----------------------------------------------------------------------------
(* The dispatcher's tick.                                                  *)

\* SMEMBERS: the rooms of this tick.
Tick(d) ==
    /\ dpc[d] = "idle"
    /\ active # {}
    /\ todo' = [todo EXCEPT ![d] = active]
    /\ dpc' = [dpc EXCEPT ![d] = "serve"]
    /\ UNCHANGED <<lineVars, streamVars, tokens, pageVars, room, workerVars>>

\* What ZPOPMIN may return: the lowest numbers, in order.  Equal numbers (the
\* counter has restarted) may come in either order.
Firsts(q) ==
    LET waiting == Cardinality(InLine(q))
        n == IF waiting < Rate THEN waiting ELSE Rate
    IN  {p \in [1..n -> InLine(q)] :
            /\ \A i, j \in 1..n : i < j => p[i] # p[j] /\ line[q][p[i]] <= line[q][p[j]]
            /\ \A i \in 1..n, u \in InLine(q) :
                  (\A j \in 1..n : p[j] # u) => line[q][p[i]] <= line[q][u]}

\* A ZSET without members is no key, and has no TTL.
Leave(q, p) ==
    LET left == InLine(q) \ {p[i] : i \in DOMAIN p} IN
    /\ line' = [line EXCEPT ![q] = [u \in Users |-> IF u \in left THEN @[u] ELSE 0]]
    /\ ttl' = IF left = {} THEN [ttl EXCEPT ![q] = Without(q, "line")] ELSE ttl

\* Mutant: the dispatcher pops and appends by two commands, and an exception
\* between the two loses the users it has popped.
HandOffInTwo(d, q) ==
    /\ dpc[d] = "serve"
    /\ q \in todo[d]
    /\ \E p \in Firsts(q) :
          /\ Leave(q, p)
          /\ \/ stream' = stream \o [i \in DOMAIN p |-> [user |-> p[i], room |-> q]]
             \/ stream' = stream
    /\ room' = [room EXCEPT ![d] = q]
    /\ dpc' = [dpc EXCEPT ![d] = "zcard"]
    /\ UNCHANGED <<seq, active, torn, lastId, pel, tokens, pageVars, todo, workerVars>>

\* DISPATCH_LUA: ZPOPMIN and XADD in one script.
HandOff(d, q) ==
    /\ dpc[d] = "serve"
    /\ q \in todo[d]
    /\ \E p \in Firsts(q) :
          /\ Leave(q, p)
          /\ stream' = stream \o [i \in DOMAIN p |-> [user |-> p[i], room |-> q]]
    /\ room' = [room EXCEPT ![d] = q]
    /\ dpc' = [dpc EXCEPT ![d] = "zcard"]
    /\ UNCHANGED <<seq, active, torn, lastId, pel, tokens, pageVars, todo, workerVars>>

NextRoom(d) ==
    /\ todo' = [todo EXCEPT ![d] = @ \ {room[d]}]
    /\ dpc' = [dpc EXCEPT ![d] = IF todo[d] \subseteq {room[d]} THEN "idle" ELSE "serve"]

ZCard(d) ==
    /\ dpc[d] = "zcard"
    /\ IF InLine(room[d]) = {}
       THEN dpc' = [dpc EXCEPT ![d] = "srem"] /\ UNCHANGED todo
       ELSE NextRoom(d)
    /\ UNCHANGED <<lineVars, streamVars, tokens, pageVars, room, workerVars>>

\* Whoever has joined since the ZCARD is in line of an inactive room.
SRem(d) ==
    /\ dpc[d] = "srem"
    /\ active' = active \ {room[d]}
    /\ NextRoom(d)
    /\ UNCHANGED <<line, seq, ttl, torn, streamVars, tokens, pageVars, room, workerVars>>

\* An exception ends the tick; the next one starts over.  So does a restart.
TickFails(d) ==
    /\ "redis" \in Faults
    /\ dpc[d] # "idle"
    /\ dpc' = [dpc EXCEPT ![d] = "idle"]
    /\ todo' = [todo EXCEPT ![d] = {}]
    /\ UNCHANGED <<lineVars, streamVars, tokens, pageVars, room, workerVars>>

-----------------------------------------------------------------------------
(* Admission workers: at least once, by claiming what was left pending.    *)

\* Mutant: the count asked for is taken for the count received.
DeliverPastEnd ==
    /\ lastId < Len(stream)
    /\ lastId' = lastId + BatchSize
    /\ pel' = pel \cup (lastId + 1)..lastId'
    /\ UNCHANGED stream

Deliver ==
    LET last == IF Len(stream) < lastId + BatchSize THEN Len(stream) ELSE lastId + BatchSize IN
    /\ lastId < Len(stream)
    /\ lastId' = last
    /\ pel' = pel \cup (lastId + 1)..last
    /\ UNCHANGED stream

ReadBatch(w) ==
    /\ wpc[w] = "idle"
    /\ Deliver
    /\ batch' = [batch EXCEPT ![w] = [i \in 1..(lastId' - lastId) |-> lastId + i]]
    /\ wpc' = [wpc EXCEPT ![w] = "issue"]
    /\ UNCHANGED <<lineVars, tokens, pageVars, dispVars>>

ReadReplyLost(w) ==
    /\ "reply" \in Faults
    /\ wpc[w] = "idle"
    /\ Deliver
    /\ UNCHANGED <<lineVars, tokens, pageVars, dispVars, workerVars>>

Id(w) == Head(batch[w])

\* On to the next entry, or back to the loop.
NextEntry(w) ==
    /\ batch' = [batch EXCEPT ![w] = Tail(@)]
    /\ wpc' = [wpc EXCEPT ![w] = IF Len(batch[w]) = 1 THEN "idle" ELSE "issue"]

IssueToken(w) ==
    /\ wpc[w] = "issue"
    /\ tokens' = tokens \cup {stream[Id(w)]}
    /\ wpc' = [wpc EXCEPT ![w] = "ack"]
    /\ UNCHANGED <<lineVars, streamVars, pageVars, dispVars, batch>>

\* "continue" without XACK: the entry stays pending.  A command that raises may
\* have been carried out, its reply lost.
IssueFails(w) ==
    /\ "redis" \in Faults
    /\ wpc[w] = "issue"
    /\ tokens' \in {tokens, tokens \cup {stream[Id(w)]}}
    /\ NextEntry(w)
    /\ UNCHANGED <<lineVars, streamVars, pageVars, dispVars>>

Ack(w) ==
    /\ wpc[w] = "ack"
    /\ pel' = pel \ {Id(w)}
    /\ NextEntry(w)
    /\ UNCHANGED <<lineVars, stream, lastId, tokens, pageVars, dispVars>>

\* An XACK that raises ends the loop's turn, with the rest of the batch.
AckFails(w) ==
    /\ "redis" \in Faults
    /\ wpc[w] = "ack"
    /\ pel' \in {pel, pel \ {Id(w)}}
    /\ batch' = [batch EXCEPT ![w] = <<>>]
    /\ wpc' = [wpc EXCEPT ![w] = "idle"]
    /\ UNCHANGED <<lineVars, stream, lastId, tokens, pageVars, dispVars>>

\* Mutant: only what was never delivered is read.
ClaimsNothing == {}

\* What XAUTOCLAIM may claim: entries idle for 30 s, left by a dead worker or
\* held by a slow one, up to a batch of them, by id.
Claims ==
    {ids \in UNION {[1..n -> pel] : n \in 1..BatchSize} :
        \A i, j \in DOMAIN ids : i < j => ids[i] < ids[j]}

Reclaim(w, ids) ==
    /\ wpc[w] = "idle"
    /\ ids \in Claims
    /\ batch' = [batch EXCEPT ![w] = ids]
    /\ wpc' = [wpc EXCEPT ![w] = "issue"]
    /\ UNCHANGED <<lineVars, streamVars, tokens, pageVars, dispVars>>

Crash(w) ==
    /\ "crash" \in Faults
    /\ wpc[w] # "down"
    /\ batch' = [batch EXCEPT ![w] = <<>>]
    /\ wpc' = [wpc EXCEPT ![w] = "down"]
    /\ UNCHANGED <<lineVars, streamVars, tokens, pageVars, dispVars>>

Restart(w) ==
    /\ wpc[w] = "down"
    /\ wpc' = [wpc EXCEPT ![w] = "idle"]
    /\ UNCHANGED <<lineVars, streamVars, tokens, pageVars, dispVars, batch>>

-----------------------------------------------------------------------------
(* Keys expire an hour after the last EXPIRE of their room, tokens after   *)
(* ten minutes: at any moment, also between two commands of the join that  *)
(* was about to renew the TTL.                                             *)

\* A join of room q has drawn its number and has not renewed the counter's TTL.
HalfWay(q) ==
    \E v \in Visits : at[v] \in {"zadd", "sadd", "expire_line", "expire_seq"} /\ Room(v) = q

\* The counter goes while a join is half-way; until a key expires with no join
\* half-way and leaves nobody in line, numbers of two countings meet in the room.
Tear(q, key) ==
    torn' = IF HalfWay(q)
            THEN torn \cup (IF key = "seq" THEN {q} ELSE {})
            ELSE torn \ (IF InLine(q)' = {} THEN {q} ELSE {})

ExpireKey(q) ==
    /\ "expire" \in Faults
    /\ ttl[q] # <<>>
    /\ ttl' = [ttl EXCEPT ![q] = Tail(@)]
    /\ IF Head(ttl[q]) = "line"
       THEN line' = [line EXCEPT ![q] = [u \in Users |-> 0]] /\ UNCHANGED seq
       ELSE seq' = [seq EXCEPT ![q] = 0] /\ UNCHANGED line
    /\ Tear(q, Head(ttl[q]))
    /\ UNCHANGED <<active, streamVars, tokens, pageVars, dispVars, workerVars>>

ExpireToken(e) ==
    /\ "expire" \in Faults
    /\ e \in tokens
    /\ tokens' = tokens \ {e}
    /\ UNCHANGED <<lineVars, streamVars, pageVars, dispVars, workerVars>>

-----------------------------------------------------------------------------
JoinStep(v) ==
    \/ ZScore(v) \/ Incr(v) \/ ZAdd(v) \/ SAdd(v)
    \/ ExpireLine(v) \/ ExpireSeq(v) \/ AnswerJoin(v) \/ Poll(v)

DispatcherStep(d) == Tick(d) \/ (\E q \in Rooms : HandOff(d, q)) \/ ZCard(d) \/ SRem(d)

WorkerStep(w) ==
    \/ ReadBatch(w) \/ IssueToken(w) \/ Ack(w)
    \/ \E ids \in Claims : Reclaim(w, ids)
    \/ Restart(w)

WorkerFault(w) == ReadReplyLost(w) \/ IssueFails(w) \/ AckFails(w) \/ Crash(w)

Next ==
    \/ \E v \in Visits : (\E e \in Entry : Visit(v, e)) \/ JoinStep(v) \/ JoinFails(v)
                      \/ Book(v) \/ TurnedAway(v)
    \/ \E d \in Dispatchers : DispatcherStep(d) \/ TickFails(d)
    \/ \E w \in Workers : WorkerStep(w) \/ WorkerFault(w)
    \/ \E q \in Rooms : ExpireKey(q)
    \/ \E e \in Entry : ExpireToken(e)

Spec == Init /\ [][Next]_vars

\* Workers go on, and there comes a time when Redis answers and no worker is
\* killed.
WorkerFairSpec ==
    /\ Spec
    /\ \A w \in Workers : WF_vars(WorkerStep(w))
    /\ <>[][\A w \in Workers : ~ WorkerFault(w)]_vars

FairSpec ==
    /\ WorkerFairSpec
    /\ \A v \in Visits : WF_vars(JoinStep(v))
    /\ \A d \in Dispatchers : WF_vars(DispatcherStep(d))

-----------------------------------------------------------------------------
\* Whoever queue_join tells to wait stands in line, is on the way through
\* work-stream, or has a token: no exception, dead worker or second visit of
\* the same user makes dispatcher or admission worker lose a user.
WaiterHasPlace ==
    \A v \in Visits : at[v] = "waiting" =>
        User(v) \in InLine(Room(v)) \/ InFlight(who[v]) \/ who[v] \in tokens

\* Nobody books who was not called up from the line for that very room, also not
\* from a page that shows the seats because its join has failed.
BookersWereCalled ==
    Enforce => \A v \in Visits : at[v] = "booked" => \E i \in DOMAIN stream : stream[i] = who[v]

\* Those who come before u: lower numbers in line, or drawn and on their way.
Ahead(q, u) ==
    {x \in InLine(q) \ {u} : line[q][x] <= line[q][u]} \cup
    {User(v) : v \in {x \in Visits : at[x] = "zadd" /\ Room(x) = q /\ number[x] <= line[q][u]}}

\* First come, first served, by the numbers of queue_join: once in line, a user
\* is never overtaken by one who draws a number later, reloads the page, or
\* comes after the line or the counter has reached its TTL.  The exception is a
\* room whose counter expired between a join's INCR and its EXPIRE: there the
\* next number is 1, and the code does let it overtake whoever stands in line.
NobodyCutsIn ==
    [][\A q \in Rooms \ torn : \A u \in InLine(q) \cap InLine(q)' :
            Ahead(q, u)' \subseteq Ahead(q, u)]_vars

\* Whoever the dispatcher calls up gets a token from the admission workers,
\* whatever exceptions, lost replies and kills they go through meanwhile.
CalledIsAdmitted == \A e \in Entry : InFlight(e) ~> e \in tokens

\* What the waiting page says: "Please wait a moment, you will be taken to the
\* booking page."
WaiterIsAdmitted == \A v \in Visits : at[v] = "waiting" ~> at[v] = "in"
=============================================================================
