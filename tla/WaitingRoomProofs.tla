------------------------- MODULE WaitingRoomProofs -------------------------
(***************************************************************************)
(* Proofs about WaitingRoom, for every set of visits, users, rooms,        *)
(* dispatchers and workers, every rate and batch size, and every choice of *)
(* what may fail, or the choices a theorem names.                          *)
(***************************************************************************)
EXTENDS WaitingRoom, FiniteSetTheorems, SequenceTheorems, TLAPS

\* A visit is by somebody as soon as its page has come.
VisitInv == \A v \in Visits : at[v] # "away" => who[v] \in Entry

\* A worker at work holds entries that were delivered.
BatchInv ==
    \A w \in Workers :
        /\ wpc[w] \in {"issue", "ack"} <=> batch[w] # <<>>
        /\ \A i \in 1..Len(batch[w]) : batch[w][i] \in 1..lastId

RoomInv == TypeOK /\ VisitInv /\ BatchInv

\* A token is only given for a stream entry.
TokensInv == \A e \in tokens : \E i \in 1..Len(stream) : stream[i] = e

\* An entry is acknowledged when its user has got a token.
AckInv == \A w \in Workers : wpc[w] = "ack" => stream[Id(w)] \in tokens

\* A number is drawn before it is put in line, and never 0.
NumberInv == \A v \in Visits : at[v] = "zadd" => number[v] # 0

HasPlace(e) == e.user \in InLine(e.room) \/ InFlight(e) \/ e \in tokens

\* From its ZADD, or the ZSCORE that found it, on, a joining user has a place.
PlaceInv ==
    \A v \in Visits :
        at[v] \in {"sadd", "expire_line", "expire_seq", "zrank", "waiting"} => HasPlace(who[v])

WaiterInv == RoomInv /\ AckInv /\ NumberInv /\ PlaceInv

\* The numbers in line and those drawn come from the counter as it is, but in
\* a room whose counter was torn off.
Counted(q) ==
    /\ \A u \in Users : line[q][u] <= seq[q]
    /\ \A v \in Visits : at[v] = "zadd" /\ Room(v) = q => number[v] \in 1..seq[q]

CounterInv == \A q \in Rooms \ torn : Counted(q)

\* A line is the first of its room to expire, or somebody is about to see to it.
LineFirst(q) ==
    \/ ttl[q] = <<"line", "seq">>
    \/ \E v \in Visits : at[v] \in {"sadd", "expire_line"} /\ Room(v) = q
    \/ HasTTL(q, "line") /\ \E v \in Visits : at[v] = "expire_seq" /\ Room(v) = q

ExpiryInv == \A q \in Rooms \ torn : InLine(q) # {} => LineFirst(q)

\* Without expiry a counter never starts again, whatever becomes of the TTLs.
FifoInv == RoomInv /\ CounterInv /\ ("expire" \in Faults => ExpiryInv)
-----------------------------------------------------------------------------
\* The line of a room is finite: whoever stands in it is a user.
LEMMA LineIsFinite ==
    ASSUME NEW q \in Rooms
    PROVE  IsFiniteSet(InLine(q)) /\ Cardinality(InLine(q)) \in Nat
<1>1. InLine(q) \in SUBSET Users
  BY DEF InLine
<1>2. IsFiniteSet(InLine(q))
  BY <1>1, FS_Subset, RoomAssumption
<1> QED
  BY <1>2, FS_CardinalityType

\* Sequences of one or two keys.
LEMMA KeySequences ==
    ASSUME NEW a, NEW b
    PROVE  /\ Append(<<>>, a) = <<a>>
           /\ Append(<<a>>, b) = <<a, b>>
           /\ Tail(<<a>>) = <<>>
           /\ Tail(<<a, b>>) = <<b>>
           /\ Head(<<a>>) = a /\ Head(<<a, b>>) = a
           /\ <<a>> # <<>> /\ <<a, b>> # <<>>
<1>1. Append(<<>>, a) = <<a>>
  OBVIOUS
<1>2. Append(<<a>>, b) = <<a, b>>
  <2> DEFINE S == {a, b}
             s == Append(<<a>>, b)
             t == <<a, b>>
  <2>1. <<a>> \in Seq(S) /\ b \in S /\ t \in Seq(S)
    OBVIOUS
  <2>2. s \in Seq(S) /\ Len(s) = 2 /\ s[1] = a /\ s[2] = b
    BY <2>1, AppendProperties
  <2>3. Len(t) = 2 /\ t[1] = a /\ t[2] = b
    OBVIOUS
  <2> HIDE DEF s, t, S
  <2>4. s = t
    BY <2>1, <2>2, <2>3, SeqEqual
  <2> QED
    BY <2>4 DEF s, t
<1>3. Tail(<<a>>) = <<>>
  OBVIOUS
<1>4. Tail(<<a, b>>) = <<b>>
  OBVIOUS
<1>5. Head(<<a>>) = a /\ Head(<<a, b>>) = a /\ <<a>> # <<>> /\ <<a, b>> # <<>>
  OBVIOUS
<1> QED
  BY <1>1, <1>2, <1>3, <1>4, <1>5

\* Two TTLs of a room, whichever was set last.
TTLs == {<<>>, <<"line">>, <<"seq">>, <<"line", "seq">>, <<"seq", "line">>}

\* Without takes a user out of a line and touches nothing else: of nobody does
\* the place or the order change who stays.
LEMMA WithoutFacts ==
    ASSUME TypeOK, NEW q \in Rooms, NEW key \in {"line", "seq"}
    PROVE  /\ Without(q, key) \in TTLs
           /\ Append(Without(q, key), key) \in TTLs
           /\ ttl[q] # <<>> => Tail(ttl[q]) \in TTLs
           /\ HasTTL(q, "line") => Append(Without(q, "seq"), "seq") = <<"line", "seq">>
<1>1. ttl[q] \in TTLs
  BY DEF TypeOK, TTLs
<1>2. Without(q, key) \in {<<>>, <<"line">>, <<"seq">>} /\ Without(q, key) # <<key>>
  BY DEF Without
<1>3. Append(Without(q, key), key) \in TTLs
  BY <1>2, KeySequences DEF TTLs
<1>4. ttl[q] # <<>> => Tail(ttl[q]) \in TTLs
  <2>1. CASE ttl[q] = <<"line">>
    BY <2>1, KeySequences DEF TTLs
  <2>2. CASE ttl[q] = <<"seq">>
    BY <2>2, KeySequences DEF TTLs
  <2>3. CASE ttl[q] = <<"line", "seq">>
    BY <2>3, KeySequences DEF TTLs
  <2>4. CASE ttl[q] = <<"seq", "line">>
    BY <2>4, KeySequences DEF TTLs
  <2> QED
    BY <1>1, <2>1, <2>2, <2>3, <2>4 DEF TTLs
<1>5. HasTTL(q, "line") => Append(Without(q, "seq"), "seq") = <<"line", "seq">>
  BY KeySequences DEF Without
<1> QED
  BY <1>2, <1>3, <1>4, <1>5 DEF TTLs

\* A key whose TTL is renewed has one.
LEMMA RenewedHasTTL ==
    ASSUME NEW q \in Rooms
    PROVE  \E i \in DOMAIN Append(Without(q, "line"), "line") :
              Append(Without(q, "line"), "line")[i] = "line"
<1>1. Append(Without(q, "line"), "line") \in {<<"line">>, <<"seq", "line">>}
  BY KeySequences DEF Without
<1>2. \A t \in {<<"line">>, <<"seq", "line">>} : \E i \in DOMAIN t : t[i] = "line"
  OBVIOUS
<1> QED
  BY <1>1, <1>2

\* Where the entries of two sequences are in their concatenation.
LEMMA Concatenated ==
    ASSUME NEW S, NEW s \in Seq(S), NEW t \in Seq(S), NEW c, c = s \o t
    PROVE  /\ c \in Seq(S) /\ Len(c) = Len(s) + Len(t) /\ Len(s) \in Nat
           /\ \A i \in 1..Len(s) : c[i] = s[i]
           /\ \A i \in 1..Len(t) : c[Len(s) + i] = t[i]
<1> DEFINE m == Len(s)
           n == Len(t)
<1>1. m \in Nat /\ n \in Nat
  BY LenProperties
<1>2. /\ c \in Seq(S) /\ Len(c) = m + n
      /\ \A i \in 1..(m + n) : c[i] = IF i <= m THEN s[i] ELSE t[i - m]
  BY ConcatProperties
<1> HIDE DEF m, n
<1>3. \A i \in 1..m : c[i] = s[i]
  BY <1>1, <1>2
<1>4. ASSUME NEW i \in 1..n
      PROVE  c[m + i] = t[i]
  <2>1. m + i \in 1..(m + n) /\ ~ (m + i <= m) /\ (m + i) - m = i
    BY <1>1
  <2> QED
    BY <1>2, <2>1
<1> QED
  BY <1>1, <1>2, <1>3, <1>4 DEF m, n

\* What the dispatcher's script does: who was popped is at the end of the
\* stream, who was not is still in line with the same number, and no other
\* room or stream entry is touched.
LEMMA HandOffFacts ==
    ASSUME TypeOK, NEW d \in Dispatchers, NEW q \in Rooms, HandOff(d, q)
    PROVE  /\ stream' \in Seq(Entry)
           /\ Len(stream) <= Len(stream')
           /\ \A i \in 1..Len(stream) : stream'[i] = stream[i]
           /\ line' \in [Rooms -> [Users -> Nat]]
           /\ \A x \in Rooms, u \in Users : line'[x][u] \in {0, line[x][u]}
           /\ \A x \in Rooms, u \in Users :
                 line'[x][u] # line[x][u] =>
                   \E i \in (Len(stream) + 1)..Len(stream') :
                      stream'[i] = [user |-> u, room |-> x]
           /\ ttl' = ttl \/ ((\A u \in Users : line'[q][u] = 0)
                              /\ ttl' = [ttl EXCEPT ![q] = Without(q, "line")])
<1>1. PICK p \in Firsts(q) :
        /\ Leave(q, p)
        /\ stream' = stream \o [i \in DOMAIN p |-> [user |-> p[i], room |-> q]]
  BY DEF HandOff
<1>2. PICK n \in Nat : p \in [1..n -> InLine(q)]
  BY LineIsFinite, RoomAssumption DEF Firsts
<1> DEFINE new == [i \in 1..n |-> [user |-> p[i], room |-> q]]
           left == InLine(q) \ {p[i] : i \in 1..n}
<1>3. new \in Seq(Entry) /\ Len(new) = n /\ stream' = stream \o new
  <2>1. DOMAIN p = 1..n /\ \A i \in 1..n : [user |-> p[i], room |-> q] \in Entry
    BY <1>2 DEF Entry, InLine
  <2> QED
    BY <1>1, <2>1
<1>4. line' = [line EXCEPT ![q] = [u \in Users |-> IF u \in left THEN line[q][u] ELSE 0]]
  BY <1>1, <1>2 DEF Leave
<1>5. ttl' = IF left = {} THEN [ttl EXCEPT ![q] = Without(q, "line")] ELSE ttl
  BY <1>1, <1>2 DEF Leave
<1> HIDE DEF new
<1>6. /\ stream' \in Seq(Entry)
      /\ Len(stream') = Len(stream) + n /\ Len(stream) \in Nat
      /\ \A i \in 1..Len(stream) : stream'[i] = stream[i]
      /\ \A i \in 1..n : stream'[Len(stream) + i] = new[i]
  <2>1. stream \in Seq(Entry) /\ new \in Seq(Entry)
    BY <1>3 DEF TypeOK
  <2>2. PICK c : c = stream \o new /\ stream' = c
    BY <1>3
  <2>3. /\ c \in Seq(Entry) /\ Len(c) = Len(stream) + Len(new) /\ Len(stream) \in Nat
        /\ \A i \in 1..Len(stream) : c[i] = stream[i]
        /\ \A i \in 1..Len(new) : c[Len(stream) + i] = new[i]
    BY <2>1, <2>2, Concatenated
  <2> QED
    BY <1>3, <2>2, <2>3
<1>7. /\ line' \in [Rooms -> [Users -> Nat]]
      /\ \A x \in Rooms \ {q} : line'[x] = line[x]
      /\ \A u \in left : line'[q][u] = line[q][u]
      /\ \A u \in Users \ left : line'[q][u] = 0
  BY <1>4 DEF TypeOK, InLine
<1>8. ASSUME NEW x \in Rooms, NEW u \in Users, line'[x][u] # line[x][u]
      PROVE  \E i \in (Len(stream) + 1)..Len(stream') :
                      stream'[i] = [user |-> u, room |-> x]
  <2>1. x = q /\ u \notin left /\ u \in InLine(q)
    BY <1>7, <1>8 DEF InLine, TypeOK
  <2>2. PICK i \in 1..n : p[i] = u
    BY <2>1
  <2>3. stream'[Len(stream) + i] = [user |-> u, room |-> x]
    BY <1>6, <2>1, <2>2 DEF new
  <2> QED
    BY <1>6, <2>3
<1>9. \A x \in Rooms, u \in Users : line'[x][u] \in {0, line[x][u]}
  BY <1>7
<1>10. left = {} => \A u \in Users : line'[q][u] = 0
  BY <1>7
<1> HIDE DEF left
<1> QED
  BY <1>2, <1>5, <1>6, <1>7, <1>8, <1>9, <1>10
-----------------------------------------------------------------------------
\* XREADGROUP delivers at least one entry, and all of the following ones up to
\* the new last id.
LEMMA DeliverFacts ==
    ASSUME TypeOK, Deliver
    PROVE  /\ lastId' \in (lastId + 1)..Len(stream)
           /\ pel' = pel \cup (lastId + 1)..lastId'
           /\ pel' \subseteq 1..lastId'
           /\ UNCHANGED stream
<1>1. /\ lastId \in Nat /\ Len(stream) \in Nat /\ lastId < Len(stream)
      /\ BatchSize \in Nat \ {0} /\ pel \subseteq 1..lastId
  BY RoomAssumption DEF TypeOK, Deliver
<1>2. lastId' \in (lastId + 1)..Len(stream)
  BY <1>1 DEF Deliver
<1>3. pel' = pel \cup (lastId + 1)..lastId' /\ UNCHANGED stream
  BY DEF Deliver
<1> QED
  BY <1>1, <1>2, <1>3

\* A sequence is empty exactly when its length is 0.
LEMMA EmptyIffNoLen ==
    ASSUME NEW S, NEW t \in Seq(S)
    PROVE  t = <<>> <=> Len(t) = 0
  BY EmptySeq

\* What is given by its length and its entries is a sequence.
LEMMA IndexedIsSeq ==
    ASSUME NEW n \in Nat \ {0}, NEW m \in Nat, NEW b \in [1..n -> 1..m]
    PROVE  /\ b \in Seq(Nat) /\ Len(b) = n /\ b # <<>>
           /\ \A i \in 1..Len(b) : b[i] \in 1..m
<1>1. b \in [1..n -> Nat] /\ n \in Nat
  OBVIOUS
<1>2. b \in Seq(Nat) /\ Len(b) = n
  BY <1>1
<1>3. b # <<>>
  BY <1>2, EmptyIffNoLen
<1> QED
  BY <1>2, <1>3

\* The n-th entry after the k-th.
LEMMA Shifted ==
    ASSUME NEW k \in Nat, NEW m \in Nat, k < m
    PROVE  m - k \in Nat \ {0} /\ \A i \in 1..(m - k) : k + i \in 1..m
  OBVIOUS

\* The entry at hand is a delivered one.
LEMMA IdFacts ==
    ASSUME RoomInv, NEW w \in Workers, wpc[w] \in {"issue", "ack"}
    PROVE  /\ Id(w) \in 1..lastId /\ Id(w) \in 1..Len(stream)
           /\ stream[Id(w)] \in Entry
           /\ Len(batch[w]) \in Nat \ {0}
<1>1. batch[w] \in Seq(Nat) /\ batch[w] # <<>>
  BY DEF RoomInv, TypeOK, BatchInv
<1>2. Len(batch[w]) \in Nat \ {0} /\ Id(w) = batch[w][1]
  BY <1>1 DEF Id
<1>3. Id(w) \in 1..lastId
  BY <1>2 DEF RoomInv, BatchInv
<1>4. lastId \in Nat /\ Len(stream) \in Nat /\ lastId <= Len(stream) /\ stream \in Seq(Entry)
  BY DEF RoomInv, TypeOK
<1> QED
  BY <1>2, <1>3, <1>4

\* A worker's place and its batch, after a step that is its own.
BatchOf(last, b, place) ==
    /\ b \in Seq(Nat) /\ \A i \in 1..Len(b) : b[i] \in 1..last
    /\ place \in {"idle", "issue", "ack", "down"}
    /\ place \in {"issue", "ack"} <=> b # <<>>

\* What XREADGROUP hands out is an entry nobody was given yet.
LEMMA NextEntryFacts ==
    ASSUME RoomInv, NEW w \in Workers, wpc[w] \in {"issue", "ack"}, NextEntry(w)
    PROVE  \E b, place :
              /\ BatchOf(lastId, b, place)
              /\ batch' = [batch EXCEPT ![w] = b] /\ wpc' = [wpc EXCEPT ![w] = place]
              /\ place # "ack"
<1>1. Len(batch[w]) \in Nat \ {0} /\ batch[w] \in Seq(Nat) /\ batch[w] # <<>>
  BY IdFacts DEF RoomInv, TypeOK, BatchInv
<1> DEFINE b == Tail(batch[w])
           place == IF Len(batch[w]) = 1 THEN "idle" ELSE "issue"
<1>2. b \in Seq(Nat) /\ Len(b) = Len(batch[w]) - 1 /\ \A i \in 1..Len(b) : b[i] = batch[w][i + 1]
  BY <1>1
<1>3. b # <<>> <=> Len(batch[w]) # 1
  <2>1. b = <<>> <=> Len(b) = 0
    BY <1>2, EmptyIffNoLen
  <2>2. Len(b) = Len(batch[w]) - 1 /\ Len(batch[w]) \in Nat
    BY <1>1, <1>2
  <2> HIDE DEF b
  <2> QED
    BY <2>1, <2>2
<1>4. \A i \in 1..Len(b) : b[i] \in 1..lastId
  BY <1>1, <1>2 DEF RoomInv, BatchInv
<1>5. batch' = [batch EXCEPT ![w] = b] /\ wpc' = [wpc EXCEPT ![w] = place]
  BY DEF NextEntry
<1>6. BatchOf(lastId, b, place)
  BY <1>2, <1>3, <1>4 DEF BatchOf
<1> QED
  BY <1>5, <1>6

-----------------------------------------------------------------------------
\* The steps of a join handler and of a page keep the shape of everything.
LEMMA PageKeepsRoom ==
    ASSUME RoomInv, NEW v \in Visits,
           \/ \E e \in Entry : Visit(v, e)
           \/ JoinStep(v) \/ JoinFails(v) \/ Book(v) \/ TurnedAway(v)
    PROVE  RoomInv'
<1> USE DEF RoomInv, Goto
<1>1. CASE \E e \in Entry : Visit(v, e)
  BY <1>1 DEF Visit, TypeOK, VisitInv, BatchInv, InJoin, lineVars, streamVars, dispVars, workerVars
<1>2. CASE ZScore(v)
  BY <1>2 DEF ZScore, TypeOK, VisitInv, BatchInv, InJoin, lineVars, streamVars, dispVars, workerVars
<1>3. CASE Incr(v)
  <2>1. Room(v) \in Rooms
    BY <1>3 DEF Incr, VisitInv, Entry, Room
  <2> QED
    BY <1>3, <2>1 DEF Incr, TypeOK, VisitInv, BatchInv, InJoin, streamVars, dispVars, workerVars
<1>4. CASE ZAdd(v)
  <2>1. Room(v) \in Rooms /\ User(v) \in Users
    BY <1>4 DEF ZAdd, VisitInv, Entry, Room, User
  <2> QED
    BY <1>4, <2>1 DEF ZAdd, TypeOK, VisitInv, BatchInv, InJoin, streamVars, dispVars, workerVars
<1>5. CASE SAdd(v)
  <2>1. Room(v) \in Rooms
    BY <1>5 DEF SAdd, VisitInv, Entry, Room
  <2> QED
    BY <1>5, <2>1 DEF SAdd, TypeOK, VisitInv, BatchInv, InJoin, streamVars, dispVars, workerVars
<1>6. CASE ExpireLine(v) \/ ExpireSeq(v)
  <2>1. Room(v) \in Rooms
    BY <1>6 DEF ExpireLine, ExpireSeq, VisitInv, Entry, Room
  <2>2. ttl' \in [Rooms -> TTLs]
    BY <1>6, <2>1, WithoutFacts DEF ExpireLine, ExpireSeq, TypeOK, TTLs
  <2> QED
    BY <1>6, <2>2 DEF ExpireLine, ExpireSeq, TypeOK, TTLs, VisitInv, BatchInv, InJoin,
                      streamVars, dispVars, workerVars
<1>7. CASE AnswerJoin(v) \/ Poll(v) \/ JoinFails(v) \/ Book(v) \/ TurnedAway(v)
  BY <1>7 DEF AnswerJoin, Poll, JoinFails, Book, TurnedAway, TypeOK, VisitInv, BatchInv, InJoin,
              lineVars, streamVars, dispVars, workerVars
<1> QED
  BY <1>1, <1>2, <1>3, <1>4, <1>5, <1>6, <1>7 DEF JoinStep
\* The steps of a dispatcher do.
LEMMA DispatcherKeepsRoom ==
    ASSUME RoomInv, NEW d \in Dispatchers, DispatcherStep(d) \/ TickFails(d)
    PROVE  RoomInv'
<1> USE DEF RoomInv
<1>1. ASSUME NEW q \in Rooms, HandOff(d, q)
      PROVE  RoomInv'
  <2>1. UNCHANGED <<seq, active, torn, lastId, pel, tokens, pageVars, todo, workerVars>>
    BY <1>1 DEF HandOff
  <2>2. room' = [room EXCEPT ![d] = q] /\ dpc' = [dpc EXCEPT ![d] = "zcard"]
    BY <1>1 DEF HandOff
  <2>3. /\ stream' \in Seq(Entry) /\ Len(stream) <= Len(stream')
        /\ line' \in [Rooms -> [Users -> Nat]]
    BY <1>1, HandOffFacts
  <2>4. ttl' \in [Rooms -> TTLs]
    BY <1>1, HandOffFacts, WithoutFacts DEF TypeOK, TTLs
  <2>5. lastId \in 0..Len(stream')
    BY <2>3 DEF TypeOK
  <2>6. TypeOK'
    BY <2>1, <2>2, <2>3, <2>4, <2>5 DEF TypeOK, TTLs, pageVars, workerVars
  <2> QED
    BY <2>1, <2>6 DEF VisitInv, BatchInv, pageVars, workerVars
<1>2. CASE Tick(d) \/ TickFails(d)
  BY <1>2 DEF Tick, TickFails, TypeOK, VisitInv, BatchInv, lineVars, streamVars, pageVars, workerVars
<1>3. CASE ZCard(d)
  BY <1>3 DEF ZCard, NextRoom, TypeOK, VisitInv, BatchInv, lineVars, streamVars, pageVars, workerVars
<1>4. CASE SRem(d)
  BY <1>4 DEF SRem, NextRoom, TypeOK, VisitInv, BatchInv, streamVars, pageVars, workerVars
<1> QED
  BY <1>1, <1>2, <1>3, <1>4 DEF DispatcherStep

\* A worker that changes its own place and batch and nothing but tokens and
\* pending entries keeps the shape.
LEMMA BatchKeepsRoom ==
    ASSUME RoomInv, NEW w \in Workers, NEW b, NEW place, BatchOf(lastId', b, place),
           batch' = [batch EXCEPT ![w] = b], wpc' = [wpc EXCEPT ![w] = place],
           lastId' \in lastId..Len(stream), pel' \subseteq 1..lastId',
           tokens' \subseteq Entry, UNCHANGED <<lineVars, stream, pageVars, dispVars>>
    PROVE  RoomInv'
<1> USE DEF RoomInv
<1>1. TypeOK'
  BY DEF TypeOK, BatchOf, lineVars, pageVars, dispVars
<1>2. VisitInv'
  BY DEF VisitInv, pageVars
<1>3. lastId \in Nat /\ lastId' \in Nat /\ lastId <= lastId'
  BY DEF TypeOK
<1>4. BatchInv'
  BY <1>3 DEF TypeOK, BatchInv, BatchOf
<1> QED
  BY <1>1, <1>2, <1>4

\* The steps of an admission worker and its faults do.
LEMMA WorkerKeepsRoom ==
    ASSUME RoomInv, NEW w \in Workers, WorkerStep(w) \/ WorkerFault(w)
    PROVE  RoomInv'
<1> USE DEF RoomInv
<1>0. /\ lastId \in 0..Len(stream) /\ Len(stream) \in Nat /\ pel \subseteq 1..lastId
      /\ tokens \subseteq Entry /\ lastId \in lastId..Len(stream)
  BY DEF TypeOK
<1>1. CASE ReadBatch(w)
  <2>1. /\ lastId' \in (lastId + 1)..Len(stream) /\ pel' \subseteq 1..lastId' /\ UNCHANGED stream
    BY <1>1, DeliverFacts DEF ReadBatch
  <2>2. PICK b : b = [i \in 1..(lastId' - lastId) |-> lastId + i]
    OBVIOUS
  <2>3. PICK k, m, n : k = lastId /\ m = lastId' /\ n = m - k
    OBVIOUS
  <2>4. k \in Nat /\ m \in Nat /\ k < m
    BY <1>0, <2>1, <2>3
  <2>a. n \in Nat \ {0} /\ \A i \in 1..n : k + i \in 1..m
    <3>1. m - k \in Nat \ {0} /\ \A i \in 1..(m - k) : k + i \in 1..m
      BY <2>4, Shifted
    <3>2. n = m - k
      BY <2>3
    <3> QED
      BY <3>1, <3>2
  <2>5. b \in [1..n -> 1..m]
    <3>1. b = [i \in 1..n |-> k + i]
      BY <2>2, <2>3
    <3> QED
      BY <2>a, <3>1
  <2>6. BatchOf(lastId', b, "issue")
    BY <2>3, <2>4, <2>a, <2>5, IndexedIsSeq DEF BatchOf
  <2>7. batch' = [batch EXCEPT ![w] = b] /\ wpc' = [wpc EXCEPT ![w] = "issue"]
    BY <1>1, <2>2 DEF ReadBatch
  <2>8. UNCHANGED <<lineVars, tokens, pageVars, dispVars>>
    BY <1>1 DEF ReadBatch
  <2>9. lastId' \in lastId..Len(stream)
    BY <1>0, <2>1
  <2> QED
    BY <1>0, <2>1, <2>6, <2>7, <2>8, <2>9, BatchKeepsRoom
<1>2. CASE ReadReplyLost(w)
  <2>1. /\ lastId' \in (lastId + 1)..Len(stream) /\ pel' \subseteq 1..lastId' /\ UNCHANGED stream
    BY <1>2, DeliverFacts DEF ReadReplyLost
  <2>2. UNCHANGED <<lineVars, tokens, pageVars, dispVars, workerVars>>
    BY <1>2 DEF ReadReplyLost
  <2>3. TypeOK'
    BY <1>0, <2>1, <2>2 DEF TypeOK, lineVars, pageVars, dispVars, workerVars
  <2> QED
    BY <1>0, <2>1, <2>2, <2>3 DEF VisitInv, BatchInv, TypeOK, pageVars, workerVars
<1>3. CASE IssueToken(w)
  BY <1>3, IdFacts DEF IssueToken, TypeOK, VisitInv, BatchInv, lineVars, streamVars, pageVars, dispVars
<1>4. CASE IssueFails(w) \/ Ack(w)
  <2>1. wpc[w] \in {"issue", "ack"} /\ NextEntry(w)
    BY <1>4 DEF IssueFails, Ack
  <2>2. tokens' \subseteq Entry /\ pel' \subseteq pel
    BY <1>0, <1>4, <2>1, IdFacts DEF IssueFails, Ack, streamVars
  <2>3. UNCHANGED <<lineVars, stream, lastId, pageVars, dispVars>>
    BY <1>4 DEF IssueFails, Ack, streamVars
  <2>4. PICK b, place :
           /\ BatchOf(lastId, b, place)
           /\ batch' = [batch EXCEPT ![w] = b] /\ wpc' = [wpc EXCEPT ![w] = place]
    BY <2>1, NextEntryFacts
  <2>5. BatchOf(lastId', b, place)
    BY <2>3, <2>4 DEF BatchOf
  <2>6. lastId' \in lastId..Len(stream) /\ pel' \subseteq 1..lastId'
    BY <1>0, <2>2, <2>3
  <2> QED
    BY <2>2, <2>3, <2>4, <2>5, <2>6, BatchKeepsRoom
<1>5. CASE AckFails(w) \/ Crash(w)
  <2>1. PICK place \in {"idle", "down"} :
           batch' = [batch EXCEPT ![w] = <<>>] /\ wpc' = [wpc EXCEPT ![w] = place]
    BY <1>5 DEF AckFails, Crash
  <2>2. BatchOf(lastId', <<>>, place)
    BY EmptySeq DEF BatchOf
  <2>3. pel' \subseteq pel /\ UNCHANGED <<lineVars, stream, lastId, tokens, pageVars, dispVars>>
    BY <1>5 DEF AckFails, Crash, streamVars
  <2>4. lastId' \in lastId..Len(stream) /\ pel' \subseteq 1..lastId' /\ tokens' \subseteq Entry
    BY <1>0, <2>3
  <2> QED
    BY <2>1, <2>2, <2>3, <2>4, BatchKeepsRoom
<1>6. ASSUME NEW ids \in Claims, Reclaim(w, ids)
      PROVE  RoomInv'
  <2>1. PICK n \in 1..BatchSize : ids \in [1..n -> pel]
    BY DEF Claims
  <2>2. PICK m \in Nat : m = lastId
    BY <1>0
  <2>b. \A i \in 1..n : ids[i] \in 1..m
    BY <1>0, <2>1, <2>2
  <2>3. n \in Nat \ {0} /\ ids \in [1..n -> 1..m]
    <3>1. n \in Nat \ {0}
      BY RoomAssumption
    <3> QED
      BY <2>1, <2>b, <3>1
  <2>a. ids \in Seq(Nat) /\ ids # <<>> /\ \A i \in 1..Len(ids) : ids[i] \in 1..lastId
    BY <2>2, <2>3, IndexedIsSeq
  <2>4. BatchOf(lastId', ids, "issue")
    BY <1>6, <2>a DEF BatchOf, Reclaim, streamVars
  <2>5. /\ batch' = [batch EXCEPT ![w] = ids] /\ wpc' = [wpc EXCEPT ![w] = "issue"]
        /\ UNCHANGED <<lineVars, stream, lastId, pel, tokens, pageVars, dispVars>>
    BY <1>6 DEF Reclaim, streamVars
  <2> QED
    BY <1>0, <2>4, <2>5, BatchKeepsRoom
<1>7. CASE Restart(w)
  BY <1>7 DEF Restart, TypeOK, VisitInv, BatchInv, lineVars, streamVars, pageVars, dispVars
<1> QED
  BY <1>1, <1>2, <1>3, <1>4, <1>5, <1>6, <1>7 DEF WorkerStep, WorkerFault

\* A key that expires does.
LEMMA ExpiryKeepsRoom ==
    ASSUME RoomInv, (\E q \in Rooms : ExpireKey(q)) \/ (\E e \in Entry : ExpireToken(e))
    PROVE  RoomInv'
<1> USE DEF RoomInv
<1>1. ASSUME NEW q \in Rooms, ExpireKey(q)
      PROVE  RoomInv'
  <2>1. ttl' \in [Rooms -> TTLs]
    BY <1>1, WithoutFacts DEF ExpireKey, TypeOK, TTLs
  <2>2. line' \in [Rooms -> [Users -> Nat]] /\ seq' \in [Rooms -> Nat]
    <3>1. \/ line' = [line EXCEPT ![q] = [u \in Users |-> 0]] /\ UNCHANGED seq
          \/ seq' = [seq EXCEPT ![q] = 0] /\ UNCHANGED line
      BY <1>1 DEF ExpireKey
    <3>2. line \in [Rooms -> [Users -> Nat]] /\ seq \in [Rooms -> Nat]
      BY DEF TypeOK
    <3> QED
      BY <3>1, <3>2
  <2>3. UNCHANGED <<active, streamVars, tokens, pageVars, dispVars, workerVars>>
    BY <1>1 DEF ExpireKey
  <2>4. torn' \subseteq Rooms
    BY <1>1 DEF ExpireKey, Tear, TypeOK
  <2> QED
    BY <2>1, <2>2, <2>3, <2>4 DEF TypeOK, TTLs, VisitInv, BatchInv, streamVars, pageVars, dispVars, workerVars
<1>2. ASSUME NEW e \in Entry, ExpireToken(e)
      PROVE  RoomInv'
  BY <1>2 DEF ExpireToken, TypeOK, VisitInv, BatchInv, lineVars, streamVars, pageVars, dispVars, workerVars
<1> QED
  BY <1>1, <1>2

\* It holds before anybody has opened a page,
LEMMA RoomInvInit == Init => RoomInv
  BY EmptySeq DEF Init, RoomInv, TypeOK, VisitInv, BatchInv, InJoin

\* every step keeps it, whatever fails,
LEMMA RoomInvStep == RoomInv /\ [Next]_vars => RoomInv'
<1> SUFFICES ASSUME RoomInv, [Next]_vars PROVE RoomInv'
  OBVIOUS
<1>1. CASE UNCHANGED vars
  BY <1>1 DEF RoomInv, TypeOK, VisitInv, BatchInv, vars, lineVars, streamVars, pageVars, dispVars, workerVars
<1> QED
  BY <1>1, PageKeepsRoom, DispatcherKeepsRoom, WorkerKeepsRoom, ExpiryKeepsRoom DEF Next

\* and so it holds of every behaviour.
LEMMA RoomInvHolds == Spec => []RoomInv
  BY RoomInvInit, RoomInvStep, PTL DEF Spec

\* Lines, stream, tokens, pages, dispatchers and workers keep their shape,
\* whatever fails or expires.
THEOREM WaitingRoomTypeOK == Spec => []TypeOK
<1>1. RoomInv => TypeOK
  BY DEF RoomInv
<1> QED
  BY <1>1, RoomInvHolds, PTL

-----------------------------------------------------------------------------
\* The stream is only appended to, by the dispatchers.
LEMMA StreamGrows ==
    ASSUME RoomInv, [Next]_vars
    PROVE  /\ Len(stream) \in Nat /\ Len(stream') \in Nat /\ Len(stream) <= Len(stream')
           /\ \A i \in 1..Len(stream) : stream'[i] = stream[i]
<1>1. stream \in Seq(Entry) /\ Len(stream) \in Nat
  BY DEF RoomInv, TypeOK
<1>2. stream' \in Seq(Entry) /\ Len(stream') \in Nat
  BY RoomInvStep DEF RoomInv, TypeOK
<1>3. ASSUME NEW d \in Dispatchers, NEW q \in Rooms, HandOff(d, q)
      PROVE  Len(stream) <= Len(stream') /\ \A i \in 1..Len(stream) : stream'[i] = stream[i]
  BY <1>3, HandOffFacts DEF RoomInv
<1>4. (\E d \in Dispatchers, q \in Rooms : HandOff(d, q)) \/ UNCHANGED stream
  BY DEF Next, JoinStep, DispatcherStep, WorkerStep, WorkerFault, Visit, ZScore, Incr, ZAdd, SAdd,
         ExpireLine, ExpireSeq, AnswerJoin, Poll, JoinFails, Book, TurnedAway, Tick, ZCard, SRem,
         TickFails, ReadBatch, ReadReplyLost, Deliver, IssueToken, IssueFails, Ack, AckFails,
         Reclaim, Crash, Restart, ExpireKey, ExpireToken, vars, streamVars
<1> QED
  BY <1>1, <1>2, <1>3, <1>4

\* A token that was not there is one of an entry some worker has at hand.
LEMMA NewTokens ==
    ASSUME RoomInv, [Next]_vars, NEW e \in tokens'
    PROVE  e \in tokens \/ \E w \in Workers : wpc[w] = "issue" /\ e = stream[Id(w)]
  BY DEF Next, JoinStep, DispatcherStep, WorkerStep, WorkerFault, Visit, ZScore, Incr, ZAdd, SAdd,
         ExpireLine, ExpireSeq, AnswerJoin, Poll, JoinFails, Book, TurnedAway, Tick, HandOff, ZCard,
         SRem, TickFails, ReadBatch, ReadReplyLost, IssueToken, IssueFails, Ack, AckFails,
         Reclaim, Crash, Restart, ExpireKey, ExpireToken, vars

\* Who a page is by changes only when it comes, and only Book books.
LEMMA NewBookings ==
    ASSUME RoomInv, [Next]_vars, NEW v \in Visits, at'[v] = "booked"
    PROVE  who'[v] = who[v] /\ (at[v] = "booked" \/ (Enforce => who[v] \in tokens))
<1> USE DEF RoomInv, TypeOK, Goto, InJoin
<1>1. CASE at' = at /\ who' = who
  BY <1>1
<1>2. ASSUME NEW x \in Visits, NEW e \in Entry, Visit(x, e)
      PROVE  who'[v] = who[v] /\ at[v] = "booked"
  BY <1>2 DEF Visit
<1>3. ASSUME NEW x \in Visits, JoinStep(x) \/ JoinFails(x) \/ TurnedAway(x)
      PROVE  who'[v] = who[v] /\ at[v] = "booked"
  BY <1>3 DEF JoinStep, ZScore, Incr, ZAdd, SAdd, ExpireLine, ExpireSeq, AnswerJoin, Poll,
              JoinFails, TurnedAway
<1>4. ASSUME NEW x \in Visits, Book(x)
      PROVE  who'[v] = who[v] /\ (at[v] = "booked" \/ (Enforce => who[v] \in tokens))
  BY <1>4 DEF Book
<1>5. \/ at' = at /\ who' = who
      \/ \E x \in Visits : \/ \E e \in Entry : Visit(x, e)
                           \/ JoinStep(x) \/ JoinFails(x) \/ TurnedAway(x) \/ Book(x)
  BY DEF Next, DispatcherStep, WorkerStep, WorkerFault, Tick, HandOff, ZCard,
         SRem, TickFails, ReadBatch, ReadReplyLost, IssueToken, IssueFails, Ack, AckFails,
         Reclaim, Crash, Restart, ExpireKey, ExpireToken, vars, pageVars
<1> QED
  BY <1>1, <1>2, <1>3, <1>4, <1>5

\* Every token, and every booking, is of somebody the dispatcher called up.
CalledInv == RoomInv /\ TokensInv /\ BookersWereCalled

\* Every step keeps it: a token is issued only for an entry of the stream, which
\* loses none, and a page books only with a token.
LEMMA CalledInvStep == CalledInv /\ [Next]_vars => CalledInv'
<1> SUFFICES ASSUME CalledInv, [Next]_vars PROVE CalledInv'
  OBVIOUS
<1>1. RoomInv /\ RoomInv'
  BY RoomInvStep DEF CalledInv
<1>2. ASSUME NEW e, \E i \in 1..Len(stream) : stream[i] = e
      PROVE  \E i \in 1..Len(stream') : stream'[i] = e
  BY <1>1, <1>2, StreamGrows
<1>3. TokensInv'
  <2>1. ASSUME NEW e \in tokens'
        PROVE  \E i \in 1..Len(stream) : stream[i] = e
    <3>1. CASE e \in tokens
      BY <3>1 DEF CalledInv, TokensInv
    <3>2. ASSUME NEW w \in Workers, wpc[w] = "issue", e = stream[Id(w)]
          PROVE  \E i \in 1..Len(stream) : stream[i] = e
      BY <1>1, <3>2, IdFacts
    <3> QED
      BY <1>1, <3>1, <3>2, NewTokens
  <2> QED
    BY <1>2, <2>1 DEF TokensInv
<1>4. BookersWereCalled'
  <2>1. DOMAIN stream = 1..Len(stream) /\ DOMAIN stream' = 1..Len(stream')
    BY <1>1 DEF RoomInv, TypeOK
  <2>2. ASSUME Enforce, NEW v \in Visits, at'[v] = "booked"
        PROVE  \E i \in 1..Len(stream') : stream'[i] = who'[v]
    <3>1. who'[v] = who[v] /\ (at[v] = "booked" \/ who[v] \in tokens)
      BY <1>1, <2>2, NewBookings
    <3>2. \E i \in 1..Len(stream) : stream[i] = who[v]
      BY <2>1, <2>2, <3>1 DEF CalledInv, TokensInv, BookersWereCalled
    <3> QED
      BY <1>2, <3>1, <3>2
  <2> QED
    BY <2>1, <2>2 DEF BookersWereCalled
<1> QED
  BY <1>1, <1>3, <1>4 DEF CalledInv

\* With ENFORCE_ADMISSION_TOKEN on, nobody books who was not called up from the
\* line for that very room: not with a token that expired, not from a page whose
\* join failed, whatever else fails.
THEOREM OnlyCalledUsersBook == Spec => []BookersWereCalled
<1>1. Init => CalledInv
  BY RoomInvInit DEF Init, CalledInv, TokensInv, BookersWereCalled
<1>2. CalledInv => BookersWereCalled
  BY DEF CalledInv
<1> QED
  BY <1>1, <1>2, CalledInvStep, PTL DEF Spec
-----------------------------------------------------------------------------
\* When no key expires, a token stays.
LEMMA TokensStay ==
    ASSUME "expire" \notin Faults, [Next]_vars
    PROVE  tokens \subseteq tokens'
  BY DEF Next, JoinStep, DispatcherStep, WorkerStep, WorkerFault, Visit, ZScore, Incr, ZAdd, SAdd,
         ExpireLine, ExpireSeq, AnswerJoin, Poll, JoinFails, Book, TurnedAway, Tick, HandOff, ZCard,
         SRem, TickFails, ReadBatch, ReadReplyLost, IssueToken, IssueFails, Ack, AckFails,
         Reclaim, Crash, Restart, ExpireKey, ExpireToken, vars

\* What is pending stays pending, until its user has a token.
LEMMA PendingStays ==
    ASSUME RoomInv, AckInv, [Next]_vars
    PROVE  /\ lastId \in Nat /\ lastId' \in Nat /\ lastId <= lastId'
           /\ \A i \in (lastId + 1)..lastId' : i \in pel'
           /\ \A i \in pel : i \in pel' \/ stream[i] \in tokens
<1>1. /\ lastId \in Nat /\ lastId' \in Nat
  BY RoomInvStep DEF RoomInv, TypeOK
<1>2. CASE Deliver
  BY <1>1, <1>2, DeliverFacts DEF RoomInv
<1>3. ASSUME NEW w \in Workers, Ack(w) \/ AckFails(w)
      PROVE  lastId' = lastId /\ \A i \in pel : i \in pel' \/ stream[i] \in tokens
  <2>1. stream[Id(w)] \in tokens
    BY <1>3 DEF Ack, AckFails, AckInv
  <2>2. pel \ {Id(w)} \subseteq pel' /\ lastId' = lastId
    BY <1>3 DEF Ack, AckFails
  <2> QED
    BY <2>1, <2>2
<1>4. \/ Deliver
      \/ \E w \in Workers : Ack(w) \/ AckFails(w)
      \/ UNCHANGED <<lastId, pel>>
  BY DEF Next, JoinStep, DispatcherStep, WorkerStep, WorkerFault, Visit, ZScore, Incr, ZAdd, SAdd,
         ExpireLine, ExpireSeq, AnswerJoin, Poll, JoinFails, Book, TurnedAway, Tick, HandOff, ZCard,
         SRem, TickFails, ReadBatch, ReadReplyLost, IssueToken, IssueFails,
         Reclaim, Crash, Restart, ExpireKey, ExpireToken, vars, streamVars
<1> QED
  BY <1>1, <1>2, <1>3, <1>4

\* Only a dispatcher takes a user from a line, and it puts them on the stream.
LEMMA LineStays ==
    ASSUME RoomInv, "expire" \notin Faults, [Next]_vars, NEW e \in Entry, e.user \in InLine(e.room)
    PROVE  \/ e.user \in InLine(e.room)'
           \/ \E i \in (Len(stream) + 1)..Len(stream') : stream'[i] = e /\ lastId' = lastId
<1>0. e.user \in Users /\ e.room \in Rooms /\ e = [user |-> e.user, room |-> e.room]
      /\ line[e.room][e.user] # 0
  BY DEF Entry, InLine
<1>1. ASSUME NEW d \in Dispatchers, NEW q \in Rooms, HandOff(d, q)
      PROVE  \/ line'[e.room][e.user] # 0
             \/ \E i \in (Len(stream) + 1)..Len(stream') : stream'[i] = e /\ lastId' = lastId
  <2>1. lastId' = lastId
    BY <1>1 DEF HandOff
  <2>2. PICK u \in Users, x \in Rooms : u = e.user /\ x = e.room
    BY <1>0
  <2>3. line'[x][u] # line[x][u] =>
          \E i \in (Len(stream) + 1)..Len(stream') : stream'[i] = [user |-> u, room |-> x]
    BY <1>1, HandOffFacts DEF RoomInv
  <2> QED
    BY <1>0, <2>1, <2>2, <2>3
<1>2. ASSUME NEW v \in Visits, ZAdd(v)
      PROVE  line'[e.room][e.user] # 0
  BY <1>0, <1>2 DEF ZAdd, InLine, RoomInv, TypeOK
<1>3. \/ \E d \in Dispatchers, q \in Rooms : HandOff(d, q)
      \/ \E v \in Visits : ZAdd(v)
      \/ UNCHANGED line
  BY DEF Next, JoinStep, DispatcherStep, WorkerStep, WorkerFault, Visit, ZScore, Incr, SAdd,
         ExpireLine, ExpireSeq, AnswerJoin, Poll, JoinFails, Book, TurnedAway, Tick, ZCard,
         SRem, TickFails, ReadBatch, ReadReplyLost, IssueToken, IssueFails, Ack, AckFails,
         Reclaim, Crash, Restart, ExpireKey, ExpireToken, vars, lineVars
<1> QED
  BY <1>0, <1>1, <1>2, <1>3 DEF InLine

\* So whoever has a place keeps one.
LEMMA PlaceStays ==
    ASSUME RoomInv, AckInv, "expire" \notin Faults, [Next]_vars, NEW e \in Entry, HasPlace(e)
    PROVE  HasPlace(e)'
<1>1. /\ DOMAIN stream = 1..Len(stream) /\ DOMAIN stream' = 1..Len(stream')
      /\ lastId \in 0..Len(stream) /\ pel \subseteq 1..lastId
  BY RoomInvStep DEF RoomInv, TypeOK
<1>2. CASE e \in tokens
  BY <1>2, TokensStay DEF HasPlace
<1>3. CASE e.user \in InLine(e.room)
  <2>1. CASE e.user \in InLine(e.room)'
    BY <2>1 DEF HasPlace
  <2>2. ASSUME NEW i \in (Len(stream) + 1)..Len(stream'), stream'[i] = e, lastId' = lastId
        PROVE  HasPlace(e)'
    BY <1>1, <2>2, StreamGrows DEF HasPlace, InFlight
  <2> QED
    BY <1>3, <2>1, <2>2, LineStays
<1>4. ASSUME NEW i \in 1..Len(stream), stream[i] = e, lastId < i \/ i \in pel
      PROVE  HasPlace(e)'
  <2>1. i \in 1..Len(stream') /\ stream'[i] = e
    BY <1>4, StreamGrows
  <2>2. lastId' < i \/ i \in pel' \/ e \in tokens
    BY <1>1, <1>4, PendingStays
  <2> QED
    BY <1>1, <1>2, <2>1, <2>2 DEF HasPlace, InFlight
<1> QED
  BY <1>1, <1>2, <1>3, <1>4 DEF HasPlace, InFlight
\* Before a worker is about to acknowledge, it has issued the token.
LEMMA AckInvStep ==
    ASSUME RoomInv, AckInv, "expire" \notin Faults, [Next]_vars
    PROVE  AckInv'
<1> SUFFICES ASSUME NEW w \in Workers, wpc'[w] = "ack"
             PROVE  stream'[Id(w)'] \in tokens'
  BY DEF AckInv
<1>1. ASSUME wpc[w] = "ack", batch'[w] = batch[w]
      PROVE  stream'[Id(w)'] \in tokens'
  <2>1. Id(w)' = Id(w) /\ Id(w) \in 1..Len(stream)
    BY <1>1, IdFacts DEF Id
  <2> QED
    BY <1>1, <2>1, StreamGrows, TokensStay DEF AckInv
<1>2. ASSUME NEW x \in Workers, IssueToken(x)
      PROVE  stream'[Id(w)'] \in tokens'
  <2>1. CASE w = x
    BY <1>2, <2>1 DEF IssueToken, Id, streamVars
  <2>2. CASE w # x
    BY <1>1, <1>2, <2>2 DEF IssueToken, RoomInv, TypeOK
  <2> QED
    BY <2>1, <2>2
<1>3. ASSUME NEW x \in Workers, IssueFails(x) \/ Ack(x)
      PROVE  stream'[Id(w)'] \in tokens'
  <2>1. PICK b, place :
           /\ batch' = [batch EXCEPT ![x] = b] /\ wpc' = [wpc EXCEPT ![x] = place]
           /\ place # "ack"
    BY <1>3, NextEntryFacts DEF IssueFails, Ack
  <2> QED
    BY <1>1, <2>1 DEF RoomInv, TypeOK
<1>4. ASSUME NEW x \in Workers, \/ ReadBatch(x) \/ ReadReplyLost(x) \/ AckFails(x) \/ Crash(x) \/ Restart(x)
                                \/ \E ids \in Claims : Reclaim(x, ids)
      PROVE  stream'[Id(w)'] \in tokens'
  BY <1>1, <1>4 DEF ReadBatch, ReadReplyLost, AckFails, Crash, Restart, Reclaim, RoomInv, TypeOK, workerVars
<1>5. \/ UNCHANGED workerVars
      \/ \E x \in Workers : WorkerStep(x) \/ WorkerFault(x)
  BY DEF Next, JoinStep, DispatcherStep, Visit, ZScore, Incr, ZAdd, SAdd,
         ExpireLine, ExpireSeq, AnswerJoin, Poll, JoinFails, Book, TurnedAway, Tick, HandOff, ZCard,
         SRem, TickFails, ExpireKey, ExpireToken, vars
<1> QED
  BY <1>1, <1>2, <1>3, <1>4, <1>5 DEF WorkerStep, WorkerFault, workerVars

\* What moves a page is a step of its own, and it draws a number first.
LEMMA PageSteps ==
    ASSUME RoomInv, [Next]_vars, NEW v \in Visits
    PROVE  \/ at'[v] = at[v] /\ number'[v] = number[v] /\ who'[v] = who[v]
           \/ \E e \in Entry : Visit(v, e)
           \/ JoinStep(v) \/ JoinFails(v) \/ Book(v) \/ TurnedAway(v)
<1>1. \/ UNCHANGED pageVars
      \/ \E x \in Visits : \/ \E e \in Entry : Visit(x, e)
                           \/ JoinStep(x) \/ JoinFails(x) \/ Book(x) \/ TurnedAway(x)
  BY DEF Next, DispatcherStep, WorkerStep, WorkerFault, Tick, HandOff, ZCard,
         SRem, TickFails, ReadBatch, ReadReplyLost, IssueToken, IssueFails, Ack, AckFails,
         Reclaim, Crash, Restart, ExpireKey, ExpireToken, vars
<1>2. ASSUME NEW x \in Visits, x # v,
             \/ \E e \in Entry : Visit(x, e)
             \/ JoinStep(x) \/ JoinFails(x) \/ Book(x) \/ TurnedAway(x)
      PROVE  at'[v] = at[v] /\ number'[v] = number[v] /\ who'[v] = who[v]
  BY <1>2 DEF JoinStep, Visit, ZScore, Incr, ZAdd, SAdd, ExpireLine, ExpireSeq, AnswerJoin, Poll,
              JoinFails, Book, TurnedAway, Goto, RoomInv, TypeOK
<1> QED
  BY <1>1, <1>2 DEF pageVars

\* A page that gets to a place in the protocol where it has one, or stays there.
LEMMA Placing ==
    ASSUME WaiterInv, "expire" \notin Faults, [Next]_vars, NEW v \in Visits, NEW e \in Entry,
           at'[v] \in {"sadd", "expire_line", "expire_seq", "zrank", "waiting"}, who'[v] = e
    PROVE  HasPlace(e)'
<1> DEFINE Placed == {"sadd", "expire_line", "expire_seq", "zrank", "waiting"}
<1>1. RoomInv /\ AckInv /\ NumberInv /\ PlaceInv
  BY DEF WaiterInv
<1>2. ASSUME at[v] \in Placed, who[v] = e
      PROVE  HasPlace(e)'
  BY <1>1, <1>2, PlaceStays DEF PlaceInv
<1>3. CASE at'[v] = at[v] /\ who'[v] = who[v]
  BY <1>2, <1>3
<1>4. CASE ZScore(v)
  <2>1. who[v] = e /\ e.user \in InLine(e.room)
    BY <1>1, <1>4 DEF ZScore, Goto, RoomInv, TypeOK, User, Room
  <2> QED
    BY <1>1, <2>1, PlaceStays DEF HasPlace
<1>5. CASE ZAdd(v)
  <2>1. e.user \in Users /\ e.room \in Rooms /\ who[v] = e /\ number[v] # 0
    BY <1>1, <1>5 DEF ZAdd, NumberInv, Entry
  <2>2. line'[e.room][e.user] # 0
    BY <1>1, <1>5, <2>1 DEF ZAdd, InLine, User, Room, RoomInv, TypeOK
  <2> QED
    BY <2>1, <2>2 DEF HasPlace, InLine
<1>6. CASE SAdd(v) \/ ExpireLine(v) \/ ExpireSeq(v) \/ AnswerJoin(v)
  BY <1>2, <1>6 DEF SAdd, ExpireLine, ExpireSeq, AnswerJoin
<1>7. ASSUME \/ \E x \in Entry : Visit(v, x)
             \/ Incr(v) \/ Poll(v) \/ JoinFails(v) \/ Book(v) \/ TurnedAway(v)
      PROVE  FALSE
  BY <1>1, <1>7 DEF Visit, Incr, Poll, JoinFails, Book, TurnedAway, Goto, RoomInv, TypeOK
<1> QED
  BY <1>1, <1>3, <1>4, <1>5, <1>6, <1>7, PageSteps DEF JoinStep

\* From the moment it is told to wait, and before, a page has a place.
LEMMA PlaceInvStep ==
    ASSUME WaiterInv, "expire" \notin Faults, [Next]_vars
    PROVE  PlaceInv'
<1> DEFINE Placed == {"sadd", "expire_line", "expire_seq", "zrank", "waiting"}
<1>1. ASSUME NEW v \in Visits, at'[v] \in Placed
      PROVE  HasPlace(who[v])'
  <2>1. VisitInv'
    BY RoomInvStep DEF WaiterInv, RoomInv
  <2>2. PICK e \in Entry : e = who'[v]
    BY <1>1, <2>1 DEF VisitInv
  <2>3. HasPlace(e)'
    BY <1>1, <2>2, Placing
  <2> QED
    BY <2>2, <2>3 DEF HasPlace, InFlight, InLine
<1> QED
  BY <1>1 DEF PlaceInv

\* A number is drawn before it is put in line.
LEMMA NumberInvStep ==
    ASSUME RoomInv, NumberInv, [Next]_vars
    PROVE  NumberInv'
<1>1. ASSUME NEW v \in Visits, at'[v] = "zadd"
      PROVE  number'[v] # 0
  <2>1. CASE at'[v] = at[v] /\ number'[v] = number[v]
    BY <1>1, <2>1 DEF NumberInv
  <2>2. CASE Incr(v)
    <3>1. Room(v) \in Rooms
      BY <2>2 DEF Incr, RoomInv, VisitInv, Entry, Room
    <3> QED
      BY <2>2, <3>1 DEF Incr, RoomInv, TypeOK
  <2>3. ASSUME \/ \E x \in Entry : Visit(v, x)
               \/ ZScore(v) \/ ZAdd(v) \/ SAdd(v) \/ ExpireLine(v) \/ ExpireSeq(v)
               \/ AnswerJoin(v) \/ Poll(v) \/ JoinFails(v) \/ Book(v) \/ TurnedAway(v)
        PROVE  FALSE
    BY <1>1, <2>3 DEF Visit, ZScore, ZAdd, SAdd, ExpireLine, ExpireSeq, AnswerJoin, Poll,
                      JoinFails, Book, TurnedAway, Goto, RoomInv, TypeOK
  <2> QED
    BY <2>1, <2>2, <2>3, PageSteps DEF JoinStep
<1> QED
  BY <1>1 DEF NumberInv

\* While no key expires, whoever is told to wait stands in line, is on the way
\* through work-stream, or has a token: exceptions of dispatchers and workers,
\* lost replies, killed workers, failed joins and second visits lose nobody.
THEOREM WaitersHaveAPlace ==
    ASSUME "expire" \notin Faults
    PROVE  Spec => []WaiterHasPlace
<1>1. Init => WaiterInv
  BY RoomInvInit DEF Init, WaiterInv, AckInv, NumberInv, PlaceInv
<1>2. WaiterInv /\ [Next]_vars => WaiterInv'
  BY RoomInvStep, AckInvStep, NumberInvStep, PlaceInvStep DEF WaiterInv
<1>3. WaiterInv => WaiterHasPlace
  BY DEF WaiterInv, PlaceInv, WaiterHasPlace, HasPlace, User, Room
<1> QED
  BY <1>1, <1>2, <1>3, PTL DEF Spec
-----------------------------------------------------------------------------
\* A room is made whole when a key of it expires with no join half-way and
\* nobody left in line.
LEMMA TornSteps ==
    ASSUME RoomInv, [Next]_vars, NEW q \in torn, q \notin torn'
    PROVE  InLine(q)' = {} /\ ~HalfWay(q)'
<1>1. \/ \E x \in Rooms : ExpireKey(x)
      \/ UNCHANGED torn
  BY DEF Next, JoinStep, DispatcherStep, WorkerStep, WorkerFault, Visit, ZScore, Incr, ZAdd, SAdd,
         ExpireLine, ExpireSeq, AnswerJoin, Poll, JoinFails, Book, TurnedAway, Tick, HandOff, ZCard,
         SRem, TickFails, ReadBatch, ReadReplyLost, IssueToken, IssueFails, Ack, AckFails,
         Reclaim, Crash, Restart, ExpireToken, vars, lineVars
<1>2. PICK x \in Rooms : ExpireKey(x)
  BY <1>1
<1>3. x = q /\ ~HalfWay(q) /\ InLine(q)' = {} /\ UNCHANGED pageVars
  BY <1>2 DEF ExpireKey, Tear
<1>4. ~HalfWay(q)'
  BY <1>3 DEF HalfWay, Room, pageVars
<1> QED
  BY <1>3, <1>4

\* The counter of a room expires when nobody is in its line or on the way into
\* it, or it is torn off.
LEMMA CounterExpires ==
    ASSUME FifoInv, NEW q \in Rooms, ExpireKey(q), Head(ttl[q]) # "line", q \notin torn'
    PROVE  InLine(q) = {} /\ ~HalfWay(q) /\ UNCHANGED <<line, pageVars>>
<1>1. "expire" \in Faults /\ UNCHANGED <<line, pageVars>> /\ InLine(q)' = InLine(q)
  BY DEF ExpireKey, InLine
<1>2. Head(ttl[q]) = "seq"
  <2>1. ttl[q] \in TTLs /\ ttl[q] # <<>>
    BY DEF ExpireKey, FifoInv, RoomInv, TypeOK, TTLs
  <2>2. ttl[q] \in {<<"line">>, <<"seq">>, <<"line", "seq">>, <<"seq", "line">>}
    BY <2>1 DEF TTLs
  <2>3. \/ ttl[q] = <<"seq">>
        \/ ttl[q] = <<"seq", "line">>
    BY <2>2, KeySequences
  <2> QED
    BY <2>3, KeySequences
<1>3. ~HalfWay(q)
  BY <1>2 DEF ExpireKey, Tear
<1>4. CASE q \in torn
  BY <1>1, <1>3, <1>4 DEF ExpireKey, Tear
<1>5. CASE q \notin torn
  <2>1. ttl[q] # <<"line", "seq">>
    BY KeySequences
  <2>2. ~ LineFirst(q)
    BY <1>3, <2>1 DEF LineFirst, HalfWay
  <2> QED
    BY <1>1, <1>3, <1>5, <2>2 DEF FifoInv, ExpiryInv
<1> QED
  BY <1>4, <1>5

\* A number in line goes away or stays as it is, or it is put in by a ZADD of
\* a user who was not in line.
LEMMA LineNumbers ==
    ASSUME RoomInv, [Next]_vars, NEW q \in Rooms, NEW u \in Users
    PROVE  \/ line'[q][u] \in {0, line[q][u]}
           \/ \E v \in Visits : /\ ZAdd(v) /\ User(v) = u /\ Room(v) = q
                                /\ line[q][u] = 0 /\ line'[q][u] = number[v]
<1>1. ASSUME NEW d \in Dispatchers, NEW x \in Rooms, HandOff(d, x)
      PROVE  line'[q][u] \in {0, line[q][u]}
  BY <1>1, HandOffFacts DEF RoomInv
<1>2. ASSUME NEW v \in Visits, ZAdd(v)
      PROVE  \/ line'[q][u] = line[q][u]
             \/ User(v) = u /\ Room(v) = q /\ line[q][u] = 0 /\ line'[q][u] = number[v]
  BY <1>2 DEF ZAdd, InLine, RoomInv, TypeOK
<1>3. ASSUME NEW x \in Rooms, ExpireKey(x)
      PROVE  line'[q][u] \in {0, line[q][u]}
  <2>1. line' = line \/ line' = [line EXCEPT ![x] = [y \in Users |-> 0]]
    BY <1>3 DEF ExpireKey
  <2>2. line \in [Rooms -> [Users -> Nat]]
    BY DEF RoomInv, TypeOK
  <2> QED
    BY <2>1, <2>2
<1>4. \/ \E d \in Dispatchers, x \in Rooms : HandOff(d, x)
      \/ \E v \in Visits : ZAdd(v)
      \/ \E x \in Rooms : ExpireKey(x)
      \/ UNCHANGED line
  BY DEF Next, JoinStep, DispatcherStep, WorkerStep, WorkerFault, Visit, ZScore, Incr, SAdd,
         ExpireLine, ExpireSeq, AnswerJoin, Poll, JoinFails, Book, TurnedAway, Tick, ZCard,
         SRem, TickFails, ReadBatch, ReadReplyLost, IssueToken, IssueFails, Ack, AckFails,
         Reclaim, Crash, Restart, ExpireToken, vars, lineVars
<1> QED
  BY <1>1, <1>2, <1>3, <1>4

\* The counter grows with a draw, and is 0 again when it has expired.
LEMMA CounterSteps ==
    ASSUME FifoInv, [Next]_vars, NEW q \in Rooms, q \notin torn'
    PROVE  \/ seq'[q] >= seq[q]
           \/ InLine(q) = {} /\ ~HalfWay(q) /\ UNCHANGED <<line, pageVars>>
<1>1. ASSUME NEW v \in Visits, Incr(v)
      PROVE  seq'[q] >= seq[q]
  BY <1>1 DEF Incr, FifoInv, RoomInv, TypeOK
<1>2. ASSUME NEW x \in Rooms, ExpireKey(x), seq'[q] # seq[q]
      PROVE  InLine(q) = {} /\ ~HalfWay(q) /\ UNCHANGED <<line, pageVars>>
  <2>1. x = q /\ Head(ttl[x]) # "line"
    BY <1>2 DEF ExpireKey, FifoInv, RoomInv, TypeOK
  <2> QED
    BY <1>2, <2>1, CounterExpires
<1>3. \/ \E v \in Visits : Incr(v)
      \/ \E x \in Rooms : ExpireKey(x)
      \/ UNCHANGED seq
  BY DEF Next, JoinStep, DispatcherStep, WorkerStep, WorkerFault, Visit, ZScore, ZAdd, SAdd,
         ExpireLine, ExpireSeq, AnswerJoin, Poll, JoinFails, Book, TurnedAway, Tick, HandOff, ZCard,
         SRem, TickFails, ReadBatch, ReadReplyLost, IssueToken, IssueFails, Ack, AckFails,
         Reclaim, Crash, Restart, ExpireToken, vars, lineVars
<1>4. seq[q] \in Nat
  BY DEF FifoInv, RoomInv, TypeOK
<1> QED
  BY <1>1, <1>2, <1>3, <1>4

\* A drawn number is the page's from its Incr on.
LEMMA DrawSteps ==
    ASSUME RoomInv, [Next]_vars, NEW v \in Visits, at'[v] = "zadd"
    PROVE  \/ at[v] = "zadd" /\ number'[v] = number[v] /\ who'[v] = who[v]
           \/ /\ Incr(v) /\ who'[v] = who[v] /\ Room(v) \in Rooms
              /\ number'[v] = seq[Room(v)] + 1 /\ seq'[Room(v)] = seq[Room(v)] + 1
<1>1. CASE at'[v] = at[v] /\ number'[v] = number[v] /\ who'[v] = who[v]
  BY <1>1
<1>2. CASE Incr(v)
  <2>1. Room(v) \in Rooms
    BY <1>2 DEF Incr, RoomInv, VisitInv, Entry, Room
  <2> QED
    BY <1>2, <2>1 DEF Incr, RoomInv, TypeOK
<1>3. ASSUME \/ \E x \in Entry : Visit(v, x)
             \/ ZScore(v) \/ ZAdd(v) \/ SAdd(v) \/ ExpireLine(v) \/ ExpireSeq(v)
             \/ AnswerJoin(v) \/ Poll(v) \/ JoinFails(v) \/ Book(v) \/ TurnedAway(v)
      PROVE  FALSE
  BY <1>3 DEF Visit, ZScore, ZAdd, SAdd, ExpireLine, ExpireSeq, AnswerJoin, Poll,
              JoinFails, Book, TurnedAway, Goto, RoomInv, TypeOK
<1> QED
  BY <1>1, <1>2, <1>3, PageSteps DEF JoinStep

\* No number, in line or on its way, is above the counter of a room that is whole.
LEMMA CounterInvStep ==
    ASSUME FifoInv, [Next]_vars
    PROVE  CounterInv'
<1>1. RoomInv /\ CounterInv
  BY DEF FifoInv
<1>2. /\ seq \in [Rooms -> Nat] /\ seq' \in [Rooms -> Nat]
      /\ line \in [Rooms -> [Users -> Nat]] /\ line' \in [Rooms -> [Users -> Nat]]
  BY <1>1, RoomInvStep DEF RoomInv, TypeOK
<1>3. ASSUME NEW q \in Rooms, q \notin torn, q \notin torn', NEW u \in Users
      PROVE  line'[q][u] <= seq'[q]
  <2>1. CASE UNCHANGED <<line, pageVars>> /\ InLine(q) = {}
    BY <1>2, <1>3, <2>1 DEF InLine
  <2>2. CASE seq'[q] >= seq[q]
    <3>1. CASE line'[q][u] \in {0, line[q][u]}
      BY <1>1, <1>2, <1>3, <2>2, <3>1 DEF CounterInv, Counted
    <3>2. ASSUME NEW v \in Visits, ZAdd(v), Room(v) = q, line'[q][u] = number[v]
          PROVE  line'[q][u] <= seq'[q]
      <4>1. number[v] \in 1..seq[q]
        BY <1>1, <1>3, <3>2 DEF CounterInv, Counted, ZAdd
      <4> QED
        BY <1>2, <2>2, <3>2, <4>1
    <3> QED
      BY <1>1, <3>1, <3>2, LineNumbers
  <2> QED
    BY <1>3, <2>1, <2>2, CounterSteps
<1>4. ASSUME NEW q \in Rooms, q \notin torn, q \notin torn',
             NEW v \in Visits, at'[v] = "zadd", Room(v)' = q
      PROVE  number'[v] \in 1..seq'[q]
  <2>1. CASE Incr(v) /\ who'[v] = who[v] /\ Room(v) \in Rooms
             /\ number'[v] = seq[Room(v)] + 1 /\ seq'[Room(v)] = seq[Room(v)] + 1
    BY <1>2, <1>4, <2>1 DEF Room
  <2>2. CASE at[v] = "zadd" /\ number'[v] = number[v] /\ who'[v] = who[v]
    <3>1. Room(v) = q
      BY <1>4, <2>2 DEF Room
    <3>2. HalfWay(q)
      BY <2>2, <3>1 DEF HalfWay
    <3>3. seq'[q] >= seq[q] /\ number[v] \in 1..seq[q]
      BY <1>1, <1>4, <2>2, <3>1, <3>2, CounterSteps DEF CounterInv, Counted
    <3> QED
      BY <1>2, <2>2, <3>1, <3>3
  <2> QED
    BY <1>1, <1>4, <2>1, <2>2, DrawSteps
<1>5. ASSUME NEW q \in torn, q \in Rooms, q \notin torn'
      PROVE  Counted(q)'
  <2>1. InLine(q)' = {} /\ ~HalfWay(q)'
    BY <1>1, <1>5, TornSteps
  <2>2. ASSUME NEW u \in Users
        PROVE  line'[q][u] <= seq'[q]
    <3>1. line'[q][u] = 0 /\ seq'[q] \in Nat
      BY <1>2, <1>5, <2>1 DEF InLine
    <3> QED
      BY <3>1
  <2>3. ~ \E v \in Visits : at'[v] = "zadd" /\ Room(v)' = q
    BY <2>1 DEF HalfWay
  <2> QED
    BY <2>2, <2>3 DEF Counted
<1>6. ASSUME NEW q \in Rooms, q \notin torn'
      PROVE  Counted(q)'
  BY <1>3, <1>4, <1>5, <1>6 DEF Counted
<1> QED
  BY <1>6 DEF CounterInv

\* While somebody stays in line of a room, its TTLs change by being renewed.
LEMMA TTLSteps ==
    ASSUME FifoInv, [Next]_vars, NEW q \in Rooms, q \notin torn', InLine(q) # {}, InLine(q)' # {}
    PROVE  \/ ttl'[q] = ttl[q]
           \/ \E v \in Visits : /\ ExpireLine(v) /\ Room(v) = q
                                /\ ttl'[q] = Append(Without(q, "line"), "line")
           \/ \E v \in Visits : /\ ExpireSeq(v) /\ Room(v) = q
                                /\ ttl'[q] = Append(Without(q, "seq"), "seq")
<1>1. /\ ttl \in [Rooms -> TTLs] /\ line \in [Rooms -> [Users -> Nat]]
      /\ RoomInv
  BY DEF FifoInv, RoomInv, TypeOK, TTLs
<1>2. ASSUME NEW d \in Dispatchers, NEW x \in Rooms, HandOff(d, x)
      PROVE  ttl'[q] = ttl[q]
  <2>1. \/ ttl' = ttl
        \/ (\A u \in Users : line'[x][u] = 0) /\ ttl' = [ttl EXCEPT ![x] = Without(x, "line")]
    BY <1>1, <1>2, HandOffFacts DEF RoomInv
  <2>2. x = q => \E u \in Users : line'[x][u] # 0
    BY DEF InLine
  <2> QED
    BY <1>1, <2>1, <2>2
<1>3. ASSUME NEW x \in Rooms, ExpireKey(x)
      PROVE  ttl'[q] = ttl[q]
  <2>1. x # q
    <3>1. CASE Head(ttl[x]) = "line"
      <4>1. line' = [line EXCEPT ![x] = [u \in Users |-> 0]]
        BY <1>3, <3>1 DEF ExpireKey
      <4> QED
        BY <1>1, <4>1 DEF InLine
    <3>2. CASE Head(ttl[x]) # "line"
      BY <1>3, <3>2, CounterExpires
    <3> QED
      BY <3>1, <3>2
  <2>2. ttl' = [ttl EXCEPT ![x] = Tail(@)]
    BY <1>3 DEF ExpireKey
  <2> QED
    BY <1>1, <2>1, <2>2
<1>4. ASSUME NEW v \in Visits, ExpireLine(v)
      PROVE  ttl'[q] = ttl[q] \/ (Room(v) = q /\ ttl'[q] = Append(Without(q, "line"), "line"))
  BY <1>1, <1>4 DEF ExpireLine
<1>5. ASSUME NEW v \in Visits, ExpireSeq(v)
      PROVE  ttl'[q] = ttl[q] \/ (Room(v) = q /\ ttl'[q] = Append(Without(q, "seq"), "seq"))
  BY <1>1, <1>5 DEF ExpireSeq
<1>6. \/ \E d \in Dispatchers, x \in Rooms : HandOff(d, x)
      \/ \E v \in Visits : ExpireLine(v) \/ ExpireSeq(v)
      \/ \E x \in Rooms : ExpireKey(x)
      \/ UNCHANGED ttl
  BY DEF Next, JoinStep, DispatcherStep, WorkerStep, WorkerFault, Visit, ZScore, Incr, ZAdd, SAdd,
         AnswerJoin, Poll, JoinFails, Book, TurnedAway, Tick, ZCard,
         SRem, TickFails, ReadBatch, ReadReplyLost, IssueToken, IssueFails, Ack, AckFails,
         Reclaim, Crash, Restart, ExpireToken, vars, lineVars
<1> QED
  BY <1>2, <1>3, <1>4, <1>5, <1>6

\* Where the handlers of a room stand when one of them sees to its TTLs.
LEMMA Renewal ==
    ASSUME RoomInv, "api" \notin Faults, [Next]_vars, NEW q \in Rooms, NEW v \in Visits,
           at[v] \in {"sadd", "expire_line", "expire_seq"}, Room(v) = q
    PROVE  /\ Room(v)' = q
           /\ \/ at'[v] = at[v]
              \/ at[v] = "sadd" /\ at'[v] = "expire_line"
              \/ at[v] = "expire_line" /\ at'[v] = "expire_seq" /\ ExpireLine(v)
              \/ at[v] = "expire_seq" /\ ExpireSeq(v)
<1>1. CASE at'[v] = at[v] /\ number'[v] = number[v] /\ who'[v] = who[v]
  BY <1>1 DEF Room
<1>2. CASE SAdd(v) \/ ExpireLine(v) \/ ExpireSeq(v)
  BY <1>2 DEF SAdd, ExpireLine, ExpireSeq, Goto, Room, RoomInv, TypeOK
<1>3. ASSUME \/ \E x \in Entry : Visit(v, x)
             \/ ZScore(v) \/ Incr(v) \/ ZAdd(v)
             \/ AnswerJoin(v) \/ Poll(v) \/ JoinFails(v) \/ Book(v) \/ TurnedAway(v)
      PROVE  FALSE
  BY <1>3 DEF Visit, ZScore, Incr, ZAdd, AnswerJoin, Poll, JoinFails, Book, TurnedAway
<1> QED
  BY <1>1, <1>2, <1>3, PageSteps DEF JoinStep

\* While every join is carried to its end, the line of a room expires before its
\* counter.
LEMMA ExpiryInvStep ==
    ASSUME FifoInv, "expire" \in Faults, "api" \notin Faults, [Next]_vars
    PROVE  ExpiryInv'
<1>1. RoomInv /\ CounterInv /\ ExpiryInv
  BY DEF FifoInv
<1>2. ASSUME NEW q \in Rooms, q \notin torn', InLine(q)' # {}
      PROVE  LineFirst(q)'
  <2>0. q \notin torn
    BY <1>1, <1>2, TornSteps
  <2>1. ASSUME NEW v \in Visits, ZAdd(v), Room(v) = q
        PROVE  LineFirst(q)'
    <3>1. at'[v] = "sadd" /\ Room(v)' = q
      BY <1>1, <2>1 DEF ZAdd, Goto, Room, RoomInv, TypeOK
    <3> QED
      BY <3>1 DEF LineFirst
  <2>2. ASSUME NEW v \in Visits, ExpireLine(v), Room(v) = q,
               ttl'[q] = Append(Without(q, "line"), "line")
        PROVE  LineFirst(q)'
    <3>1. at'[v] = "expire_seq" /\ Room(v)' = q
      BY <1>1, <2>2 DEF ExpireLine, Goto, Room, RoomInv, TypeOK
    <3>2. HasTTL(q, "line")'
      BY <2>2, RenewedHasTTL DEF HasTTL
    <3> QED
      BY <3>1, <3>2 DEF LineFirst
  <2>3. ASSUME InLine(q) # {}, HasTTL(q, "line"), NEW v \in Visits, ExpireSeq(v), Room(v) = q
        PROVE  LineFirst(q)'
    <3>1. seq[q] # 0
      BY <1>1, <2>0, <2>3 DEF CounterInv, Counted, InLine, RoomInv, TypeOK
    <3>2. ttl'[q] = Append(Without(q, "seq"), "seq")
      BY <1>1, <2>3, <3>1 DEF ExpireSeq, RoomInv, TypeOK
    <3> QED
      BY <1>1, <2>3, <3>2, WithoutFacts DEF LineFirst, RoomInv
  <2>4. CASE InLine(q) # {}
    <3>1. ASSUME HasTTL(q, "line"), ttl'[q] = ttl[q]
          PROVE  HasTTL(q, "line")'
      BY <3>1 DEF HasTTL
    <3>2. CASE ttl[q] = <<"line", "seq">>
      <4>1. HasTTL(q, "line")
        BY <3>2 DEF HasTTL
      <4>2. CASE ttl'[q] = ttl[q]
        BY <3>2, <4>2 DEF LineFirst
      <4> QED
        BY <1>1, <1>2, <2>2, <2>3, <2>4, <4>1, <4>2, TTLSteps
    <3>3. ASSUME NEW v \in Visits, at[v] \in {"sadd", "expire_line"}, Room(v) = q
          PROVE  LineFirst(q)'
      <4>1. CASE at'[v] \in {"sadd", "expire_line"} /\ Room(v)' = q
        BY <4>1 DEF LineFirst
      <4>2. CASE ExpireLine(v)
        <5>1. ttl'[q] = Append(Without(q, "line"), "line")
          BY <1>1, <2>4, <3>3, <4>2 DEF ExpireLine, RoomInv, TypeOK
        <5> QED
          BY <2>2, <3>3, <4>2, <5>1
      <4> QED
        BY <1>1, <3>3, <4>1, <4>2, Renewal
    <3>4. ASSUME HasTTL(q, "line"), NEW v \in Visits, at[v] = "expire_seq", Room(v) = q
          PROVE  LineFirst(q)'
      <4>1. CASE ExpireSeq(v)
        BY <2>3, <2>4, <3>4, <4>1
      <4>2. CASE at'[v] = at[v] /\ Room(v)' = q
        <5>1. CASE ttl'[q] = ttl[q]
          BY <3>1, <3>4, <4>2, <5>1 DEF LineFirst
        <5> QED
          BY <1>1, <1>2, <2>2, <2>3, <2>4, <3>4, <5>1, TTLSteps
      <4> QED
        BY <1>1, <3>4, <4>1, <4>2, Renewal
    <3> QED
      BY <1>1, <2>0, <2>4, <3>2, <3>3, <3>4 DEF ExpiryInv, LineFirst
  <2>5. ASSUME InLine(q) = {}
        PROVE  \E v \in Visits : ZAdd(v) /\ Room(v) = q
    BY <1>1, <1>2, <2>5, LineNumbers DEF InLine
  <2> QED
    BY <2>1, <2>4, <2>5
<1> QED
  BY <1>2 DEF ExpiryInv

\* A number that stays in line is the one it was, and whoever comes before it
\* has come before it already.
LEMMA AheadShrinks ==
    ASSUME FifoInv, [Next]_vars, NEW q \in Rooms \ torn, NEW u \in InLine(q), u \in InLine(q)'
    PROVE  Ahead(q, u)' \subseteq Ahead(q, u)
<1>1. RoomInv /\ CounterInv /\ line \in [Rooms -> [Users -> Nat]] /\ seq \in [Rooms -> Nat]
  BY DEF FifoInv, RoomInv, TypeOK
<1>2. u \in Users /\ line'[q][u] = line[q][u] /\ line[q][u] <= seq[q]
  BY <1>1, LineNumbers DEF InLine, CounterInv, Counted
<1>3. ASSUME NEW x \in InLine(q)' \ {u}, line'[q][x] <= line'[q][u]
      PROVE  x \in Ahead(q, u)
  <2>1. x \in Users /\ line'[q][x] # 0
    BY <1>3 DEF InLine
  <2>2. CASE line'[q][x] = line[q][x]
    BY <1>2, <1>3, <2>1, <2>2 DEF Ahead, InLine
  <2>3. ASSUME NEW v \in Visits, ZAdd(v), User(v) = x, Room(v) = q, line'[q][x] = number[v]
        PROVE  x \in Ahead(q, u)
    BY <1>2, <1>3, <2>3 DEF Ahead, ZAdd
  <2> QED
    BY <1>1, <2>1, <2>2, <2>3, LineNumbers
<1>4. ASSUME NEW v \in Visits, at'[v] = "zadd", Room(v)' = q, number'[v] <= line'[q][u]
      PROVE  User(v)' \in Ahead(q, u)
  <2>1. CASE at[v] = "zadd" /\ number'[v] = number[v] /\ who'[v] = who[v]
    <3>1. Room(v) = q /\ User(v)' = User(v)
      BY <1>4, <2>1 DEF Room, User
    <3> QED
      BY <1>2, <1>4, <2>1, <3>1 DEF Ahead
  <2>2. CASE who'[v] = who[v] /\ number'[v] = seq[Room(v)] + 1
    <3>1. number'[v] = seq[q] + 1
      BY <1>4, <2>2 DEF Room
    <3> QED
      BY <1>1, <1>2, <1>4, <3>1
  <2> QED
    BY <1>1, <1>4, <2>1, <2>2, DrawSteps
<1>5. Ahead(q, u)' = {x \in InLine(q)' \ {u} : line'[q][x] <= line'[q][u]} \cup
                     {User(v)' : v \in {x \in Visits : at'[x] = "zadd" /\ Room(x)' = q
                                                       /\ number'[x] <= line'[q][u]}}
  BY DEF Ahead
<1> QED
  BY <1>3, <1>4, <1>5

\* While no key expires, or every join is carried to its end, queue_join's
\* numbers are first come, first served: whoever is in line is never overtaken
\* by a number drawn later, by a second visit of the same user, or after the
\* line or the counter has expired, unless the counter did between the INCR of
\* a join and its EXPIRE.
THEOREM FirstComeFirstServed ==
    ASSUME ~({"api", "expire"} \subseteq Faults)
    PROVE  Spec => NobodyCutsIn
<1>1. Init => FifoInv
  BY RoomInvInit DEF Init, FifoInv, CounterInv, Counted, ExpiryInv, InLine
<1>2. FifoInv /\ [Next]_vars => FifoInv'
  BY RoomInvStep, CounterInvStep, ExpiryInvStep DEF FifoInv
<1>3. FifoInv /\ [Next]_vars =>
        [\A q \in Rooms \ torn : \A u \in InLine(q) \cap InLine(q)' : Ahead(q, u)' \subseteq Ahead(q, u)]_vars
  BY AheadShrinks
<1> QED
  BY <1>1, <1>2, <1>3, PTL DEF Spec, NobodyCutsIn
=============================================================================
