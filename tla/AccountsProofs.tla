--------------------------- MODULE AccountsProofs ---------------------------
(***************************************************************************)
(* Proofs about Accounts, for any sessions, accounts and ways in which     *)
(* their user ids collide.                                                 *)
(*                                                                         *)
(* The table's two keys hold of the rows together with what open           *)
(* transactions have written: Keys says so, and that a transaction is that *)
(* of the account its session asks for.  Everything else rests on it.      *)
(* Nothing is assumed of the ids: an account may come under either of two, *)
(* and it is the index of accounts that keeps the second out.              *)
(***************************************************************************)
EXTENDS Accounts, TLAPS

\* What a session holds at each step of its handler.
HandlerInv ==
    \A s \in Sessions :
        /\ pc[s] = "idle" <=> ask[s] = Null
        /\ pc[s] \in {"unique", "commit"} <=> tx[s] # Null
        /\ user[s] # Null => pc[s] \in {"in", "done"}
        /\ pc[s] = "in" => user[s] # Null
        /\ pc[s] = "read" => ask[s].kind = "login"
        /\ pc[s] \in {"google", "exchange", "probe"} => ask[s].kind \in {"dev", "google"}
        /\ pc[s] \in {"insert", "unique"} => ask[s].kind # "login"

\* A version of a row that is written and not committed: it is the caller's, and
\* no other transaction has its id.  A row of that id is the one it updates,
\* with the password it keeps; a sign-up updates none.
WrittenInv(s) ==
    /\ AccountOf(tx[s]) = AccountOf(ask[s])
    /\ \A r \in rows : r.id = tx[s].id =>
        pc[s] = "commit" /\ AccountOf(r) = AccountOf(tx[s]) /\ r.password = tx[s].password
    /\ \A t \in Sessions \ {s} : tx[t] # Null => tx[t].id # tx[s].id
    /\ ask[s].kind = "signup" =>
        tx[s].password = ask[s].password /\ \A r \in rows : r.id # tx[s].id

\* Once both indexes have let it in, the account is under no other id, in the
\* table or in a transaction that has come as far.
UniqueInv(s) ==
    /\ \A r \in rows : AccountOf(r) = AccountOf(tx[s]) => r.id = tx[s].id
    /\ \A t \in Sessions \ {s} : pc[t] = "commit" => AccountOf(tx[t]) # AccountOf(tx[s])

TxInv ==
    \A s \in Sessions : tx[s] # Null => WrittenInv(s) /\ (pc[s] = "commit" => UniqueInv(s))

Keys == TypeOK /\ HandlerInv /\ OneAccountPerId /\ TxInv

-----------------------------------------------------------------------------
\* Null is no row, no call and no session.
LEMMA NullIsNothing == Null \notin Row /\ Null \notin Asks /\ Null \notin Sessions
  BY AccountsAssumption

\* What a call would insert is a row of its account.
LEMMA WantedRow ==
    ASSUME NEW q \in Asks
    PROVE  /\ Wanted(q) \in Row /\ AccountOf(Wanted(q)) = AccountOf(q)
           /\ Wanted(q).id = IdOf(q) /\ Wanted(q).password = q.password
<1>1. q \in Ask
  BY AccountsAssumption
<1>2. IdOf(q) \in UserIds
  BY <1>1, AccountsAssumption DEF IdOf, Ask
<1>3. Wanted(q) \in Row
  BY <1>1, <1>2 DEF Wanted, Row, Ask
<1> QED
  BY <1>3 DEF Wanted, AccountOf

\* What Probe writes: the row that is there, with the name given.
LEMMA UpdatedRow ==
    ASSUME NEW r \in Row, NEW n \in Names
    PROVE  LET t == [r EXCEPT !.name = n]
           IN  t \in Row /\ t.id = r.id /\ t.password = r.password /\ AccountOf(t) = AccountOf(r)
  BY DEF Row, AccountOf

\* A COMMIT takes no account away, nor its id or password, and adds only the
\* version written; no other row has its id or its account.
LEMMA WriteKeeps ==
    ASSUME Keys, NEW s \in Sessions, pc[s] = "commit", Write(s)
    PROVE  /\ tx[s] \in Row /\ tx[s] \in rows' /\ rows' \subseteq Row
           /\ \A t \in rows' : t = tx[s]
                \/ (t \in rows /\ t.id # tx[s].id /\ AccountOf(t) # AccountOf(tx[s]))
           /\ \A r \in rows : \E t \in rows' :
                t.id = r.id /\ AccountOf(t) = AccountOf(r) /\ t.password = r.password
<1>1. tx[s] # Null /\ tx[s] \in Row
  BY DEF Keys, HandlerInv, TypeOK
<1>2. WrittenInv(s) /\ UniqueInv(s)
  BY <1>1 DEF Keys, TxInv
<1>3. \A r \in rows : r.id = tx[s].id <=> AccountOf(r) = AccountOf(tx[s])
  BY <1>2 DEF WrittenInv, UniqueInv
<1>4. \A r \in rows : r.id = tx[s].id => r.password = tx[s].password
  BY <1>2 DEF WrittenInv
<1>5. rows' = {r \in rows : r.id # tx[s].id \/ AccountOf(r) # AccountOf(tx[s])} \cup {tx[s]}
  BY DEF Write
<1>6. rows' \subseteq Row
  BY <1>1, <1>5 DEF Keys, TypeOK
<1>7. \A t \in rows' : t = tx[s]
        \/ (t \in rows /\ t.id # tx[s].id /\ AccountOf(t) # AccountOf(tx[s]))
  BY <1>3, <1>5
<1>8. ASSUME NEW r \in rows
      PROVE  \E t \in rows' : t.id = r.id /\ AccountOf(t) = AccountOf(r) /\ t.password = r.password
  <2>1. CASE AccountOf(r) = AccountOf(tx[s])
    BY <1>3, <1>4, <1>5, <2>1
  <2>2. CASE AccountOf(r) # AccountOf(tx[s])
    BY <1>5, <2>2
  <2> QED
    BY <2>1, <2>2
<1> QED
  BY <1>1, <1>5, <1>6, <1>7, <1>8

-----------------------------------------------------------------------------
(* Keys is inductive.  Steps are of four sorts: they write nothing, they   *)
(* give a transaction up, they write a version or let it into an index, or *)
(* they commit one.                                                        *)

\* A handler that gives its transaction up leaves the others as they are.
LEMMA GiveUpKeeps ==
    ASSUME Keys, NEW s \in Sessions, NEW label \in Steps \ {"unique", "commit"},
           tx' = [tx EXCEPT ![s] = Null], pc' = [pc EXCEPT ![s] = label], UNCHANGED <<rows, ask>>
    PROVE  OneAccountPerId' /\ TxInv'
<1>1. OneAccountPerId'
  BY DEF Keys, OneAccountPerId, AccountOf
<1>2. ASSUME NEW t \in Sessions, tx'[t] # Null
      PROVE  (WrittenInv(t) /\ (pc[t] = "commit" => UniqueInv(t)))'
  <2>1. t # s /\ tx'[t] = tx[t] /\ pc'[t] = pc[t]
    BY <1>2 DEF Keys, TypeOK
  <2>2. WrittenInv(t) /\ (pc[t] = "commit" => UniqueInv(t))
    BY <1>2, <2>1 DEF Keys, TxInv
  <2>3. \A u \in Sessions : tx'[u] # Null => tx'[u] = tx[u]
    BY DEF Keys, TypeOK
  <2>4. \A u \in Sessions : pc'[u] = "commit" => pc[u] = "commit" /\ tx'[u] = tx[u]
    BY DEF Keys, TypeOK
  <2>5. WrittenInv(t)'
    BY <2>1, <2>2, <2>3 DEF WrittenInv, AccountOf
  <2>6. pc'[t] = "commit" => UniqueInv(t)'
    BY <2>1, <2>2, <2>4 DEF UniqueInv, AccountOf
  <2> QED
    BY <2>5, <2>6
<1> QED
  BY <1>1, <1>2 DEF TxInv

\* A refusal.
LEMMA RefuseKeeps ==
    ASSUME Keys, NEW s \in Sessions, NEW c \in Codes, pc[s] # "idle", Refuse(s, c)
    PROVE  Keys'
<1> USE DEF Refuse, Answer, Goto
<1>1. TypeOK'
  BY DEF Keys, TypeOK, Steps
<1>2. HandlerInv'
  BY NullIsNothing DEF Keys, HandlerInv, TypeOK
<1>3. OneAccountPerId' /\ TxInv'
  BY GiveUpKeeps DEF Steps
<1> QED
  BY <1>1, <1>2, <1>3 DEF Keys

\* A version may be written if no other transaction has the id; it comes into
\* the index of accounts at once if it updates the row of its account.
LEMMA VersionKeeps ==
    ASSUME Keys, NEW s \in Sessions, NEW v \in Row, NEW label \in {"unique", "commit"},
           pc[s] \in {"probe", "insert"}, pc' = [pc EXCEPT ![s] = label],
           tx' = [tx EXCEPT ![s] = v], UNCHANGED <<rows, cookie, ask, code, user, old>>,
           AccountOf(v) = AccountOf(ask[s]),
           \A r \in rows : r.id = v.id =>
             label = "commit" /\ AccountOf(r) = AccountOf(v) /\ r.password = v.password,
           \A t \in Sessions \ {s} : tx[t] # Null => tx[t].id # v.id,
           ask[s].kind = "signup" => v.password = ask[s].password /\ \A r \in rows : r.id # v.id,
           label = "commit" => \A r \in rows : AccountOf(r) = AccountOf(v) => r.id = v.id,
           label = "commit" => \A t \in Sessions \ {s} : pc[t] = "commit" => AccountOf(tx[t]) # AccountOf(v)
    PROVE  Keys'
<1>1. TypeOK'
  BY DEF Keys, TypeOK, Steps
<1>2. HandlerInv'
  BY NullIsNothing DEF Keys, HandlerInv, TypeOK
<1>3. OneAccountPerId'
  BY DEF Keys, OneAccountPerId, AccountOf
<1>4. tx'[s] = v /\ pc'[s] = label /\ \A u \in Sessions \ {s} : tx'[u] = tx[u] /\ pc'[u] = pc[u]
  BY DEF Keys, TypeOK
<1>5. ASSUME NEW t \in Sessions, tx'[t] # Null
      PROVE  WrittenInv(t)'
  <2>1. CASE t = s
    BY <1>4, <2>1 DEF WrittenInv, AccountOf
  <2>2. CASE t # s
    <3>1. tx'[t] = tx[t] /\ tx[t] # Null /\ pc'[t] = pc[t]
      BY <1>4, <1>5, <2>2
    <3>2. WrittenInv(t)
      BY <3>1 DEF Keys, TxInv
    <3>3. ASSUME NEW u \in Sessions \ {t}, tx'[u] # Null
          PROVE  tx'[u].id # tx[t].id
      BY <1>4, <2>2, <3>1, <3>2, <3>3 DEF WrittenInv
    <3> QED
      BY <3>1, <3>2, <3>3 DEF WrittenInv, AccountOf
  <2> QED
    BY <2>1, <2>2
<1>6. ASSUME NEW t \in Sessions, pc'[t] = "commit"
      PROVE  UniqueInv(t)'
  <2>1. CASE t = s
    BY <1>4, <1>6, <2>1 DEF UniqueInv, AccountOf
  <2>2. CASE t # s
    <3>1. tx'[t] = tx[t] /\ pc[t] = "commit" /\ tx[t] # Null
      BY <1>4, <1>6, <2>2 DEF Keys, HandlerInv
    <3>2. UniqueInv(t)
      BY <3>1 DEF Keys, TxInv
    <3>3. ASSUME NEW u \in Sessions \ {t}, pc'[u] = "commit"
          PROVE  AccountOf(tx'[u]) # AccountOf(tx[t])
      BY <1>4, <2>2, <3>1, <3>2, <3>3 DEF UniqueInv
    <3> QED
      BY <3>1, <3>2, <3>3 DEF UniqueInv, AccountOf
  <2> QED
    BY <2>1, <2>2
<1>7. TxInv'
  BY <1>5, <1>6 DEF TxInv
<1> QED
  BY <1>1, <1>2, <1>3, <1>7 DEF Keys

\* A COMMIT, answered or not, leaves the rows with their keys and the other
\* transactions alone.
LEMMA CommitKeeps ==
    ASSUME Keys, NEW s \in Sessions, NEW label \in {"in", "done"}, pc[s] = "commit", Write(s),
           tx' = [tx EXCEPT ![s] = Null], pc' = [pc EXCEPT ![s] = label], UNCHANGED ask
    PROVE  OneAccountPerId' /\ TxInv'
<1>1. tx[s] # Null /\ UniqueInv(s)
  BY DEF Keys, HandlerInv, TxInv
<1>2. \A t \in rows' : t = tx[s]
        \/ (t \in rows /\ t.id # tx[s].id /\ AccountOf(t) # AccountOf(tx[s]))
  BY WriteKeeps
<1>3. OneAccountPerId'
  BY <1>2 DEF Keys, OneAccountPerId, AccountOf
<1>4. \A t \in Sessions \ {s} : tx'[t] = tx[t] /\ pc'[t] = pc[t]
  BY DEF Keys, TypeOK
<1>5. tx'[s] = Null /\ pc'[s] = label
  BY DEF Keys, TypeOK
<1>6. ASSUME NEW t \in Sessions, tx'[t] # Null
      PROVE  (WrittenInv(t) /\ (pc[t] = "commit" => UniqueInv(t)))'
  <2>1. t # s /\ tx'[t] = tx[t] /\ pc'[t] = pc[t]
    BY <1>4, <1>5, <1>6
  <2>2. WrittenInv(t) /\ (pc[t] = "commit" => UniqueInv(t))
    BY <1>6, <2>1 DEF Keys, TxInv
  <2>3. tx[s].id # tx[t].id
    BY <1>1, <2>1, <2>2 DEF WrittenInv
  <2>4. pc[t] = "commit" => AccountOf(tx[s]) # AccountOf(tx[t])
    BY <2>1, <2>2 DEF UniqueInv
  <2>5. WrittenInv(t)'
    BY <1>2, <1>4, <1>5, <2>1, <2>2, <2>3 DEF WrittenInv, AccountOf
  <2>6. pc'[t] = "commit" => UniqueInv(t)'
    BY <1>2, <1>4, <1>5, <2>1, <2>2, <2>4 DEF UniqueInv, AccountOf
  <2> QED
    BY <2>5, <2>6
<1> QED
  BY <1>3, <1>6 DEF TxInv

\* A handler that goes on without writing.
LEMMA MoveKeeps ==
    ASSUME Keys, NEW s \in Sessions, NEW label \in Steps,
           pc[s] \in {"google", "exchange", "probe"}, label \in {"exchange", "probe", "insert"},
           Goto(s, label), UNCHANGED <<rows, cookie, ask, tx, code, user, old>>
    PROVE  Keys'
<1> USE DEF Goto
<1>1. TypeOK'
  BY DEF Keys, TypeOK, Steps
<1>2. HandlerInv'
  BY DEF Keys, HandlerInv, TypeOK
<1>3. tx' = [tx EXCEPT ![s] = Null]
  BY DEF Keys, TypeOK, HandlerInv
<1>4. OneAccountPerId' /\ TxInv'
  BY <1>3, GiveUpKeeps DEF Steps
<1> QED
  BY <1>1, <1>2, <1>4 DEF Keys

\* A call that comes in holds nothing yet.
LEMMA ReceiveKeeps ==
    ASSUME Keys, NEW s \in Sessions, NEW q \in Asks, Receive(s, q)
    PROVE  Keys'
<1>1. q \in Ask /\ q # Null
  BY AccountsAssumption
<1>2. PICK label \in {"probe", "google", "insert", "read"} :
        /\ pc' = [pc EXCEPT ![s] = label]
        /\ label = "read" => q.kind = "login"
        /\ label \in {"google", "probe"} => q.kind \in {"dev", "google"}
        /\ label = "insert" => q.kind # "login"
  <2>1. q.kind \in {"dev", "google", "signup", "login"}
    BY <1>1 DEF Ask
  <2> QED
    BY <2>1 DEF Receive, Goto
<1>3. ask' = [ask EXCEPT ![s] = q] /\ pc[s] = "idle" /\ UNCHANGED <<rows, tx, code, user>>
  BY DEF Receive
<1>4. old'[s] \in BOOLEAN /\ old' \in [Sessions -> BOOLEAN]
  <2>1. IsMember(q) \in BOOLEAN
    BY DEF IsMember
  <2> QED
    BY <2>1 DEF Receive, Keys, TypeOK
<1>5. cookie' \in Sessions \cup {Null}
  BY DEF Receive, Keys, TypeOK
<1>6. TypeOK'
  BY <1>2, <1>3, <1>4, <1>5 DEF Keys, TypeOK, Steps
<1>7. HandlerInv'
  BY <1>1, <1>2, <1>3 DEF Keys, HandlerInv, TypeOK
<1>8. OneAccountPerId'
  BY <1>3 DEF Keys, OneAccountPerId, AccountOf
<1>9. \A t \in Sessions : tx[t] # Null => t # s /\ ask'[t] = ask[t] /\ pc'[t] = pc[t]
  BY <1>2, <1>3 DEF Keys, HandlerInv, TypeOK
<1>10. \A t \in Sessions : pc'[t] = "commit" => pc[t] = "commit"
  BY <1>2, <1>3 DEF Keys, TypeOK
<1>11. ASSUME NEW t \in Sessions, tx[t] # Null
       PROVE  (WrittenInv(t) /\ (pc[t] = "commit" => UniqueInv(t)))'
  <2>1. WrittenInv(t) /\ (pc[t] = "commit" => UniqueInv(t))
    BY <1>11 DEF Keys, TxInv
  <2>2. WrittenInv(t)'
    BY <1>3, <1>9, <1>11, <2>1 DEF WrittenInv, AccountOf
  <2>3. pc'[t] = "commit" => UniqueInv(t)'
    BY <1>3, <1>10, <2>1 DEF UniqueInv, AccountOf
  <2> QED
    BY <2>2, <2>3
<1>12. TxInv'
  BY <1>3, <1>11 DEF TxInv
<1> QED
  BY <1>6, <1>7, <1>8, <1>12 DEF Keys

\* Nobody else writes an account whose turn it is: a transaction that has come
\* to COMMIT with it would keep the session waiting.
LEMMA NotBusy ==
    ASSUME Keys, NEW s \in Sessions, ~AccountBusy(s), NEW t \in Sessions \ {s}, pc[t] = "commit"
    PROVE  AccountOf(tx[t]) # AccountOf(ask[s])
  BY DEF AccountBusy, Keys, HandlerInv

\* The UPDATE of a row, or no row to update.
LEMMA ProbeKeeps ==
    ASSUME Keys, NEW s \in Sessions, Probe(s)
    PROVE  Keys'
<1>1. ask[s] \in Asks /\ ask[s] \in Ask /\ ask[s].kind # "signup"
  BY AccountsAssumption DEF Probe, Keys, TypeOK, HandlerInv
<1>2. CASE Has(ask[s]) = {}
  BY <1>2, MoveKeeps DEF Probe, Steps
<1>3. CASE Has(ask[s]) # {}
  <2>1. PICK r \in Has(ask[s]) : tx' = [tx EXCEPT ![s] = [r EXCEPT !.name = ask[s].name]]
    BY <1>3 DEF Probe
  <2> DEFINE v == [r EXCEPT !.name = ask[s].name]
  <2>2. r \in rows /\ r \in Row /\ AccountOf(r) = AccountOf(ask[s]) /\ ask[s].name \in Names
    BY <1>1 DEF Has, Keys, TypeOK, Ask
  <2>3. v \in Row /\ v.id = r.id /\ v.password = r.password /\ AccountOf(v) = AccountOf(r)
    BY <2>2, UpdatedRow
  <2>4. tx' = [tx EXCEPT ![s] = v]
    BY <2>1
  <2> HIDE DEF v
  <2>5. \A t \in rows : t.id = v.id \/ AccountOf(t) = AccountOf(v) => t = r
    BY <2>2, <2>3 DEF Keys, OneAccountPerId
  <2>6. \A t \in Sessions \ {s} : pc[t] = "commit" => AccountOf(tx[t]) # AccountOf(v)
    BY <2>2, <2>3, NotBusy DEF Probe
  <2>7. ASSUME NEW t \in Sessions \ {s}, tx[t] # Null
        PROVE  tx[t].id # v.id
    BY <2>2, <2>3, <2>6, <2>7 DEF Keys, TxInv, WrittenInv
  <2>8. pc[s] = "probe" /\ pc' = [pc EXCEPT ![s] = "commit"]
        /\ UNCHANGED <<rows, cookie, ask, code, user, old>>
    BY <1>3 DEF Probe, Goto
  <2>9. /\ \A t \in rows : t.id = v.id => AccountOf(t) = AccountOf(v) /\ t.password = v.password
        /\ \A t \in rows : AccountOf(t) = AccountOf(v) => t.id = v.id
    BY <2>3, <2>5
  <2>10. AccountOf(v) = AccountOf(ask[s])
    BY <2>2, <2>3
  <2> QED
    BY <1>1, <2>3, <2>4, <2>6, <2>7, <2>8, <2>9, <2>10, VersionKeeps
<1> QED
  BY <1>2, <1>3

\* The INSERT of a row whose id nobody has, nor is about to have.
LEMMA InsertKeeps ==
    ASSUME Keys, NEW s \in Sessions, Insert(s)
    PROVE  Keys'
<1>1. ask[s] \in Asks
  BY DEF Insert, Keys, TypeOK, HandlerInv
<1> DEFINE v == Wanted(ask[s])
<1>2. /\ v \in Row /\ AccountOf(v) = AccountOf(ask[s]) /\ v.id = IdOf(ask[s])
      /\ v.password = ask[s].password
  BY <1>1, WantedRow
<1>3. \A r \in rows : r.id # v.id
  BY <1>2 DEF Insert, HasId
<1>4. \A t \in Sessions \ {s} : tx[t] # Null => tx[t].id # v.id
  BY <1>2 DEF Insert, IdBusy
<1>5. /\ pc[s] = "insert" /\ pc' = [pc EXCEPT ![s] = "unique"] /\ tx' = [tx EXCEPT ![s] = v]
      /\ UNCHANGED <<rows, cookie, ask, code, user, old>>
  BY DEF Insert, Goto
<1> HIDE DEF v
<1>6. \A r \in rows : r.id = v.id =>
        "unique" = "commit" /\ AccountOf(r) = AccountOf(v) /\ r.password = v.password
  BY <1>3
<1>7. ask[s].kind = "signup" => v.password = ask[s].password /\ \A r \in rows : r.id # v.id
  BY <1>2, <1>3
<1> QED
  BY <1>2, <1>4, <1>5, <1>6, <1>7, VersionKeeps

\* The index of accounts lets a version in if the account is in no row and in no
\* transaction that has come as far.
LEMMA UniqueKeeps ==
    ASSUME Keys, NEW s \in Sessions, Unique(s)
    PROVE  Keys'
<1>1. /\ pc[s] = "unique" /\ pc' = [pc EXCEPT ![s] = "commit"]
      /\ UNCHANGED <<rows, cookie, ask, tx, code, user, old>>
  BY DEF Unique, Goto
<1>2. tx[s] # Null /\ WrittenInv(s)
  BY <1>1 DEF Keys, HandlerInv, TxInv
<1>3. TypeOK'
  BY <1>1 DEF Keys, TypeOK, Steps
<1>4. HandlerInv'
  BY <1>1 DEF Keys, HandlerInv, TypeOK
<1>5. OneAccountPerId'
  BY <1>1 DEF Keys, OneAccountPerId, AccountOf
<1>6. pc'[s] = "commit" /\ \A t \in Sessions \ {s} : pc'[t] = pc[t]
  BY <1>1 DEF Keys, TypeOK
<1>7. \A r \in rows : AccountOf(r) # AccountOf(tx[s])
  BY <1>2 DEF Unique, Has, WrittenInv
<1>8. \A t \in Sessions \ {s} : pc[t] = "commit" => AccountOf(tx[t]) # AccountOf(tx[s])
  BY <1>2, NotBusy DEF Unique, WrittenInv
<1>9. ASSUME NEW t \in Sessions, tx[t] # Null
      PROVE  WrittenInv(t)'
  <2>1. WrittenInv(t)
    BY <1>9 DEF Keys, TxInv
  <2>2. pc[t] = "commit" => pc'[t] = "commit"
    BY <1>6
  <2> QED
    BY <1>1, <2>1, <2>2 DEF WrittenInv, AccountOf
<1>10. ASSUME NEW t \in Sessions, pc'[t] = "commit"
       PROVE  UniqueInv(t)'
  <2>1. CASE t = s
    BY <1>1, <1>6, <1>7, <1>8, <2>1 DEF UniqueInv, AccountOf
  <2>2. CASE t # s
    <3>1. pc[t] = "commit" /\ UniqueInv(t)
      BY <1>6, <1>10, <2>2 DEF Keys, HandlerInv, TxInv
    <3> QED
      BY <1>1, <1>6, <1>8, <2>2, <3>1 DEF UniqueInv, AccountOf
  <2> QED
    BY <2>1, <2>2
<1>11. TxInv'
  BY <1>1, <1>9, <1>10 DEF TxInv
<1> QED
  BY <1>3, <1>4, <1>5, <1>11 DEF Keys

\* A version that is taken back.
LEMMA RetractKeeps ==
    ASSUME Keys, NEW s \in Sessions, Retract(s)
    PROVE  Keys'
<1>1. /\ pc[s] = "unique" /\ pc' = [pc EXCEPT ![s] = "probe"] /\ tx' = [tx EXCEPT ![s] = Null]
      /\ ask[s].kind # "signup" /\ UNCHANGED <<rows, cookie, ask, code, user, old>>
  BY DEF Retract, Goto
<1>2. ask[s].kind \in {"dev", "google"}
  <2>1. ask[s] \in Ask /\ ask[s].kind # "login"
    BY <1>1, AccountsAssumption DEF Keys, HandlerInv, TypeOK
  <2> QED
    BY <1>1, <2>1 DEF Ask
<1>3. TypeOK'
  BY <1>1 DEF Keys, TypeOK, Steps
<1>4. HandlerInv'
  BY <1>1, <1>2, NullIsNothing DEF Keys, HandlerInv, TypeOK
<1>5. OneAccountPerId' /\ TxInv'
  BY <1>1, GiveUpKeeps DEF Steps
<1> QED
  BY <1>3, <1>4, <1>5 DEF Keys

\* Every step of every handler, failures included, keeps Keys.
LEMMA KeysStep == Keys /\ [Next]_vars => Keys'
<1> SUFFICES ASSUME Keys, [Next]_vars PROVE Keys'
  OBVIOUS
<1>1. ASSUME NEW s \in Sessions, NEW q \in Asks, Receive(s, q) PROVE Keys'
  BY <1>1, ReceiveKeeps
<1>2. ASSUME NEW s \in Sessions, Callback(s) PROVE Keys'
  <2>1. CASE cookie = s
    BY <1>2, <2>1, MoveKeeps DEF Callback, Steps
  <2>2. CASE cookie # s
    BY <1>2, <2>2, RefuseKeeps DEF Callback, Codes
  <2> QED
    BY <2>1, <2>2
<1>3. ASSUME NEW s \in Sessions, Exchange(s) PROVE Keys'
  BY <1>3, MoveKeeps DEF Exchange, Steps
<1>4. ASSUME NEW s \in Sessions, Probe(s) PROVE Keys'
  BY <1>4, ProbeKeeps
<1>5. ASSUME NEW s \in Sessions, Insert(s) PROVE Keys'
  BY <1>5, InsertKeeps
<1>6. ASSUME NEW s \in Sessions, InsertViolates(s) PROVE Keys'
  BY <1>6, RefuseKeeps DEF InsertViolates, Codes
<1>7. ASSUME NEW s \in Sessions, Commit(s) PROVE Keys'
  <2>1. /\ pc[s] = "commit" /\ Write(s) /\ UNCHANGED <<ask, old>>
        /\ pc' = [pc EXCEPT ![s] = "in"] /\ tx' = [tx EXCEPT ![s] = Null]
        /\ code' = [code EXCEPT ![s] = "in"] /\ user' = [user EXCEPT ![s] = tx[s]]
        /\ cookie' \in Sessions \cup {Null}
    BY <1>7 DEF Commit, LetIn, Goto, Keys, TypeOK
  <2>2. tx[s] \in Row /\ tx[s] # Null /\ rows' \subseteq Row
    BY <2>1, WriteKeeps, NullIsNothing
  <2>3. TypeOK'
    BY <2>1, <2>2 DEF Keys, TypeOK, Steps, Codes
  <2>4. HandlerInv'
    BY <2>1, <2>2 DEF Keys, HandlerInv, TypeOK
  <2> QED
    BY <2>1, <2>3, <2>4, CommitKeeps DEF Keys
<1>8. ASSUME NEW s \in Sessions, CommitAnswerLost(s) PROVE Keys'
  <2>1. /\ pc[s] = "commit" /\ Write(s) /\ UNCHANGED <<cookie, ask, user, old>>
        /\ pc' = [pc EXCEPT ![s] = "done"] /\ tx' = [tx EXCEPT ![s] = Null]
        /\ code' = [code EXCEPT ![s] = Failure(s)]
    BY <1>8 DEF CommitAnswerLost, Answer, Goto
  <2>2. rows' \subseteq Row /\ Failure(s) \in Codes
    BY <2>1, WriteKeeps DEF Failure, Codes
  <2>3. TypeOK'
    BY <2>1, <2>2 DEF Keys, TypeOK, Steps
  <2>4. HandlerInv'
    BY <2>1 DEF Keys, HandlerInv, TypeOK
  <2> QED
    BY <2>1, <2>3, <2>4, CommitKeeps DEF Keys
<1>9. ASSUME NEW s \in Sessions, Login(s) PROVE Keys'
  <2>1. PICK r \in Has(ask[s]) : LetIn(s, r)
    BY <1>9 DEF Login
  <2>2. r \in Row /\ r # Null
    BY NullIsNothing DEF Has, Keys, TypeOK
  <2>3. /\ pc[s] = "read" /\ UNCHANGED <<rows, cookie, ask, old>>
        /\ pc' = [pc EXCEPT ![s] = "in"] /\ tx' = [tx EXCEPT ![s] = Null]
        /\ code' = [code EXCEPT ![s] = "in"] /\ user' = [user EXCEPT ![s] = r]
    BY <1>9, <2>1 DEF Login, LetIn, Goto
  <2>4. TypeOK'
    BY <2>2, <2>3 DEF Keys, TypeOK, Steps, Codes
  <2>5. HandlerInv'
    BY <2>2, <2>3 DEF Keys, HandlerInv, TypeOK
  <2>6. OneAccountPerId' /\ TxInv'
    BY <2>3, GiveUpKeeps DEF Steps
  <2> QED
    BY <2>4, <2>5, <2>6 DEF Keys
<1>10. ASSUME NEW s \in Sessions, LoginDenied(s) PROVE Keys'
  BY <1>10, RefuseKeeps DEF LoginDenied, Codes
<1>11. ASSUME NEW s \in Sessions, Me(s) PROVE Keys'
  BY <1>11, RefuseKeeps DEF Me, Codes
<1>12. ASSUME NEW s \in Sessions, ConsentDenied(s) PROVE Keys'
  BY <1>12, RefuseKeeps DEF ConsentDenied, Codes
<1>13. ASSUME NEW s \in Sessions, ExchangeFails(s) PROVE Keys'
  BY <1>13, RefuseKeeps DEF ExchangeFails, Codes
<1>14. ASSUME NEW s \in Sessions, Cut(s) PROVE Keys'
  BY <1>14, RefuseKeeps DEF Cut, Failure, Codes
<1>15. ASSUME NEW s \in Sessions, MeExpired(s) PROVE Keys'
  BY <1>15, RefuseKeeps DEF MeExpired, Codes
<1>16. CASE CookieExpires \/ UNCHANGED vars
  <2>1. UNCHANGED <<rows, ask, pc, tx, code, user, old>> /\ cookie' \in Sessions \cup {Null}
    BY <1>16 DEF CookieExpires, vars, Keys, TypeOK
  <2>2. TypeOK' /\ HandlerInv' /\ OneAccountPerId'
    BY <2>1 DEF Keys, TypeOK, HandlerInv, OneAccountPerId, AccountOf
  <2>3. ASSUME NEW s \in Sessions
        PROVE  (WrittenInv(s)' <=> WrittenInv(s)) /\ (UniqueInv(s)' <=> UniqueInv(s))
    BY <2>1 DEF WrittenInv, UniqueInv, AccountOf
  <2> QED
    BY <2>1, <2>2, <2>3 DEF Keys, TxInv
<1>17. ASSUME NEW s \in Sessions, Unique(s) PROVE Keys'
  BY <1>17, UniqueKeeps
<1>18. ASSUME NEW s \in Sessions, UniqueViolates(s) PROVE Keys'
  BY <1>18, RefuseKeeps DEF UniqueViolates, Codes
<1>19. ASSUME NEW s \in Sessions, Retract(s) PROVE Keys'
  BY <1>19, RetractKeeps
<1> QED
  BY <1>1, <1>2, <1>3, <1>4, <1>5, <1>6, <1>7, <1>8, <1>9, <1>10, <1>11, <1>12, <1>13, <1>14,
     <1>15, <1>16, <1>17, <1>18, <1>19 DEF Next, HandlerStep, HandlerFault

\* An empty table and idle sessions.
LEMMA KeysInit == Init => Keys
<1> SUFFICES ASSUME Init PROVE Keys
  OBVIOUS
<1>1. TypeOK
  BY DEF Init, TypeOK, Steps, Codes
<1>2. HandlerInv /\ OneAccountPerId /\ TxInv
  BY DEF Init, HandlerInv, OneAccountPerId, TxInv
<1> QED
  BY <1>1, <1>2 DEF Keys

\* The inductive invariant holds of every behaviour.
LEMMA KeysHold == Spec => []Keys
  BY KeysInit, KeysStep, PTL DEF Spec

-----------------------------------------------------------------------------
(* What follows from Keys                                                  *)

\* Type correctness of auth-service, whatever fails and however ids collide.
THEOREM AccountsTypeCorrect == Spec => []TypeOK
<1>1. Keys => TypeOK
  BY DEF Keys
<1> QED
  BY <1>1, KeysHold, PTL

\* users keeps both of its keys: an id stands for one account although
\* make_user_id maps several accounts to one id, and an account has one id
\* although it may come under either of two, dev-login's and the sign-up's.
THEOREM IdsAreUnique == Spec => []OneAccountPerId
<1>1. Keys => OneAccountPerId
  BY DEF Keys
<1> QED
  BY <1>1, KeysHold, PTL

\* The rows a step leaves: every account is still there, with its id and its
\* password, and what is new is a version that was committed.
LEMMA RowsStay ==
    ASSUME Keys, [Next]_vars
    PROVE  /\ \A r \in rows : \E t \in rows' :
                t.id = r.id /\ AccountOf(t) = AccountOf(r) /\ t.password = r.password
           /\ \A t \in rows' : t \in rows \/ \E s \in Sessions : pc[s] = "commit" /\ t = tx[s]
<1>1. ASSUME NEW s \in Sessions, Commit(s) \/ CommitAnswerLost(s)
      PROVE  pc[s] = "commit" /\ Write(s)
  BY <1>1 DEF Commit, CommitAnswerLost
<1>2. CASE \E s \in Sessions : Commit(s) \/ CommitAnswerLost(s)
  BY <1>1, <1>2, WriteKeeps
<1>3. CASE UNCHANGED rows
  BY <1>3
<1>4. UNCHANGED rows \/ \E s \in Sessions : Commit(s) \/ CommitAnswerLost(s)
  BY DEF Next, vars, HandlerStep, HandlerFault, Receive, Callback, Exchange, Probe, Insert,
         InsertViolates, Unique, UniqueViolates, Retract, Login, LoginDenied, Me, ConsentDenied, ExchangeFails, Cut, MeExpired,
         CookieExpires, Refuse
<1> QED
  BY <1>2, <1>3, <1>4

\* No call removes an account, gives it another id or another password: the
\* display name is all an upsert changes, and a sign-up changes nothing.
THEOREM AccountsStay == Spec => AccountsArePermanent
<1>1. Keys /\ [Next]_vars => [\A r \in rows : \E t \in rows' :
        t.id = r.id /\ AccountOf(t) = AccountOf(r) /\ t.password = r.password]_vars
  BY RowsStay
<1> QED
  BY <1>1, KeysHold, PTL DEF Spec, AccountsArePermanent

-----------------------------------------------------------------------------
(* Who is let in, and as whom                                              *)

\* A call is asked once, and its user is the row its transaction has written or
\* its login has read.
LEMMA UserStep ==
    ASSUME Keys, [Next]_vars, NEW t \in Sessions
    PROVE  /\ ask[t] # Null => ask'[t] = ask[t]
           /\ \/ user'[t] = user[t]
              \/ pc[t] = "commit" /\ user'[t] = tx[t] /\ Write(t)
              \/ pc[t] = "read" /\ user'[t] \in Has(ask[t]) /\ UNCHANGED rows
<1>1. ASSUME NEW s \in Sessions, NEW q \in Asks, Receive(s, q)
      PROVE  (ask[t] # Null => ask'[t] = ask[t]) /\ user'[t] = user[t]
  BY <1>1 DEF Receive, Keys, TypeOK, HandlerInv
<1>2. ASSUME NEW s \in Sessions, Commit(s)
      PROVE  ask' = ask /\ (user'[t] = user[t] \/ (pc[t] = "commit" /\ user'[t] = tx[t] /\ Write(t)))
  BY <1>2 DEF Commit, LetIn, Keys, TypeOK
<1>3. ASSUME NEW s \in Sessions, Login(s)
      PROVE  ask' = ask /\ \/ user'[t] = user[t]
                           \/ pc[t] = "read" /\ user'[t] \in Has(ask[t]) /\ UNCHANGED rows
  BY <1>3 DEF Login, LetIn, Keys, TypeOK
<1>4. \/ UNCHANGED <<ask, user>>
      \/ \E s \in Sessions : Commit(s) \/ Login(s) \/ \E q \in Asks : Receive(s, q)
  BY DEF Next, vars, HandlerStep, HandlerFault, Callback, Exchange, Probe, Insert, InsertViolates,
         Unique, UniqueViolates, Retract, CommitAnswerLost, LoginDenied, Me, ConsentDenied, ExchangeFails, Cut, MeExpired,
         CookieExpires, Refuse
<1> QED
  BY <1>1, <1>2, <1>3, <1>4

\* Who has a user keeps his call.
LEMMA UserHasAsked ==
    ASSUME Keys, NEW t \in Sessions, user[t] # Null
    PROVE  ask[t] # Null /\ ask[t] \in Asks
  BY DEF Keys, TypeOK, HandlerInv

\* The row behind a token stays, under the id the token names.
LEMMA TokenStep == Keys /\ TokenNamesItsAccount /\ [Next]_vars => TokenNamesItsAccount'
<1> SUFFICES ASSUME Keys, TokenNamesItsAccount, [Next]_vars,
                    NEW t \in Sessions, user'[t] # Null
             PROVE  /\ AccountOf(user'[t]) = AccountOf(ask'[t])
                    /\ \E r \in rows' : r.id = user'[t].id /\ AccountOf(r) = AccountOf(ask'[t])
  BY DEF TokenNamesItsAccount, AccountOf
<1>1. CASE user'[t] = user[t]
  <2>1. ask'[t] = ask[t]
    BY <1>1, UserHasAsked, UserStep
  <2>2. PICK r \in rows : r.id = user[t].id /\ AccountOf(r) = AccountOf(ask[t])
    BY <1>1 DEF TokenNamesItsAccount
  <2>3. \E u \in rows' : u.id = r.id /\ AccountOf(u) = AccountOf(r)
    BY RowsStay
  <2> QED
    BY <1>1, <2>1, <2>2, <2>3 DEF TokenNamesItsAccount
<1>2. CASE pc[t] = "commit" /\ user'[t] = tx[t] /\ Write(t)
  <2>1. ask[t] # Null /\ tx[t] # Null
    BY <1>2 DEF Keys, HandlerInv
  <2>2. ask'[t] = ask[t] /\ AccountOf(tx[t]) = AccountOf(ask[t]) /\ tx[t] \in rows'
    BY <1>2, <2>1, UserStep, WriteKeeps DEF Keys, TxInv, WrittenInv
  <2> QED
    BY <1>2, <2>2
<1>3. CASE pc[t] = "read" /\ user'[t] \in Has(ask[t]) /\ UNCHANGED rows
  <2>1. ask[t] # Null
    BY <1>3 DEF Keys, HandlerInv
  <2>2. ask'[t] = ask[t]
    BY <2>1, UserStep
  <2> QED
    BY <1>3, <2>2 DEF Has
<1> QED
  BY <1>1, <1>2, <1>3, UserStep

\* Whoever is let in got a token of the account he asked for, and that account
\* exists, however ids collide and whoever else logs in meanwhile.
THEOREM TokensNameTheirAccount == Spec => []TokenNamesItsAccount
<1>1. Init => TokenNamesItsAccount
  BY DEF Init, TokenNamesItsAccount
<1> QED
  BY <1>1, TokenStep, KeysHold, PTL DEF Spec

\* A sign-up that is let in is the first of its account, and its row keeps the
\* password.
LEMMA SignupStep ==
    Keys /\ TokenNamesItsAccount /\ SignupIsExclusive /\ [Next]_vars => SignupIsExclusive'
<1> SUFFICES ASSUME Keys, TokenNamesItsAccount, SignupIsExclusive, [Next]_vars,
                    NEW s \in Sessions, user'[s] # Null, ask'[s].kind = "signup"
             PROVE  /\ \A r \in rows' : AccountOf(r) = AccountOf(ask'[s]) => r.password = ask'[s].password
                    /\ \A t \in Sessions \ {s} : user'[t] # Null /\ ask'[t].kind = "signup" =>
                         AccountOf(ask'[t]) # AccountOf(ask'[s])
  BY DEF SignupIsExclusive, Has, AccountOf
<1> DEFINE Old(t) == user'[t] = user[t] /\ user[t] # Null /\ ask[t] # Null /\ ask'[t] = ask[t]
           New(t) == pc[t] = "commit" /\ tx[t] # Null /\ Write(t) /\ ask[t] # Null /\ ask'[t] = ask[t]
\* A sign-up that is let in now committed its row now; others did so before.
<1>1. ASSUME NEW t \in Sessions, user'[t] # Null, ask'[t].kind = "signup"
      PROVE  Old(t) \/ New(t)
  <2>1. CASE user'[t] = user[t]
    BY <1>1, <2>1, UserHasAsked, UserStep
  <2>2. CASE pc[t] = "commit" /\ Write(t)
    BY <2>2, UserStep DEF Keys, HandlerInv
  <2>3. CASE pc[t] = "read"
    BY <1>1, <2>3, UserStep DEF Keys, HandlerInv
  <2> QED
    BY <2>1, <2>2, <2>3, UserStep
\* A sign-up that commits finds no row of its account.
<1>2. ASSUME NEW t \in Sessions, New(t), ask[t].kind = "signup"
      PROVE  /\ \A r \in rows : AccountOf(r) # AccountOf(ask[t])
             /\ \A r \in rows' : AccountOf(r) = AccountOf(ask[t]) => r = tx[t]
             /\ tx[t].password = ask[t].password
  <2>1. WrittenInv(t) /\ UniqueInv(t)
    BY <1>2 DEF Keys, TxInv
  <2>2. \A r \in rows : AccountOf(r) # AccountOf(ask[t])
    BY <1>2, <2>1 DEF WrittenInv, UniqueInv
  <2> QED
    BY <1>2, <2>1, <2>2, WriteKeeps DEF WrittenInv
\* Where a sign-up was let in before, a row of its account is there.
<1>3. ASSUME NEW t \in Sessions, Old(t)
      PROVE  \E r \in rows : AccountOf(r) = AccountOf(ask[t])
  BY <1>3 DEF TokenNamesItsAccount
<1>4. ASSUME NEW r \in rows', AccountOf(r) = AccountOf(ask'[s])
      PROVE  r.password = ask'[s].password
  <2>1. CASE New(s)
    BY <1>2, <1>4, <2>1
  <2>2. CASE Old(s)
    <3>1. CASE r \in rows
      BY <1>4, <2>2, <3>1 DEF SignupIsExclusive, Has
    <3>2. ASSUME NEW t \in Sessions, pc[t] = "commit", r = tx[t]
          PROVE  r.password = ask'[s].password
      <4>1. PICK o \in rows : AccountOf(o) = AccountOf(ask[s])
        BY <1>3, <2>2
      <4>2. o.password = ask[s].password
        BY <2>2, <4>1 DEF SignupIsExclusive, Has
      <4>3. WrittenInv(t) /\ UniqueInv(t)
        BY <3>2 DEF Keys, TxInv, HandlerInv
      <4>4. o.id = tx[t].id
        BY <1>4, <2>2, <3>2, <4>1, <4>3 DEF UniqueInv
      <4> QED
        BY <2>2, <3>2, <4>1, <4>2, <4>3, <4>4 DEF WrittenInv
    <3> QED
      BY <3>1, <3>2, RowsStay
  <2> QED
    BY <1>1, <2>1, <2>2
<1>5. ASSUME NEW t \in Sessions \ {s}, user'[t] # Null, ask'[t].kind = "signup"
      PROVE  AccountOf(ask'[t]) # AccountOf(ask'[s])
  <2>1. CASE Old(s) /\ Old(t)
    BY <1>5, <2>1 DEF SignupIsExclusive
  <2>2. CASE Old(s) /\ New(t)
    BY <1>2, <1>3, <1>5, <2>2
  <2>3. CASE New(s) /\ Old(t)
    BY <1>2, <1>3, <2>3
  <2>4. CASE New(s) /\ New(t)
    <3>1. AccountOf(tx[t]) # AccountOf(tx[s])
      BY <2>4 DEF Keys, TxInv, UniqueInv
    <3> QED
      BY <2>4, <3>1 DEF Keys, TxInv, WrittenInv
  <2> QED
    BY <1>1, <1>5, <2>1, <2>2, <2>3, <2>4
<1> QED
  BY <1>4, <1>5

\* Of several sign-ups for a login id at most one is let in, and the account has
\* that one's password for good.
THEOREM SignupsAreExclusive == Spec => []SignupIsExclusive
<1>1. Init => TokenNamesItsAccount /\ SignupIsExclusive
  BY DEF Init, TokenNamesItsAccount, SignupIsExclusive
<1> QED
  BY <1>1, TokenStep, SignupStep, KeysHold, PTL DEF Spec

-----------------------------------------------------------------------------
(* Members are let in                                                      *)

\* What a member's handler knows: his account is there to the end, so that
\* nothing remains to be inserted for him.
MemberInv ==
    \A s \in Sessions :
        /\ pc[s] = "idle" => code[s] = "none"
        /\ old[s] => /\ pc[s] # "idle"
                     /\ IsMember(ask[s])
                     /\ pc[s] \in {"insert", "unique"} => ask[s].kind = "signup"

\* Who is a member stays one.
LEMMA MembersStay ==
    ASSUME Keys, [Next]_vars, NEW q, IsMember(q)
    PROVE  IsMember(q)'
  BY RowsStay DEF IsMember, Has, AccountOf

\* How a handler gets to the insertion, and which calls begin as a member's.
LEMMA PcStep ==
    ASSUME Keys, [Next]_vars, NEW t \in Sessions
    PROVE  \/ UNCHANGED <<ask[t], old[t], pc[t], code[t]>>
           \/ /\ pc[t] = "idle" /\ pc'[t] # "idle" /\ code'[t] = code[t] /\ UNCHANGED rows
              /\ ask'[t] \in Asks /\ old'[t] = IsMember(ask'[t])
              /\ pc'[t] \in {"insert", "unique"} => ask'[t].kind = "signup"
           \/ /\ pc[t] # "idle" /\ pc'[t] # "idle" /\ UNCHANGED <<ask[t], old[t]>>
              /\ pc'[t] = "insert" => Has(ask[t]) = {}
              /\ pc'[t] = "unique" => pc[t] = "insert"
<1>1. ASSUME NEW s \in Sessions, NEW q \in Asks, Receive(s, q)
      PROVE  \/ UNCHANGED <<ask[t], old[t], pc[t], code[t]>>
             \/ /\ pc[t] = "idle" /\ pc'[t] # "idle" /\ code'[t] = code[t] /\ UNCHANGED rows
                /\ ask'[t] \in Asks /\ old'[t] = IsMember(ask'[t])
                /\ pc'[t] \in {"insert", "unique"} => ask'[t].kind = "signup"
  <2>1. q.kind \in {"dev", "google", "signup", "login"}
    BY AccountsAssumption DEF Ask
  <2>2. PICK label \in {"probe", "google", "insert", "read"} :
          pc' = [pc EXCEPT ![s] = label] /\ (label = "insert" => q.kind = "signup")
    BY <1>1, <2>1 DEF Receive, Goto
  <2>3. /\ ask' = [ask EXCEPT ![s] = q] /\ old' = [old EXCEPT ![s] = IsMember(q)]
        /\ pc[s] = "idle" /\ UNCHANGED <<rows, code>>
    BY <1>1 DEF Receive
  <2>4. IsMember(q) = IsMember(q)'
    BY <2>3 DEF IsMember, Has, AccountOf
  <2>5. CASE t = s
    <3>1. ask'[t] = q /\ old'[t] = IsMember(q) /\ pc'[t] = label
      BY <2>2, <2>3, <2>5 DEF Keys, TypeOK
    <3> QED
      BY <2>2, <2>3, <2>5, <3>1 DEF IsMember, Has, AccountOf
  <2>6. CASE t # s
    BY <2>2, <2>3, <2>6 DEF Keys, TypeOK
  <2> QED
    BY <2>5, <2>6
<1>2. ASSUME NEW s \in Sessions, Probe(s)
      PROVE  \/ UNCHANGED <<ask[t], old[t], pc[t], code[t]>>
             \/ /\ pc[t] # "idle" /\ pc'[t] # "idle" /\ UNCHANGED <<ask[t], old[t]>>
                /\ pc'[t] = "insert" => Has(ask[t]) = {}
                /\ pc'[t] = "unique" => pc[t] = "insert"
  BY <1>2 DEF Probe, Goto, Keys, TypeOK
<1>3. ASSUME NEW s \in Sessions, NEW label, label \notin {"idle", "insert"}, pc[s] # "idle",
             label = "unique" => pc[s] = "insert",
             Goto(s, label), code' = code \/ \E c : code' = [code EXCEPT ![s] = c],
             UNCHANGED <<ask, old>>
      PROVE  \/ UNCHANGED <<ask[t], old[t], pc[t], code[t]>>
             \/ /\ pc[t] # "idle" /\ pc'[t] # "idle" /\ UNCHANGED <<ask[t], old[t]>>
                /\ pc'[t] = "insert" => Has(ask[t]) = {}
                /\ pc'[t] = "unique" => pc[t] = "insert"
  BY <1>3 DEF Goto, Keys, TypeOK
<1>4. ASSUME NEW s \in Sessions, NEW c, pc[s] # "idle", Refuse(s, c)
      PROVE  /\ pc[s] # "idle" /\ Goto(s, "done") /\ UNCHANGED <<ask, old>>
             /\ code' = [code EXCEPT ![s] = c]
  BY <1>4 DEF Refuse, Answer
<1>5. \/ \E s \in Sessions, q \in Asks : Receive(s, q)
      \/ \E s \in Sessions : Probe(s)
      \/ UNCHANGED <<ask, old, pc, code>>
      \/ \E s \in Sessions, label \in {"exchange", "probe", "unique", "commit", "in", "done"} :
            /\ pc[s] # "idle" /\ (label = "unique" => pc[s] = "insert") /\ Goto(s, label) /\ UNCHANGED <<ask, old>>
            /\ code' = code \/ \E c : code' = [code EXCEPT ![s] = c]
  <2>1. ASSUME NEW s \in Sessions, Callback(s) \/ Exchange(s) \/ Insert(s) \/ InsertViolates(s)
                 \/ Unique(s) \/ UniqueViolates(s) \/ Retract(s) \/ Commit(s) \/ Login(s) \/ LoginDenied(s) \/ Me(s) \/ HandlerFault(s)
        PROVE  \E label \in {"exchange", "probe", "unique", "commit", "in", "done"} :
                 /\ pc[s] # "idle" /\ (label = "unique" => pc[s] = "insert") /\ Goto(s, label) /\ UNCHANGED <<ask, old>>
                 /\ code' = code \/ \E c : code' = [code EXCEPT ![s] = c]
    BY <2>1, <1>4 DEF Callback, Exchange, Insert, InsertViolates, Unique, UniqueViolates, Retract, Commit, Login, LoginDenied, Me,
                      HandlerFault, ConsentDenied, ExchangeFails, CommitAnswerLost, Cut, MeExpired,
                      LetIn, Answer, Refuse
  <2> QED
    BY <2>1 DEF Next, HandlerStep, vars, CookieExpires
<1>6. CASE \E s \in Sessions, label \in {"exchange", "probe", "unique", "commit", "in", "done"} :
            /\ pc[s] # "idle" /\ (label = "unique" => pc[s] = "insert") /\ Goto(s, label) /\ UNCHANGED <<ask, old>>
            /\ code' = code \/ \E c : code' = [code EXCEPT ![s] = c]
  BY <1>3, <1>6
<1> QED
  BY <1>1, <1>2, <1>5, <1>6

\* The account of a member stays, and with it what his handler knows.
LEMMA MemberInvStep == Keys /\ MemberInv /\ [Next]_vars => MemberInv'
<1> SUFFICES ASSUME Keys, MemberInv, [Next]_vars, NEW t \in Sessions
             PROVE  /\ (pc[t] = "idle" => code[t] = "none")'
                    /\ (old[t] => /\ pc[t] # "idle"
                                  /\ IsMember(ask[t])
                                  /\ pc[t] \in {"insert", "unique"} => ask[t].kind = "signup")'
  BY DEF MemberInv
<1>1. CASE UNCHANGED <<ask[t], old[t], pc[t], code[t]>>
  <2>1. old[t] => IsMember(ask[t])'
    <3>1. PICK q : q = ask[t]
      OBVIOUS
    <3>2. old[t] => IsMember(q)
      BY <3>1 DEF MemberInv
    <3>3. old[t] => IsMember(q)'
      BY <3>2, MembersStay
    <3> QED
      BY <1>1, <3>1, <3>3 DEF IsMember, Has, AccountOf
  <2> QED
    BY <1>1, <2>1 DEF MemberInv, IsMember, Has, AccountOf
<1>2. CASE /\ pc[t] = "idle" /\ pc'[t] # "idle" /\ code'[t] = code[t] /\ UNCHANGED rows
           /\ ask'[t] \in Asks /\ old'[t] = IsMember(ask'[t])
           /\ pc'[t] \in {"insert", "unique"} => ask'[t].kind = "signup"
  BY <1>2 DEF MemberInv, IsMember, Has, AccountOf
<1>3. CASE /\ pc[t] # "idle" /\ pc'[t] # "idle" /\ UNCHANGED <<ask[t], old[t]>>
           /\ pc'[t] = "insert" => Has(ask[t]) = {}
           /\ pc'[t] = "unique" => pc[t] = "insert"
  <2>1. old[t] => IsMember(ask[t])'
    <3>1. PICK q : q = ask[t]
      OBVIOUS
    <3>2. old[t] => IsMember(q)
      BY <3>1 DEF MemberInv
    <3>3. old[t] => IsMember(q)'
      BY <3>2, MembersStay
    <3> QED
      BY <1>3, <3>1, <3>3 DEF IsMember, Has, AccountOf
  <2>2. old[t] => Has(ask[t]) # {}
    BY DEF MemberInv, IsMember
  <2> QED
    BY <1>3, <2>1, <2>2 DEF MemberInv, IsMember, Has, AccountOf
<1> QED
  BY <1>1, <1>2, <1>3, PcStep

\* How a call comes to be answered with a refusal.
LEMMA CodeStep ==
    ASSUME Keys, [Next]_vars, NEW t \in Sessions
    PROVE  \/ code'[t] = code[t] /\ (user'[t] = Null => user[t] = Null)
           \/ code'[t] \notin {"taken", "clash", "missing", "denied"}
           \/ code'[t] = "taken" /\ ask'[t].kind = "signup"
           \/ code'[t] = "clash" /\ pc[t] = "insert" /\ ask'[t] = ask[t] /\ old' = old /\ ask[t].kind # "signup"
           \/ code'[t] = "missing" /\ pc[t] = "in" /\ \A r \in rows : r.id # user[t].id
           \/ /\ code'[t] = "denied" /\ ask'[t] = ask[t] /\ old' = old
              /\ pc[t] = "read" /\ \A r \in Has(ask[t]) : r.password # ask[t].password
           \/ code'[t] = "denied" /\ pc[t] = "in" /\ user' = user
<1>1. ASSUME NEW s \in Sessions, NEW c, Refuse(s, c)
      PROVE  /\ UNCHANGED <<ask, user, old>>
             /\ code'[t] = code[t] \/ (t = s /\ code'[t] = c)
  BY <1>1 DEF Refuse, Answer, Keys, TypeOK
<1>2. ASSUME NEW s \in Sessions, LetIn(s, tx[s]) \/ \E r \in Has(ask[s]) : LetIn(s, r)
      PROVE  \/ code'[t] = code[t] /\ user'[t] = user[t]
             \/ code'[t] = "in"
  BY <1>2 DEF LetIn, Keys, TypeOK
<1>3. ASSUME NEW s \in Sessions, CommitAnswerLost(s)
      PROVE  /\ UNCHANGED <<ask, user, old>>
             /\ code'[t] = code[t] \/ (t = s /\ code'[t] = Failure(s))
  BY <1>3 DEF CommitAnswerLost, Answer, Keys, TypeOK
<1>4. CASE UNCHANGED <<code, user>>
  BY <1>4
<1>5. CASE \E s \in Sessions : Commit(s) \/ Login(s)
  BY <1>2, <1>5 DEF Commit, Login
<1>6. CASE \E s \in Sessions : CommitAnswerLost(s) \/ Cut(s)
  BY <1>1, <1>3, <1>6 DEF Cut, Failure
<1>7. CASE \E s \in Sessions : Callback(s) \/ ConsentDenied(s) \/ ExchangeFails(s)
  BY <1>1, <1>7 DEF Callback, ConsentDenied, ExchangeFails
<1>8. CASE \E s \in Sessions : InsertViolates(s) \/ UniqueViolates(s)
  BY <1>1, <1>8 DEF InsertViolates, UniqueViolates
<1>9. CASE \E s \in Sessions : LoginDenied(s)
  BY <1>1, <1>9 DEF LoginDenied
<1>10. CASE \E s \in Sessions : Me(s) \/ MeExpired(s)
  BY <1>1, <1>10 DEF Me, MeExpired
<1>11. UNCHANGED <<code, user>> \/ \E s \in Sessions :
         \/ Commit(s) \/ Login(s) \/ CommitAnswerLost(s) \/ Cut(s) \/ Callback(s) \/ ConsentDenied(s)
         \/ ExchangeFails(s) \/ InsertViolates(s) \/ UniqueViolates(s) \/ LoginDenied(s) \/ Me(s) \/ MeExpired(s)
  BY DEF Next, HandlerStep, HandlerFault, vars, CookieExpires, Receive, Exchange, Probe, Insert, Unique, Retract
<1> QED
  BY <1>4, <1>5, <1>6, <1>7, <1>8, <1>9, <1>10, <1>11

\* None of the refusals is a member's.
LEMMA MemberStep ==
    Keys /\ TokenNamesItsAccount /\ MemberInv /\ MemberIsLetIn /\ [Next]_vars => MemberIsLetIn'
<1> SUFFICES ASSUME Keys, TokenNamesItsAccount, MemberInv, MemberIsLetIn, [Next]_vars,
                    NEW t \in Sessions, old'[t], ask'[t].kind # "signup"
             PROVE  /\ code'[t] \notin {"taken", "clash", "missing"}
                    /\ code'[t] = "denied" => user'[t] # Null
  BY DEF MemberIsLetIn
<1>1. CASE code'[t] = code[t] /\ (user'[t] = Null => user[t] = Null)
  <2>1. CASE old[t] /\ ask'[t] = ask[t]
    BY <1>1, <2>1 DEF MemberIsLetIn
  <2>2. CASE code[t] = "none"
    BY <1>1, <2>2
  <2>3. (old[t] /\ ask'[t] = ask[t]) \/ code[t] = "none"
    BY PcStep DEF MemberInv
  <2> QED
    BY <2>1, <2>2, <2>3
<1>2. CASE code'[t] = "clash" /\ pc[t] = "insert" /\ ask'[t] = ask[t] /\ old' = old /\ ask[t].kind # "signup"
  BY <1>2 DEF MemberInv
<1>3. CASE code'[t] = "missing" /\ pc[t] = "in" /\ \A r \in rows : r.id # user[t].id
  BY <1>3 DEF TokenNamesItsAccount, Keys, HandlerInv
<1>4. CASE /\ code'[t] = "denied" /\ ask'[t] = ask[t] /\ old' = old
           /\ pc[t] = "read" /\ \A r \in Has(ask[t]) : r.password # ask[t].password
  BY <1>4 DEF MemberInv, IsMember, Keys, HandlerInv
<1>5. CASE code'[t] = "denied" /\ pc[t] = "in" /\ user' = user
  BY <1>5 DEF Keys, HandlerInv
<1> QED
  BY <1>1, <1>2, <1>3, <1>4, <1>5, CodeStep

\* Whoever has an account, and the password if it needs one, is never told that
\* he is unknown, nor refused for a collision of ids or of simultaneous calls.
THEOREM MembersAreLetIn == Spec => []MemberIsLetIn
<1>1. Init => TokenNamesItsAccount /\ MemberInv /\ MemberIsLetIn
  BY DEF Init, TokenNamesItsAccount, MemberInv, MemberIsLetIn
<1> QED
  BY <1>1, TokenStep, MemberInvStep, MemberStep, KeysHold, PTL DEF Spec
=============================================================================
