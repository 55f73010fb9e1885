------------------------ MODULE PaymentServiceProofs ------------------------
(***************************************************************************)
(* Proofs about PaymentService, for every set of calls, users, requests    *)
(* and amounts, every starting balance and every choice of tasks.          *)
(*                                                                         *)
(* The first part is about sums: what a sum over a finite set of payments  *)
(* becomes when a payment is added, by the induction of SetInduction.      *)
(***************************************************************************)
EXTENDS PaymentService, SetInduction

\* Payments whose amounts can be added up.
Summable(S) == IsFiniteSet(S) /\ \A p \in S : p.amount \in Nat

\* g is the sum of every subset of S, whichever element is taken out first.
IsSum(g, S) ==
    /\ g \in [SUBSET S -> Nat]
    /\ g[{}] = 0
    /\ \A s \in SUBSET S : \A p \in s : g[s] = p.amount + g[s \ {p}]

\* g is what the fold of the community modules computes on the subsets of S.
IsFold(g, S) ==
    g = [s \in SUBSET S |->
            IF s = {} THEN 0
            ELSE (CHOOSE p \in s : TRUE).amount + g[s \ {CHOOSE p \in s : TRUE}]]

Total(S) == MapThenSumSet(LAMBDA p : p.amount, S)

\* A sum of every subset of a finite set of payments exists.
LEMMA SumExists ==
    ASSUME NEW S, Summable(S)
    PROVE  \E g : IsSum(g, S)
<1> DEFINE Good == {T \in SUBSET S : \E g : IsSum(g, T)}
<1>1. {} \in Good
  <2>1. IsSum([s \in SUBSET {} |-> 0], {})
    BY DEF IsSum
  <2> QED
    BY <2>1
<1>2. ASSUME NEW T \in SUBSET S, NEW x \in S \ T, T \in Good
      PROVE  T \cup {x} \in Good
  <2>1. PICK g : IsSum(g, T)
    BY <1>2
  <2>2. x.amount \in Nat
    BY DEF Summable
  <2> DEFINE h == [s \in SUBSET (T \cup {x}) |->
                      IF x \in s THEN x.amount + g[s \ {x}] ELSE g[s]]
  <2>3. ASSUME NEW s \in SUBSET (T \cup {x})
        PROVE  s \ {x} \in SUBSET T /\ (x \notin s => s \in SUBSET T)
    OBVIOUS
  <2>4. h \in [SUBSET (T \cup {x}) -> Nat]
    BY <2>1, <2>2, <2>3 DEF IsSum
  <2>5. h[{}] = 0
    BY <2>1 DEF IsSum
  <2>6. ASSUME NEW s \in SUBSET (T \cup {x}), NEW p \in s
        PROVE  h[s] = p.amount + h[s \ {p}]
    <3>1. CASE x \notin s
      <4>1. s \in SUBSET T /\ x \notin s \ {p} /\ s \ {p} \in SUBSET (T \cup {x})
        BY <3>1
      <4>2. h[s] = g[s] /\ h[s \ {p}] = g[s \ {p}]
        BY <3>1, <4>1
      <4> QED
        BY <2>1, <4>1, <4>2 DEF IsSum
    <3>2. CASE p = x
      <4>1. h[s] = x.amount + g[s \ {x}] /\ h[s \ {x}] = g[s \ {x}]
        BY <3>2
      <4> QED
        BY <3>2, <4>1
    <3>3. CASE x \in s /\ p # x
      <4>1. s \ {x} \in SUBSET T /\ p \in s \ {x} /\ (s \ {p}) \ {x} = (s \ {x}) \ {p}
        BY <3>3
      <4>2. h[s] = x.amount + g[s \ {x}] /\ h[s \ {p}] = x.amount + g[(s \ {x}) \ {p}]
        BY <3>3, <4>1
      <4>3. g[s \ {x}] = p.amount + g[(s \ {x}) \ {p}]
        BY <2>1, <4>1 DEF IsSum
      <4>4. p.amount \in Nat /\ g[(s \ {x}) \ {p}] \in Nat
        BY <2>1, <4>1 DEF IsSum, Summable
      <4> QED
        BY <2>2, <4>2, <4>3, <4>4
    <3> QED
      BY <3>1, <3>2, <3>3
  <2>7. IsSum(h, T \cup {x})
    BY <2>4, <2>5, <2>6 DEF IsSum
  <2> QED
    BY <2>7
<1> HIDE DEF Good
<1>3. ASSUME NEW T \in SUBSET S, \A U \in SUBSET T : U # T => U \in Good
      PROVE  T \in Good
  <2>1. CASE T = {}
    BY <1>1, <2>1
  <2>2. CASE T # {}
    <3>1. PICK x \in T : TRUE
      BY <2>2
    <3>2. T \ {x} \in SUBSET S /\ x \in S \ (T \ {x}) /\ T = (T \ {x}) \cup {x}
      BY <3>1
    <3>3. T \ {x} \in Good
      BY <1>3, <3>1
    <3> QED
      BY <1>2, <3>2, <3>3
  <2> QED
    BY <2>1, <2>2
<1>4. SUBSET S \subseteq Good
  BY <1>3, SubsetInduction DEF Summable
<1> QED
  BY <1>4 DEF Good

\* It is what the fold computes.
LEMMA FoldIsSum ==
    ASSUME NEW S, Summable(S), NEW g, IsSum(g, S)
    PROVE  Total(S) = g[S]
<1> DEFINE First(s) == CHOOSE p \in s : TRUE
<1>1. Total(S) = (CHOOSE f : IsFold(f, S))[S]
  BY DEF Total, MapThenSumSet, MapThenFoldSet, IsFold
<1>2. IsFold(g, S)
  <2>1. ASSUME NEW s \in SUBSET S, s # {}
        PROVE  g[s] = First(s).amount + g[s \ {First(s)}]
    <3>1. First(s) \in s
      BY <2>1
    <3> QED
      BY <3>1 DEF IsSum
  <2>2. g = [s \in SUBSET S |-> g[s]]
    BY DEF IsSum
  <2> QED
    BY <2>1, <2>2 DEF IsFold, IsSum
<1>3. PICK f : f = (CHOOSE k : IsFold(k, S)) /\ IsFold(f, S)
  BY <1>2
<1> DEFINE Same == {s \in SUBSET S : f[s] = g[s]}
<1>4. ASSUME NEW T \in SUBSET S, \A U \in SUBSET T : U # T => U \in Same
      PROVE  T \in Same
  <2>1. CASE T = {}
    BY <1>3, <2>1 DEF IsFold, IsSum
  <2>2. CASE T # {}
    <3>1. First(T) \in T
      BY <2>2
    <3>2. f[T \ {First(T)}] = g[T \ {First(T)}]
      BY <1>4, <3>1
    <3>3. f[T] = First(T).amount + f[T \ {First(T)}]
      BY <1>3, <2>2 DEF IsFold
    <3> QED
      BY <3>1, <3>2, <3>3 DEF IsSum
  <2> QED
    BY <2>1, <2>2
<1> HIDE DEF Same
<1>5. SUBSET S \subseteq Same
  BY <1>4, SubsetInduction DEF Summable
<1> QED
  BY <1>1, <1>3, <1>5 DEF Same

\* Adding a payment to a set adds its amount to the total of the set.
LEMMA TotalAdds ==
    ASSUME NEW S, Summable(S), NEW p, p \notin S, p.amount \in Nat
    PROVE  Total(S \cup {p}) = Total(S) + p.amount
<1> DEFINE U == S \cup {p}
<1>1. Summable(U)
  BY FS_AddElement DEF Summable
<1>2. PICK g : IsSum(g, U)
  BY <1>1, SumExists
<1>3. IsSum([s \in SUBSET S |-> g[s]], S)
  BY <1>2 DEF IsSum
<1>4. Total(U) = g[U]
  BY <1>1, <1>2, FoldIsSum
<1>5. Total(S) = g[S]
  BY <1>3, FoldIsSum
<1>6. U \in SUBSET U /\ S \in SUBSET U /\ p \in U /\ U \ {p} = S
  OBVIOUS
<1>7. g[U] = p.amount + g[S] /\ g[S] \in Nat
  BY <1>2, <1>6 DEF IsSum
<1> QED
  BY <1>4, <1>5, <1>7

\* The total of nothing is 0, and every total is a number.
LEMMA TotalIsNat ==
    /\ Total({}) = 0
    /\ \A S : Summable(S) => Total(S) \in Nat
<1>1. ASSUME NEW S, Summable(S)
      PROVE  Total(S) \in Nat /\ (S = {} => Total(S) = 0)
  <2>1. PICK g : IsSum(g, S)
    BY <1>1, SumExists
  <2>2. Total(S) = g[S]
    BY <1>1, <2>1, FoldIsSum
  <2>3. g \in [SUBSET S -> Nat] /\ g[{}] = 0
    BY <2>1 DEF IsSum
  <2> QED
    BY <2>2, <2>3
<1>2. Summable({})
  BY FS_EmptySet DEF Summable
<1>3. Total({}) = 0
  BY <1>1, <1>2
<1> QED
  BY <1>1, <1>3
-----------------------------------------------------------------------------
\* Where a call stands says what it is, what it has read and what exists.
CallInv ==
    \A c \in Calls :
        /\ pc[c] = "idle" <=> task[c] = Null
        /\ pc[c] = "done" <=> answer[c] # "none"
        /\ pc[c] \in {"existing", "lock", "write"} => ~IsRead(c)
        /\ pc[c] = "commit" => IsRead(c)

\* A call that got past ensure_balance has a row: its own insert, which nobody
\* else can see yet, or a committed one.
EnsuredInv ==
    \A c \in Calls :
        /\ fresh[c] => pc[c] \in {"commit", "lock", "write"} /\ rows[User(c)] = Null
        /\ pc[c] \in {"commit", "lock", "write"} => fresh[c] \/ rows[User(c)] # Null

\* A call about to write has seen the balance as it is, and it is enough.
SeenInv ==
    \A c \in Calls : pc[c] = "write" => seen[c] = Points(User(c)) /\ Amount(c) <= seen[c]

\* One transaction at a time holds a user's row, inserted or locked.
Holds(c) == fresh[c] \/ pc[c] = "write"
RowLockInv ==
    \A c, d \in Calls :
        Holds(c) /\ Holds(d) /\ User(c) = User(d) => c = d

\* The history is finite and no payment is without a committed balance.
HistoryInv ==
    /\ IsFiniteSet(history)
    /\ \A p \in history : rows[p.user] # Null

PayInv ==
    /\ TypeOK /\ CallInv /\ EnsuredInv /\ SeenInv /\ RowLockInv
    /\ HistoryInv /\ OnePaymentPerRequest /\ PointsConserved
-----------------------------------------------------------------------------
\* A call that has begun asks for something of a user.
LEMMA TaskFacts ==
    ASSUME TypeOK, NEW c \in Calls, task[c] # Null
    PROVE  /\ task[c] \in Tasks
           /\ User(c) \in Users
           /\ Amount(c) \in Nat
           /\ IsRead(c) => task[c] \in Read
           /\ ~IsRead(c) => task[c] \in Payment /\ NewRow(c) \in Row
  BY ServiceAssumption
     DEF TypeOK, User, Amount, IsRead, Task, Read, Payment, NewRow, Row

\* What somebody has is a number.
LEMMA PointsIsNat ==
    ASSUME TypeOK, NEW u \in Users
    PROVE  Points(u) \in Nat
  BY ServiceAssumption DEF TypeOK, Points

\* The payments of one user, and all of them, can be added up.
LEMMA HistorySummable ==
    ASSUME TypeOK, HistoryInv, NEW u \in Users
    PROVE  Summable(PaidBy(u)) /\ Total(PaidBy(u)) \in Nat
<1>1. PaidBy(u) \in SUBSET history
  BY DEF PaidBy
<1>2. IsFiniteSet(PaidBy(u))
  BY <1>1, FS_Subset DEF HistoryInv
<1>3. Summable(PaidBy(u))
  BY <1>1, <1>2, ServiceAssumption DEF TypeOK, Row, Summable
<1> QED
  BY <1>3, TotalIsNat

\* What was spent is the total of the payments.
LEMMA SpentIsTotal ==
    ASSUME NEW u
    PROVE  Spent(u) = Total(PaidBy(u)) /\ Spent(u)' = Total(PaidBy(u)')
  BY DEF Spent, Total, MapThenSumSet, MapThenFoldSet

\* As long as the two tables stay, their story stays.
LEMMA TablesKept ==
    ASSUME HistoryInv, OnePaymentPerRequest, PointsConserved, UNCHANGED <<rows, history>>
    PROVE  HistoryInv' /\ OnePaymentPerRequest' /\ PointsConserved'
<1>1. HistoryInv' /\ OnePaymentPerRequest'
  BY DEF HistoryInv, OnePaymentPerRequest
<1>2. ASSUME NEW u \in Users
      PROVE  Points(u)' = Points(u) /\ Spent(u)' = Spent(u)
  BY SpentIsTotal DEF Points, PaidBy
<1> QED
  BY <1>1, <1>2 DEF PointsConserved

-----------------------------------------------------------------------------
\* A call that arrives holds nothing yet.
LEMMA ReceiveKeeps ==
    ASSUME PayInv, NEW c \in Calls, NEW t \in Tasks, Receive(c, t)
    PROVE  TypeOK' /\ CallInv' /\ EnsuredInv' /\ SeenInv' /\ RowLockInv'
<1> USE DEF PayInv, Receive, Goto
<1>0. t # Null /\ (t.request = Null \/ t.request \in Requests)
  BY ServiceAssumption DEF Task, Payment, Read
<1>1. TypeOK'
  BY DEF TypeOK, Steps
<1>2. CallInv'
  BY <1>0 DEF TypeOK, CallInv, IsRead
<1>3. EnsuredInv'
  BY DEF TypeOK, EnsuredInv, User
<1>4. SeenInv'
  BY DEF TypeOK, SeenInv, User, Amount, Points
<1>5. RowLockInv'
  BY DEF TypeOK, EnsuredInv, RowLockInv, Holds, User
<1> QED
  BY <1>1, <1>2, <1>3, <1>4, <1>5

\* A transaction that is rolled back gives its row and its lock away and leaves
\* nothing behind.
LEMMA RollbackKeeps ==
    ASSUME PayInv, NEW c \in Calls, pc[c] # "idle",
           NEW a \in {"paid", "insufficient", "error"}, Rollback(c, a)
    PROVE  TypeOK' /\ CallInv' /\ EnsuredInv' /\ SeenInv' /\ RowLockInv'
<1> USE DEF PayInv, Rollback, Finish, Goto
<1>1. TypeOK'
  BY DEF TypeOK, Steps
<1>2. CallInv'
  BY DEF TypeOK, CallInv, IsRead
<1>3. EnsuredInv'
  BY DEF TypeOK, EnsuredInv, User
<1>4. SeenInv'
  BY DEF TypeOK, SeenInv, User, Amount, Points
<1>5. RowLockInv'
  BY DEF TypeOK, RowLockInv, Holds, User
<1> QED
  BY <1>1, <1>2, <1>3, <1>4, <1>5

\* ensure_balance only reads: what it found decides where the call goes on.
LEMMA EnsureKeeps ==
    ASSUME PayInv, NEW c \in Calls, FindNone(c) \/ EnsureReads(c)
    PROVE  TypeOK' /\ CallInv' /\ EnsuredInv' /\ SeenInv' /\ RowLockInv'
<1> USE DEF PayInv, FindNone, EnsureReads, Goto
<1>0. task[c] # Null
  BY DEF CallInv
<1>1. PICK l \in {"ensure", "insert", "commit", "lock"} :
        /\ pc' = [pc EXCEPT ![c] = l]
        /\ l = "commit" => IsRead(c)
        /\ l = "lock" => ~IsRead(c)
        /\ l \in {"commit", "lock"} => rows[User(c)] # Null
        /\ UNCHANGED <<rows, history, task, fresh, seen, answer>>
        /\ pc[c] \in {"existing", "ensure"}
  <2>1. CASE FindNone(c)
    BY <2>1
  <2>2. CASE EnsureReads(c) /\ rows[User(c)] = Null
    BY <2>2
  <2>3. CASE EnsureReads(c) /\ rows[User(c)] # Null /\ IsRead(c)
    BY <2>3
  <2>4. CASE EnsureReads(c) /\ rows[User(c)] # Null /\ ~IsRead(c)
    BY <2>4
  <2> QED
    BY <2>1, <2>2, <2>3, <2>4
<1>2. TypeOK'
  BY <1>1 DEF TypeOK, Steps
<1>3. CallInv'
  BY <1>1 DEF TypeOK, CallInv, IsRead
<1>4. EnsuredInv'
  BY <1>1 DEF TypeOK, EnsuredInv, User
<1>5. SeenInv'
  BY <1>1 DEF TypeOK, SeenInv, User, Amount, Points
<1>6. RowLockInv'
  BY <1>1 DEF TypeOK, RowLockInv, Holds, User
<1> QED
  BY <1>2, <1>3, <1>4, <1>5, <1>6

\* A balance row is inserted only while nobody holds one of that user.
LEMMA InsertKeeps ==
    ASSUME PayInv, NEW c \in Calls, EnsureInserts(c)
    PROVE  TypeOK' /\ CallInv' /\ EnsuredInv' /\ SeenInv' /\ RowLockInv'
<1> USE DEF PayInv, EnsureInserts, Goto
<1>0. task[c] # Null
  BY DEF CallInv
<1>1. PICK l \in {"commit", "lock"} :
        /\ pc' = [pc EXCEPT ![c] = l]
        /\ l = "commit" <=> IsRead(c)
        /\ fresh' = [fresh EXCEPT ![c] = TRUE]
        /\ UNCHANGED <<rows, history, task, seen, answer>>
        /\ rows[User(c)] = Null
        /\ pc[c] = "insert"
  OBVIOUS
<1>2. \A d \in Calls \ {c} : Holds(d) => User(d) # User(c)
  BY DEF RowBusy, Holds, CallInv, EnsuredInv
<1> USE <1>1
<1> HIDE DEF EnsureInserts, Goto
<1>3. TypeOK'
  BY DEF TypeOK, Steps
<1>4. CallInv'
  BY DEF TypeOK, CallInv, IsRead
<1>5. EnsuredInv'
  BY DEF TypeOK, EnsuredInv, User
<1>6. SeenInv'
  BY DEF TypeOK, SeenInv, User, Amount, Points
<1>7. RowLockInv'
  BY <1>2 DEF TypeOK, RowLockInv, Holds, User
<1> QED
  BY <1>3, <1>4, <1>5, <1>6, <1>7

\* FOR UPDATE returns the balance as it is, to one transaction at a time.
LEMMA LockKeeps ==
    ASSUME PayInv, NEW c \in Calls, LockRow(c)
    PROVE  TypeOK' /\ CallInv' /\ EnsuredInv' /\ SeenInv' /\ RowLockInv'
<1> USE DEF PayInv, LockRow, Goto
<1>0. task[c] # Null
  BY DEF CallInv
<1>1. \A d \in Calls \ {c} : Holds(d) => User(d) # User(c)
  BY DEF RowBusy, Holds, CallInv, EnsuredInv
<1>2. Visible(c) = Points(User(c)) /\ Visible(c) \in Nat
  BY <1>0, TaskFacts, PointsIsNat DEF Visible, Points, EnsuredInv
<1>3. TypeOK'
  BY <1>2 DEF TypeOK, Steps
<1>4. CallInv'
  BY DEF TypeOK, CallInv, IsRead
<1>5. EnsuredInv'
  BY DEF TypeOK, EnsuredInv, User
<1>6. SeenInv'
  BY <1>2 DEF TypeOK, SeenInv, User, Amount, Points
<1>7. RowLockInv'
  BY <1>1 DEF TypeOK, RowLockInv, Holds, User
<1> QED
  BY <1>3, <1>4, <1>5, <1>6, <1>7

\* A read of the balance commits what everybody had assumed: the default.
LEMMA CommitReadKeeps ==
    ASSUME PayInv, NEW c \in Calls, CommitRead(c)
    PROVE  PayInv'
<1> USE DEF PayInv, CommitRead, Finish, Goto
<1>0. task[c] # Null
  BY DEF CallInv
<1>a. PICK a \in {"paid", "error"} : Finish(c, a)
  BY DEF Committed
<1>1. Visible(c) = Points(User(c)) /\ Visible(c) \in Nat /\ User(c) \in Users
  BY <1>0, TaskFacts, PointsIsNat DEF Visible, Points, EnsuredInv
<1>2. /\ rows'[User(c)] \in Nat
      /\ \A u \in Users : Points(u)' = Points(u)
      /\ \A u \in Users : rows[u] # Null => rows'[u] = rows[u]
      /\ \A u \in Users : rows[u] = Null /\ u # User(c) => rows'[u] = Null
  BY <1>1, ServiceAssumption DEF TypeOK, Points
<1>3. TypeOK'
  BY <1>1, <1>a DEF TypeOK, Steps
<1>4. CallInv'
  BY <1>a DEF TypeOK, CallInv, IsRead
<1>5. EnsuredInv'
  <2>1. ASSUME NEW d \in Calls, d # c, fresh[d] \/ pc[d] \in {"commit", "lock", "write"}
        PROVE  /\ User(d) \in Users
               /\ fresh[d] => User(d) # User(c)
    BY <2>1, TaskFacts DEF CallInv, EnsuredInv, RowLockInv, Holds
  <2> QED
    BY <1>2, <2>1 DEF TypeOK, EnsuredInv, User
<1>6. SeenInv'
  BY <1>2, TaskFacts DEF TypeOK, SeenInv, CallInv, User, Amount
<1>7. RowLockInv'
  BY DEF TypeOK, RowLockInv, Holds, User
<1>8. HistoryInv' /\ OnePaymentPerRequest'
  BY <1>2 DEF TypeOK, HistoryInv, OnePaymentPerRequest, Row
<1>9. PointsConserved'
  <2>1. ASSUME NEW u \in Users
        PROVE  Spent(u)' = Spent(u)
    BY SpentIsTotal DEF PaidBy
  <2> QED
    BY <1>2, <2>1 DEF PointsConserved
<1> QED
  BY <1>3, <1>4, <1>5, <1>6, <1>7, <1>8, <1>9
\* A payment takes its amount from the balance that is there and adds itself to
\* the history: the one user's two columns move together.
LEMMA PayKeeps ==
    ASSUME PayInv, NEW c \in Calls, Pay(c)
    PROVE  PayInv'
<1> USE DEF PayInv, Pay, Finish, Goto
<1>0. task[c] # Null /\ ~IsRead(c)
  BY DEF CallInv
<1>a. PICK a \in {"paid", "error"} : Finish(c, a)
  BY DEF Committed
<1>1. /\ User(c) \in Users /\ Amount(c) \in Nat /\ NewRow(c) \in Row
      /\ seen[c] = Points(User(c)) /\ Amount(c) <= seen[c] /\ seen[c] \in Nat
  BY <1>0, TaskFacts DEF TypeOK, SeenInv
<1>2. PICK u \in Users : u = User(c) /\ User(c)' = u
  BY <1>1 DEF User
<1>3. /\ Points(u) - Amount(c) \in Nat
      /\ rows'[u] = Points(u) - Amount(c)
      /\ Points(u)' = Points(u) - Amount(c)
      /\ \A v \in Users \ {u} : rows'[v] = rows[v] /\ Points(v)' = Points(v)
  <2>1. /\ rows' = [rows EXCEPT ![u] = Points(u) - Amount(c)]
        /\ Points(u) - Amount(c) \in Nat
    BY <1>1, <1>2
  <2> QED
    BY <2>1, ServiceAssumption DEF TypeOK, Points
<1>4. ASSUME NEW d \in Calls, d # c, Holds(d)
      PROVE  User(d) \in Users /\ User(d) # u
  BY <1>2, <1>4, TaskFacts DEF RowLockInv, Holds, CallInv, EnsuredInv
<1>5. TypeOK'
  BY <1>1, <1>2, <1>3, <1>a DEF TypeOK, Steps
<1>6. CallInv'
  BY <1>a DEF TypeOK, CallInv, IsRead
<1>7. EnsuredInv'
  <2>1. ASSUME NEW d \in Calls, d # c, pc[d] \in {"commit", "lock", "write"}
        PROVE  User(d) \in Users
    BY <2>1, TaskFacts DEF CallInv
  <2> QED
    BY <1>2, <1>3, <1>4, <2>1, ServiceAssumption DEF TypeOK, EnsuredInv, User, Holds
<1>8. SeenInv'
  BY <1>2, <1>3, <1>4 DEF TypeOK, SeenInv, Holds, User, Amount
<1>9. RowLockInv'
  BY DEF TypeOK, RowLockInv, Holds, User
<1>10. HistoryInv'
  <2>1. IsFiniteSet(history \cup {NewRow(c)})
    BY FS_AddElement DEF HistoryInv
  <2> QED
    BY <1>1, <1>2, <1>3, <2>1, ServiceAssumption DEF TypeOK, HistoryInv, NewRow, Row
<1>11. OnePaymentPerRequest'
  BY DEF OnePaymentPerRequest, Settled, NewRow
<1>12. PointsConserved'
  <2>1. ASSUME NEW v \in Users, v # u
        PROVE  Spent(v)' = Spent(v)
    <3>1. PaidBy(v)' = PaidBy(v)
      BY <1>2, <2>1 DEF PaidBy, NewRow
    <3> QED
      BY <3>1, SpentIsTotal
  <2>2. Spent(u)' = Spent(u) + Amount(c)
    <3>1. PICK p : p = NewRow(c)
      OBVIOUS
    <3>2. PICK S : S = PaidBy(u)
      OBVIOUS
    <3>3. PaidBy(u)' = S \cup {p}
      BY <1>2, <3>1, <3>2 DEF PaidBy, NewRow, User
    <3>4. p \notin S /\ p.amount = Amount(c)
      BY <3>1, <3>2 DEF PaidBy, NewRow, Settled
    <3>5. Total(S \cup {p}) = Total(S) + p.amount
      BY <1>1, <3>2, <3>4, HistorySummable, TotalAdds
    <3> QED
      BY <3>2, <3>3, <3>4, <3>5, SpentIsTotal
  <2>3. \A v \in Users : Spent(v) \in Nat /\ Points(v) \in Nat
    BY HistorySummable, SpentIsTotal, PointsIsNat
  <2> QED
    BY <1>1, <1>3, <2>1, <2>2, <2>3 DEF PointsConserved
<1> QED
  BY <1>5, <1>6, <1>7, <1>8, <1>9, <1>10, <1>11, <1>12

-----------------------------------------------------------------------------
\* At the start nobody has a row and nothing is paid.
LEMMA PayInvInit == Init => PayInv
<1> SUFFICES ASSUME Init PROVE PayInv
  OBVIOUS
<1> USE DEF Init
<1>1. TypeOK /\ CallInv /\ EnsuredInv /\ SeenInv /\ RowLockInv
  BY DEF TypeOK, Steps, CallInv, EnsuredInv, SeenInv, RowLockInv, Holds
<1>2. HistoryInv /\ OnePaymentPerRequest
  BY FS_EmptySet DEF HistoryInv, OnePaymentPerRequest
<1>3. PointsConserved
  <2>1. ASSUME NEW u \in Users
        PROVE  Spent(u) = 0 /\ Points(u) = StartPoints[u] /\ StartPoints[u] \in Nat
    <3>1. PaidBy(u) = {}
      BY DEF PaidBy
    <3> QED
      BY <3>1, SpentIsTotal, TotalIsNat, ServiceAssumption DEF Points
  <2> QED
    BY <2>1 DEF PointsConserved
<1> QED
  BY <1>1, <1>2, <1>3 DEF PayInv

\* Every statement of every call preserves the invariant.
LEMMA PayInvStep == PayInv /\ [Next]_vars => PayInv'
<1> SUFFICES ASSUME PayInv, [Next]_vars PROVE PayInv'
  OBVIOUS
<1> DEFINE CallsKept == TypeOK /\ CallInv /\ EnsuredInv /\ SeenInv /\ RowLockInv
<1>1. CallsKept' /\ UNCHANGED <<rows, history>> => PayInv'
  BY TablesKept DEF PayInv
<1>2. CASE UNCHANGED vars
  BY <1>1, <1>2 DEF vars, PayInv, TypeOK, CallInv, EnsuredInv, SeenInv, RowLockInv, Holds,
                    User, Amount, IsRead, Points
<1>3. ASSUME NEW c \in Calls, NEW t \in Tasks, Receive(c, t)
      PROVE  PayInv'
  BY <1>1, <1>3, ReceiveKeeps DEF Receive
<1>4. ASSUME NEW c \in Calls, Step(c) \/ Abort(c)
      PROVE  PayInv'
  <2>1. CASE FindNone(c) \/ EnsureReads(c)
    BY <1>1, <2>1, EnsureKeeps DEF FindNone, EnsureReads
  <2>2. CASE EnsureInserts(c)
    BY <1>1, <2>2, InsertKeeps DEF EnsureInserts
  <2>3. CASE LockRow(c)
    BY <1>1, <2>3, LockKeeps DEF LockRow
  <2>4. CASE FindExisting(c) \/ EnsureCollides(c) \/ LockRowRefuses(c) \/ PayCollides(c) \/ Abort(c)
    <3>1. PICK a \in {"paid", "insufficient", "error"} : Rollback(c, a)
      BY <2>4 DEF FindExisting, EnsureCollides, LockRowRefuses, PayCollides, Abort
    <3>2. pc[c] # "idle"
      BY <2>4 DEF FindExisting, EnsureCollides, LockRowRefuses, PayCollides, Abort
    <3> QED
      BY <1>1, <3>1, <3>2, RollbackKeeps DEF Rollback
  <2>5. CASE CommitRead(c)
    BY <2>5, CommitReadKeeps
  <2>6. CASE Pay(c)
    BY <2>6, PayKeeps
  <2> QED
    BY <1>4, <2>1, <2>2, <2>3, <2>4, <2>5, <2>6 DEF Step
<1> QED
  BY <1>2, <1>3, <1>4 DEF Next

\* So it holds of every behaviour.
LEMMA PayInvHolds == Spec => []PayInv
  BY PayInvInit, PayInvStep, PTL DEF Spec

\* The tables and the calls keep their shape.
THEOREM PaymentTypeOK == Spec => []TypeOK
<1>1. PayInv => TypeOK
  BY DEF PayInv
<1> QED
  BY <1>1, PayInvHolds, PTL

\* What a user has left and what payment_history says was paid add up to the
\* starting balance, whatever calls overlap, collide or are cut.
THEOREM PointsAreConserved == Spec => []PointsConserved
<1>1. PayInv => PointsConserved
  BY DEF PayInv
<1> QED
  BY <1>1, PayInvHolds, PTL

\* A booking request is paid once, although the check for an existing payment
\* is made before the row lock is taken.
THEOREM RequestsArePaidOnce == Spec => []OnePaymentPerRequest
<1>1. PayInv => OnePaymentPerRequest
  BY DEF PayInv
<1> QED
  BY <1>1, PayInvHolds, PTL

\* The balance FOR UPDATE returned is still the balance when the call writes.
THEOREM SeenBalanceIsCurrent == Spec => []SeenIsCurrent
<1>1. PayInv => SeenIsCurrent
  BY DEF PayInv, SeenInv, SeenIsCurrent
<1> QED
  BY <1>1, PayInvHolds, PTL

-----------------------------------------------------------------------------
\* The ledger's view of a call, of a balance and of the payments.
LTask   == [c \in Calls |-> IF c \in Deductions THEN task[c] ELSE Null]
LAnswer == [c \in Calls |-> IF c \in Deductions THEN answer[c] ELSE "none"]
LPoints == [u \in Users |-> Points(u)]
Paid(p) == [request |-> p.request, user |-> p.user, amount |-> p.amount]
LPaid   == {Paid(p) : p \in history}

LedgerView == <<LTask, LAnswer, LPoints, LPaid>>

\* Reads are not in the ledger, and neither are calls nobody has made.
LEMMA ViewOfDeduction ==
    ASSUME PayInv, NEW c \in Calls, c \in Deductions
    PROVE  /\ LTask[c] = task[c] /\ LTask[c] # Null /\ LAnswer[c] = answer[c]
           /\ User(c) \in Users /\ Amount(c) \in Nat
           /\ LPoints[task[c].user] = Points(User(c))
           /\ Paid(NewRow(c)) = task[c]
           /\ (\E p \in LPaid : p.request = LTask[c].request) <=> Settled(task[c].request)
<1>1. task[c] # Null /\ ~IsRead(c)
  BY DEF Deductions
<1>2. User(c) \in Users /\ Amount(c) \in Nat /\ task[c] \in Payment
  BY <1>1, TaskFacts DEF PayInv
<1>3. LTask[c] = task[c] /\ LAnswer[c] = answer[c] /\ LPoints[task[c].user] = Points(User(c))
  BY <1>2 DEF LTask, LAnswer, LPoints, User
<1>4. Paid(NewRow(c)) = task[c]
  BY <1>2 DEF Paid, NewRow, Payment, User, Amount
<1>5. (\E p \in LPaid : p.request = LTask[c].request) <=> Settled(task[c].request)
  <2>1. ASSUME NEW p \in history
        PROVE  Paid(p) \in LPaid /\ Paid(p).request = p.request
    BY DEF LPaid, Paid
  <2>2. ASSUME NEW q \in LPaid
        PROVE  \E p \in history : p.request = q.request
    BY DEF LPaid, Paid
  <2> QED
    BY <1>3, <2>1, <2>2 DEF Settled
<1> QED
  BY <1>1, <1>2, <1>3, <1>4, <1>5

\* At the start the ledger is empty and everybody has the default balance.
LEMMA LedgerInit == Init => Ledger!Init
<1> SUFFICES ASSUME Init PROVE Ledger!Init
  OBVIOUS
<1>1. LTask = [c \in Calls |-> Null] /\ LAnswer = [c \in Calls |-> "none"] /\ LPaid = {}
  BY DEF Init, LTask, LAnswer, LPaid, Deductions
<1>2. LPoints = StartPoints
  BY ServiceAssumption DEF Init, LPoints, Points
<1> QED
  BY <1>1, <1>2 DEF Ledger!Init, LTask, LAnswer, LPoints, LPaid, Paid

\* A call whose body is a deduction is a call of the ledger; a read is nothing.
LEMMA ReceiveIsCall ==
    ASSUME PayInv, NEW c \in Calls, NEW t \in Tasks, Receive(c, t)
    PROVE  (t \in Payment /\ Ledger!Call(c, t)) \/ UNCHANGED LedgerView
<1> USE DEF PayInv, Receive
<1>1. task[c] = Null /\ task' = [task EXCEPT ![c] = t] /\ UNCHANGED <<rows, history, answer>>
  BY DEF CallInv
<1>2. t # Null /\ (t \in Payment \/ t \in Read)
  BY ServiceAssumption DEF Task
<1>3. c \notin Deductions /\ LTask[c] = Null /\ UNCHANGED <<LPoints, LPaid>>
  BY <1>1 DEF Deductions, LTask, LPoints, LPaid, Points, Paid
<1>4. \A d \in Calls \ {c} : d \in Deductions' <=> d \in Deductions
  BY <1>1 DEF Deductions, IsRead, TypeOK
<1>5. answer[c] = "none"
  BY DEF CallInv
<1>6. UNCHANGED LAnswer
  BY <1>1, <1>3, <1>4, <1>5 DEF LAnswer
<1>7. CASE t \in Read
  <2>1. c \notin Deductions'
    BY <1>1, <1>7 DEF Deductions, IsRead, Read, TypeOK
  <2>2. UNCHANGED LTask
    BY <1>1, <1>3, <1>4, <2>1 DEF LTask, TypeOK
  <2> QED
    BY <1>3, <1>6, <2>2 DEF LedgerView
<1>8. CASE t \in Payment
  <2>1. c \in Deductions'
    BY <1>1, <1>2, <1>8, ServiceAssumption DEF Deductions, IsRead, Payment, TypeOK
  <2>2. LTask' = [LTask EXCEPT ![c] = t]
    BY <1>1, <1>3, <1>4, <2>1 DEF LTask, TypeOK
  <2> QED
    BY <1>3, <1>6, <1>8, <2>2 DEF Ledger!Call, LTask, LAnswer, LPoints, LPaid, Paid
<1> QED
  BY <1>2, <1>7, <1>8
\* What the end of a call is to the ledger: its answer, or nothing for a read.
LEMMA ViewOfAnswer ==
    ASSUME PayInv, NEW c \in Calls, pc[c] \notin {"idle", "done"}, NEW a,
           answer' = [answer EXCEPT ![c] = a], UNCHANGED task
    PROVE  /\ UNCHANGED LTask
           /\ c \notin Deductions => UNCHANGED LAnswer
           /\ c \in Deductions => /\ LAnswer[c] = "none"
                                  /\ LAnswer' = [LAnswer EXCEPT ![c] = a]
<1>1. Deductions' = Deductions /\ UNCHANGED LTask
  BY DEF Deductions, IsRead, LTask
<1>2. answer[c] = "none"
  BY DEF PayInv, CallInv
<1> QED
  BY <1>1, <1>2 DEF LAnswer, PayInv, TypeOK

\* A transaction that is rolled back is a failure, a refusal or a payment that
\* was there already, as its answer says; for a read it is nothing.
LEMMA RollbackIsAnswer ==
    ASSUME PayInv, NEW c \in Calls, pc[c] \notin {"idle", "done"},
           NEW a \in {"paid", "insufficient", "error"}, Rollback(c, a),
           a = "paid" => c \in Deductions /\ Settled(task[c].request),
           a = "insufficient" => c \in Deductions /\ Points(User(c)) < Amount(c)
    PROVE  [Ledger!Next]_(LedgerView)
<1>1. /\ answer' = [answer EXCEPT ![c] = a]
      /\ UNCHANGED <<task, rows, history>>
  BY DEF Rollback, Finish
<1>2. UNCHANGED <<LPoints, LPaid, LTask>>
  BY <1>1, ViewOfAnswer DEF LPoints, LPaid, Points, Paid
<1>3. CASE c \notin Deductions
  BY <1>1, <1>2, <1>3, ViewOfAnswer DEF LedgerView
<1>4. CASE c \in Deductions
  <2>1. Ledger!Answer(c, a)
    BY <1>1, <1>2, <1>4, ViewOfAnswer, ViewOfDeduction
       DEF Ledger!Answer, Ledger!Open, LTask, LAnswer
  <2>2. UNCHANGED <<LPoints, LPaid>>
    BY <1>2
  <2>3. CASE a = "error"
    BY <2>1, <2>2, <2>3 DEF Ledger!Next, Ledger!Fail, LPoints, LPaid, Paid
  <2>4. CASE a = "paid"
    <3>1. Ledger!Settled(LTask[c].request)
      BY <1>4, <2>4, ViewOfDeduction DEF Ledger!Settled, LPaid, Paid
    <3>2. Ledger!PayAgain(c)
      BY <2>1, <2>2, <2>4, <3>1 DEF Ledger!PayAgain, LTask, LPoints, LPaid, Paid
    <3> QED
      BY <3>2 DEF Ledger!Next
  <2>5. CASE a = "insufficient"
    <3>1. LPoints[LTask[c].user] < LTask[c].amount
      BY <1>4, <2>5, ViewOfDeduction DEF Amount
    <3>2. Ledger!Refuse(c)
      BY <2>1, <2>2, <2>5, <3>1 DEF Ledger!Refuse, LTask, LPoints, LPaid, Paid
    <3> QED
      BY <3>2 DEF Ledger!Next
  <2> QED
    BY <2>3, <2>4, <2>5
<1> QED
  BY <1>3, <1>4

\* The write of a payment is the ledger's payment, whole.
LEMMA PayIsPay ==
    ASSUME PayInv, NEW c \in Calls, Pay(c)
    PROVE  Ledger!Pay(c)
<1> USE DEF PayInv, Pay, Finish, Goto
<1>1. c \in Deductions
  BY DEF CallInv, Deductions
<1>2. /\ LTask[c] = task[c] /\ User(c) \in Users /\ Amount(c) \in Nat
      /\ LPoints[task[c].user] = Points(User(c)) /\ Paid(NewRow(c)) = task[c]
      /\ ~(\E p \in LPaid : p.request = LTask[c].request)
  BY <1>1, ViewOfDeduction
<1>a. PICK a \in {"paid", "error"} : Finish(c, a)
  BY DEF Committed
<1>3. Ledger!Answer(c, a)
  BY <1>1, <1>a, ViewOfAnswer, ViewOfDeduction DEF Ledger!Answer, Ledger!Open, LTask, LAnswer
<1>4. Amount(c) <= Points(User(c)) /\ seen[c] = Points(User(c)) /\ Points(User(c)) \in Nat
  BY <1>2, PointsIsNat DEF SeenInv
<1>5. LPoints' = [LPoints EXCEPT ![task[c].user] = @ - task[c].amount]
  <2>1. PICK u \in Users : u = User(c)
    BY <1>2
  <2>2. rows' = [rows EXCEPT ![u] = Points(u) - Amount(c)] /\ Points(u) - Amount(c) \in Nat
    BY <1>2, <1>4, <2>1
  <2>3. /\ Points(u)' = Points(u) - Amount(c)
        /\ \A v \in Users \ {u} : Points(v)' = Points(v)
    BY <2>2, ServiceAssumption DEF TypeOK, Points
  <2>4. task[c].user = u /\ task[c].amount = Amount(c)
    BY <2>1 DEF User, Amount
  <2> QED
    BY <2>3, <2>4 DEF LPoints
<1>6. LPaid' = LPaid \cup {task[c]}
  BY <1>2 DEF LPaid
<1> QED
  BY <1>2, <1>3, <1>4, <1>5, <1>6
     DEF Ledger!Pay, Ledger!Settled, LTask, LPoints, LPaid, Paid, Amount
\* Every step of a call is one step of the ledger, or none.
LEMMA LedgerStep == PayInv /\ [Next]_vars => [Ledger!Next]_(LedgerView)
<1> SUFFICES ASSUME PayInv, [Next]_vars PROVE [Ledger!Next]_(LedgerView)
  OBVIOUS
<1>1. UNCHANGED <<rows, history, task, answer>> => UNCHANGED LedgerView
  BY DEF LedgerView, LTask, LAnswer, LPoints, LPaid, Paid, Points, Deductions, IsRead
<1>2. CASE UNCHANGED vars
  BY <1>1, <1>2 DEF vars
<1>3. ASSUME NEW c \in Calls, NEW t \in Tasks, Receive(c, t)
      PROVE  [Ledger!Next]_(LedgerView)
  <2>1. (t \in Payment /\ Ledger!Call(c, t)) \/ UNCHANGED LedgerView
    BY <1>3, ReceiveIsCall
  <2>2. t \in Payment => t \in Ledger!Payment
    BY DEF Payment, Ledger!Payment
  <2> QED
    BY <2>1, <2>2 DEF Ledger!Next
<1>4. ASSUME NEW c \in Calls, Step(c) \/ Abort(c)
      PROVE  [Ledger!Next]_(LedgerView)
  <2>1. CASE FindNone(c) \/ EnsureReads(c) \/ EnsureInserts(c) \/ LockRow(c)
    BY <1>1, <2>1 DEF FindNone, EnsureReads, EnsureInserts, LockRow
  <2>2. CASE FindExisting(c)
    <3>1. c \in Deductions
      BY <2>2 DEF FindExisting, PayInv, CallInv, Deductions
    <3> QED
      BY <2>2, <3>1, RollbackIsAnswer DEF FindExisting
  <2>3. CASE LockRowRefuses(c)
    <3>1. c \in Deductions
      BY <2>3 DEF LockRowRefuses, PayInv, CallInv, Deductions
    <3>2. Points(User(c)) < Amount(c)
      BY <2>3 DEF LockRowRefuses, PayInv, EnsuredInv, Visible, Points
    <3> QED
      BY <2>3, <3>1, <3>2, RollbackIsAnswer DEF LockRowRefuses
  <2>4. CASE EnsureCollides(c) \/ PayCollides(c) \/ Abort(c)
    BY <2>4, RollbackIsAnswer DEF EnsureCollides, PayCollides, Abort
  <2>5. CASE CommitRead(c)
    <3>1. c \notin Deductions /\ task[c] # Null /\ pc[c] = "commit"
      BY <2>5 DEF CommitRead, PayInv, CallInv, Deductions
    <3>2. UNCHANGED <<LTask, LAnswer>>
      BY <2>5, <3>1, ViewOfAnswer DEF CommitRead, Finish
    <3>3. User(c) \in Users /\ Visible(c) = Points(User(c)) /\ Points(User(c)) \in Nat
      BY <3>1, TaskFacts, PointsIsNat DEF PayInv, EnsuredInv, Visible, Points
    <3>4. \A u \in Users : Points(u)' = Points(u)
      BY <2>5, <3>3, ServiceAssumption DEF CommitRead, Points, PayInv, TypeOK
    <3>5. UNCHANGED <<LPoints, LPaid>>
      BY <2>5, <3>4 DEF CommitRead, LPoints, LPaid, Paid
    <3> QED
      BY <3>2, <3>5 DEF LedgerView
  <2>6. CASE Pay(c)
    BY <2>6, PayIsPay DEF Ledger!Next
  <2> QED
    BY <1>4, <2>1, <2>2, <2>3, <2>4, <2>5, <2>6 DEF Step
<1> QED
  BY <1>2, <1>3, <1>4 DEF Next

\* Whatever overlaps, is duplicated, cut or left without the answer to its
\* COMMIT: each deduction amounts to one step of the atomic ledger, and reading a
\* balance to none.
THEOREM PaymentsImplementLedger == Spec => LedgerImplemented
<1>1. LedgerView = Ledger!ledgerVars /\ LedgerView' = Ledger!ledgerVars'
  BY DEF LedgerView, Ledger!ledgerVars, LTask, LAnswer, LPoints, LPaid, Paid
<1>2. PayInv /\ [Next]_vars => [Ledger!Next]_(Ledger!ledgerVars)
  BY <1>1, LedgerStep
<1> QED
  BY <1>2, LedgerInit, PayInvHolds, PTL DEF Spec, LedgerImplemented, Ledger!Spec
=============================================================================
