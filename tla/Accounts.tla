------------------------------ MODULE Accounts ------------------------------
(***************************************************************************)
(* auth-service: POST /auth/signup, /auth/login and /auth/dev-login, the   *)
(* Google login, and GET /auth/me.  Each writes or reads the table users   *)
(* in one READ COMMITTED transaction; a session is one browser tab, its    *)
(* login and its look at /auth/me.  The table has two unique keys, the id  *)
(* and (provider, login_id).  make_user_id derives the id from the login   *)
(* id, whatever the provider, and sign-ups prefix the login id: two        *)
(* accounts may share an id, and an account of the provider of sign-ups,   *)
(* which dev-login also takes, may be given either of two ids.             *)
(***************************************************************************)
EXTENDS Naturals, FiniteSets

CONSTANTS
    Sessions,
    Providers, Logins, Names, Passwords, UserIds,
    Local,     \* the provider of sign-ups
    DevId,     \* make_user_id of a login id: dev-login and Google
    LocalId,   \* make_user_id of "local-" and a login id: sign-up
    Asks,      \* the well-formed calls that may come in, a subset of Ask
    Faults,    \* of {"cut", "answer", "google", "expire"}
    Null

Account == [provider : Providers, login : Logins]
\* A row of users; the password stands for its hash, Null for none.
Row     == [id : UserIds, provider : Providers, login : Logins, name : Names,
            password : Passwords \cup {Null}]
Ask     == [kind : {"dev", "google", "signup", "login"}, provider : Providers,
            login : Logins, name : Names, password : Passwords \cup {Null}]

ASSUME AccountsAssumption ==
    /\ DevId \in [Logins -> UserIds] /\ LocalId \in [Logins -> UserIds]
    /\ Local \in Providers
    /\ Asks \subseteq Ask
    \* Of the other calls only dev-login, which takes any provider, may name Local.
    /\ \A q \in Asks : q.kind \in {"signup", "login"} => q.provider = Local
    /\ \A q \in Asks : q.kind = "google" => q.provider # Local
    /\ \A q \in Asks : q.kind \in {"signup", "login"} <=> q.password # Null
    /\ Null \notin Sessions \cup Passwords \cup Asks \cup Row

VARIABLES
    rows,    \* users, as committed
    cookie,  \* the oauth_state cookie: the session that set it, or Null
    ask, pc, \* the call of each session and where its handler stands
    tx,      \* the version of a row its transaction has written, or Null
    code,    \* how it was answered
    user,    \* the user object of the answer, which its token names
    old      \* whether its account was there when the call came in

vars == <<rows, cookie, ask, pc, tx, code, user, old>>

Steps == {"idle", "google", "exchange", "probe", "insert", "unique", "commit", "read", "in", "done"}
Codes == {"none", "in", "taken", "denied", "clash", "failed", "oauth_error", "found", "missing"}

TypeOK ==
    /\ rows \subseteq Row
    /\ cookie \in Sessions \cup {Null}
    /\ ask \in [Sessions -> Asks \cup {Null}]
    /\ pc \in [Sessions -> Steps]
    /\ tx \in [Sessions -> Row \cup {Null}]
    /\ code \in [Sessions -> Codes]
    /\ user \in [Sessions -> Row \cup {Null}]
    /\ old \in [Sessions -> BOOLEAN]

Init ==
    /\ rows = {}
    /\ cookie = Null
    /\ ask = [s \in Sessions |-> Null]
    /\ pc = [s \in Sessions |-> "idle"]
    /\ tx = [s \in Sessions |-> Null]
    /\ code = [s \in Sessions |-> "none"]
    /\ user = [s \in Sessions |-> Null]
    /\ old = [s \in Sessions |-> FALSE]

AccountOf(q) == [provider |-> q.provider, login |-> q.login]
IdOf(q)      == IF q.kind = "signup" THEN LocalId[q.login] ELSE DevId[q.login]
Wanted(q)    == [id |-> IdOf(q), provider |-> q.provider, login |-> q.login,
                 name |-> q.name, password |-> q.password]
Has(q)       == {r \in rows : AccountOf(r) = AccountOf(q)}
HasId(q)     == {r \in rows : r.id = IdOf(q)}

\* Another transaction has written a row of this id, or of this account: a row
\* comes into the index of ids first, and into that of accounts last.
IdBusy(s)      == \E t \in Sessions \ {s} : tx[t] # Null /\ tx[t].id = IdOf(ask[s])
AccountBusy(s) == \E t \in Sessions \ {s} :
    tx[t] # Null /\ pc[t] # "unique" /\ AccountOf(tx[t]) = AccountOf(ask[s])

Goto(s, label) == pc' = [pc EXCEPT ![s] = label]

\* Mutant: a connection that goes back to the pool with its transaction open.
AnswerOpen(s, c) ==
    /\ Goto(s, "done")
    /\ code' = [code EXCEPT ![s] = c]
    /\ UNCHANGED tx

\* The handler ends its transaction and answers.
Answer(s, c) ==
    /\ Goto(s, "done")
    /\ tx' = [tx EXCEPT ![s] = Null]
    /\ code' = [code EXCEPT ![s] = c]

\* An error is answered, and nothing committed.
Refuse(s, c) == Answer(s, c) /\ UNCHANGED <<rows, cookie, ask, user, old>>

\* What an exception of the database becomes: signup takes any for a duplicate.
Failure(s) == IF ask[s].kind = "signup" THEN "taken" ELSE "failed"

\* Mutant: the token is made of the request, not of the row.
LetInAsAsked(s, r) ==
    /\ Goto(s, "in")
    /\ tx' = [tx EXCEPT ![s] = Null]
    /\ code' = [code EXCEPT ![s] = "in"]
    /\ user' = [user EXCEPT ![s] = ask[s]]

\* issue_token: the answer carries the user's row and a token for it.
LetIn(s, r) ==
    /\ Goto(s, "in")
    /\ tx' = [tx EXCEPT ![s] = Null]
    /\ code' = [code EXCEPT ![s] = "in"]
    /\ user' = [user EXCEPT ![s] = r]

-----------------------------------------------------------------------------
(* A call comes in.                                                        *)

\* Whether a member asks: the account is there, with the password given.
IsMember(q) == \E r \in Has(q) : q.kind = "login" => r.password = q.password

Receive(s, q) ==
    /\ pc[s] = "idle"
    /\ ask' = [ask EXCEPT ![s] = q]
    /\ old' = [old EXCEPT ![s] = IsMember(q)]
    /\ Goto(s, CASE q.kind = "dev"    -> "probe"
                 [] q.kind = "google" -> "google"
                 [] q.kind = "signup" -> "insert"
                 [] q.kind = "login"  -> "read")
    \* GET /auth/google sets the state cookie and sends the browser away.
    /\ cookie' = IF q.kind = "google" THEN s ELSE cookie
    /\ UNCHANGED <<rows, tx, code, user>>

-----------------------------------------------------------------------------
(* GET /auth/google/callback                                               *)

\* The browser comes back with its state, or with an error of Google's.
Callback(s) ==
    /\ pc[s] = "google"
    /\ IF cookie = s
       THEN Goto(s, "exchange") /\ UNCHANGED <<rows, cookie, ask, tx, code, user, old>>
       ELSE Refuse(s, "oauth_error")

ConsentDenied(s) ==
    /\ "google" \in Faults
    /\ pc[s] = "google"
    /\ Refuse(s, "oauth_error")

\* Google returns the subject and the name of whoever consented.
Exchange(s) ==
    /\ pc[s] = "exchange"
    /\ Goto(s, "probe")
    /\ UNCHANGED <<rows, cookie, ask, tx, code, user, old>>

ExchangeFails(s) ==
    /\ "google" \in Faults
    /\ pc[s] = "exchange"
    /\ Refuse(s, "oauth_error")

\* max_age has passed.
CookieExpires ==
    /\ "expire" \in Faults
    /\ cookie # Null
    /\ cookie' = Null
    /\ UNCHANGED <<rows, ask, pc, tx, code, user, old>>

-----------------------------------------------------------------------------
(* upsert_user, and the INSERT of signup                                   *)

\* Mutant: ON CONFLICT (id), and the row read back by its id.
ProbeById(s) ==
    /\ pc[s] = "probe"
    /\ ~IdBusy(s)
    /\ IF HasId(ask[s]) = {}
       THEN Goto(s, "insert") /\ UNCHANGED tx
       ELSE /\ \E r \in HasId(ask[s]) : tx' = [tx EXCEPT ![s] = [r EXCEPT !.name = ask[s].name]]
            /\ Goto(s, "commit")
    /\ UNCHANGED <<rows, cookie, ask, code, user, old>>

\* Mutant: a plain INSERT.
ProbeNothing(s) ==
    /\ pc[s] = "probe"
    /\ ~AccountBusy(s)
    /\ Goto(s, "insert")
    /\ UNCHANGED <<rows, cookie, ask, tx, code, user, old>>

\* ON CONFLICT looks for (provider, login_id) first, and waits for whoever is
\* writing that row: DO UPDATE if it is there, an insertion if it is not.
Probe(s) ==
    /\ pc[s] = "probe"
    /\ ~AccountBusy(s)
    /\ IF Has(ask[s]) = {}
       THEN Goto(s, "insert") /\ UNCHANGED tx
       ELSE /\ \E r \in Has(ask[s]) : tx' = [tx EXCEPT ![s] = [r EXCEPT !.name = ask[s].name]]
            /\ Goto(s, "commit")
    /\ UNCHANGED <<rows, cookie, ask, code, user, old>>

\* Mutant: a sign-up that updates the row it collides with.
InsertOrReplace(s) ==
    /\ pc[s] = "insert"
    /\ ~IdBusy(s)
    /\ tx' = [tx EXCEPT ![s] = Wanted(ask[s])]
    /\ Goto(s, "commit")
    /\ UNCHANGED <<rows, cookie, ask, code, user, old>>

\* The row goes in unless its id is taken, by a row that came between or by
\* another account's: the primary key is not what ON CONFLICT names.
Insert(s) ==
    /\ pc[s] = "insert"
    /\ ~IdBusy(s)
    /\ HasId(ask[s]) = {}
    /\ tx' = [tx EXCEPT ![s] = Wanted(ask[s])]
    /\ Goto(s, "unique")
    /\ UNCHANGED <<rows, cookie, ask, code, user, old>>

InsertViolates(s) ==
    /\ pc[s] = "insert"
    /\ ~IdBusy(s)
    /\ HasId(ask[s]) # {}
    /\ Refuse(s, IF ask[s].kind = "signup" THEN "taken" ELSE "clash")

\* Mutant: a table without UNIQUE (provider, login_id).
NoUnique(s) ==
    /\ pc[s] = "unique"
    /\ Goto(s, "commit")
    /\ UNCHANGED <<rows, cookie, ask, tx, code, user, old>>

\* Its account comes into the index of (provider, login_id): an id apart may
\* have been no obstacle to a row of the same account.
Unique(s) ==
    /\ pc[s] = "unique"
    /\ ~AccountBusy(s)
    /\ Has(ask[s]) = {}
    /\ Goto(s, "commit")
    /\ UNCHANGED <<rows, cookie, ask, tx, code, user, old>>

\* A sign-up waits for whoever is writing that account and fails if it is there.
UniqueViolates(s) ==
    /\ pc[s] = "unique"
    /\ ask[s].kind = "signup"
    /\ ~AccountBusy(s)
    /\ Has(ask[s]) # {}
    /\ Refuse(s, "taken")

\* ON CONFLICT takes its row back without waiting, and looks again.
Retract(s) ==
    /\ pc[s] = "unique"
    /\ ask[s].kind # "signup"
    /\ AccountBusy(s) \/ Has(ask[s]) # {}
    /\ tx' = [tx EXCEPT ![s] = Null]
    /\ Goto(s, "probe")
    /\ UNCHANGED <<rows, cookie, ask, code, user, old>>

\* COMMIT: an inserted row appears, an updated one replaces its older version.
Write(s) ==
    rows' = {r \in rows : r.id # tx[s].id \/ AccountOf(r) # AccountOf(tx[s])} \cup {tx[s]}

\* The SELECT of the row just written, COMMIT, and the answer; Google's also
\* deletes the state cookie, whoever has set it meanwhile.
Commit(s) ==
    /\ pc[s] = "commit"
    /\ Write(s)
    /\ LetIn(s, tx[s])
    /\ cookie' = IF ask[s].kind = "google" THEN Null ELSE cookie
    /\ UNCHANGED <<ask, old>>

\* COMMIT succeeds and its answer is lost.
CommitAnswerLost(s) ==
    /\ "answer" \in Faults
    /\ pc[s] = "commit"
    /\ Write(s)
    /\ Answer(s, Failure(s))
    /\ UNCHANGED <<cookie, ask, user, old>>

\* No connection, or one that breaks before COMMIT.
Cut(s) ==
    /\ "cut" \in Faults
    /\ pc[s] \in {"probe", "insert", "unique", "commit", "read"}
    /\ Refuse(s, Failure(s))

-----------------------------------------------------------------------------
(* POST /auth/login and GET /auth/me                                       *)

Login(s) ==
    /\ pc[s] = "read"
    /\ \E r \in Has(ask[s]) : r.password = ask[s].password /\ LetIn(s, r)
    /\ UNCHANGED <<rows, cookie, ask, old>>

LoginDenied(s) ==
    /\ pc[s] = "read"
    /\ \A r \in Has(ask[s]) : r.password # ask[s].password
    /\ Refuse(s, "denied")

\* /auth/me with the token: the row of its subject as it is now, or 404.
Me(s) ==
    /\ pc[s] = "in"
    /\ Refuse(s, IF \E r \in rows : r.id = user[s].id THEN "found" ELSE "missing")

\* The token is older than twelve hours: 401.
MeExpired(s) ==
    /\ "expire" \in Faults
    /\ pc[s] = "in"
    /\ Refuse(s, "denied")

-----------------------------------------------------------------------------
HandlerStep(s) ==
    \/ Exchange(s) \/ Probe(s) \/ Insert(s) \/ InsertViolates(s)
    \/ Unique(s) \/ UniqueViolates(s) \/ Retract(s) \/ Commit(s)
    \/ Login(s) \/ LoginDenied(s) \/ Me(s)

HandlerFault(s) ==
    \/ ConsentDenied(s) \/ ExchangeFails(s) \/ CommitAnswerLost(s) \/ Cut(s) \/ MeExpired(s)

Next ==
    \/ \E s \in Sessions :
        \/ \E q \in Asks : Receive(s, q)
        \/ Callback(s)
        \/ HandlerStep(s)
        \/ HandlerFault(s)
    \/ CookieExpires

Spec == Init /\ [][Next]_vars

\* Handlers that have been called go on; a browser need not come back.
Fairness == \A s \in Sessions : WF_vars(HandlerStep(s))
FairSpec == Spec /\ Fairness

-----------------------------------------------------------------------------
(* Properties                                                              *)

\* An id stands for one account and an account has one id, whoever signs up or
\* logs in at the same time, however login ids collide and by whichever way of
\* two ids the account came in: bookings, points and saved performances are
\* kept by id alone.
OneAccountPerId ==
    \A r, t \in rows : r.id = t.id \/ AccountOf(r) = AccountOf(t) => r = t

\* Whoever is let in got the token of the account he asked for, and that
\* account is in the table: not that of a namesake with the same user id.
TokenNamesItsAccount ==
    \A s \in Sessions : user[s] # Null =>
        /\ AccountOf(user[s]) = AccountOf(ask[s])
        /\ \E r \in rows : r.id = user[s].id /\ AccountOf(r) = AccountOf(ask[s])

\* Whoever has an account gets in, with the password if it has one: he may meet
\* a failure, but is never told that he is unknown or refused for a collision,
\* whatever others do under the same id or at the same moment.
MemberIsLetIn ==
    \A s \in Sessions : old[s] /\ ask[s].kind # "signup" =>
        code[s] \notin {"taken", "clash", "missing"} /\ (code[s] = "denied" => user[s] # Null)

\* Of several sign-ups for one login id at most one is let in, and the account
\* has the password of that one: no loser's, and none of a later caller's.
SignupIsExclusive ==
    \A s \in Sessions : user[s] # Null /\ ask[s].kind = "signup" =>
        /\ \A r \in Has(ask[s]) : r.password = ask[s].password
        /\ \A t \in Sessions \ {s} :
            user[t] # Null /\ ask[t].kind = "signup" => AccountOf(ask[t]) # AccountOf(ask[s])

\* An account stays: no call removes it, moves it to another id, or changes its
\* password.  (Only its display name may be set again.)
AccountsArePermanent ==
    [][\A r \in rows : \E t \in rows' :
        t.id = r.id /\ AccountOf(t) = AccountOf(r) /\ t.password = r.password]_vars

\* Every call whose handler has begun is answered: whoever waits for a row
\* another transaction has written does not wait for ever.
EveryCallIsAnswered ==
    \A s \in Sessions :
        pc[s] \in {"exchange", "probe", "insert", "unique", "commit", "read"} ~> code[s] # "none"
=============================================================================
