--------------------------- MODULE Accounts_proofs ---------------------------
(***************************************************************************)
(* Theorems about Accounts, for every set of connections, accounts and     *)
(* passwords.  What carries them is that a thread whose transaction is     *)
(* registered sees the committed tables, and at its commit those tables    *)
(* and its own write (Seen): nobody else can have committed in between.    *)
(***************************************************************************)
EXTENDS Accounts, TLAPS

\* The arguments of the call of the thread t.
ArgsOK(t) ==
    /\ t.call \in Writes \cup {"authenticate"} => t.user \in Users
    /\ t.at \in {"check", "set"} => t.call = "authenticate"
    /\ t.call \in {"create_user", "change_password"} => t.password \in Passwords
    /\ t.call = "change_password" => t.new \in Passwords

Seen ==
    \A c \in Fds :
        /\ thread[c].at = "exec" => txn.tables = tables
        /\ thread[c].at = "commit" => /\ thread[c].call \in Writes
                                      /\ Accepts(tables, thread[c])
                                      /\ txn.tables = Written(tables, thread[c])

Inv ==
    /\ TypeOK
    /\ \A c \in Fds : ArgsOK(thread[c])
    /\ Released
    /\ Seen
    /\ AnswersTrue
    /\ SignedInCommitted

\* No account of the tables a is missing in b.
Persists(a, b) == \A u \in Users : a.password[u] # NoPassword => b.password[u] # NoPassword

-----------------------------------------------------------------------------
LEMMA TransactionFresh == NoTransaction \notin Transaction
<1>1. SUFFICES ASSUME NoTransaction \in Transaction PROVE FALSE
  OBVIOUS
<1>2. "tables" \in DOMAIN NoTransaction
  BY <1>1 DEF Transaction
<1>3. DOMAIN NoTransaction = {"owner"}
  BY DEF NoTransaction
<1> QED
  BY <1>2, <1>3

\* A write keeps the types, every account and every result, and changes no
\* password but that of its account.
LEMMA WrittenProperties ==
    ASSUME NEW tbl \in Tables, NEW t \in Thread, ArgsOK(t), t.call \in Writes
    PROVE  LET w == Written(tbl, t)
           IN  /\ w \in Tables
               /\ Persists(tbl, w)
               /\ \A u \in Users : tbl.results[u] <= w.results[u]
               /\ Accepts(tbl, t) =>
                     \A u \in Users :
                        tbl.password[u] # NoPassword /\ w.password[u] # tbl.password[u] =>
                            /\ t.call = "change_password" /\ t.user = u
                            /\ t.password = tbl.password[u] /\ t.new = w.password[u]
<1> DEFINE w == Written(tbl, t)
<1>0. /\ t.user \in Users
      /\ tbl = [password |-> tbl.password, results |-> tbl.results]
      /\ tbl.password \in [Users -> Passwords \cup {NoPassword}]
      /\ tbl.results \in [Users -> Nat]
      /\ NoPassword \notin Passwords
  BY AccountsAssumption DEF ArgsOK, Tables
<1>1. CASE t.call = "create_user"
  <2>1. w = [tbl EXCEPT !.password[t.user] = t.password] /\ t.password \in Passwords
    BY <1>1 DEF Written, ArgsOK
  <2>2. w \in Tables /\ w.results = tbl.results
    BY <2>1, <1>0 DEF Tables
  <2>3. \A u \in Users : w.password[u] = IF u = t.user THEN t.password ELSE tbl.password[u]
    BY <2>1, <1>0
  <2> QED
    BY <2>1, <2>2, <2>3, <1>0, <1>1 DEF Persists, Accepts
<1>2. CASE t.call = "change_password"
  <2>1. w = [tbl EXCEPT !.password[t.user] = t.new] /\ t.new \in Passwords
    BY <1>2 DEF Written, ArgsOK
  <2>2. w \in Tables /\ w.results = tbl.results
    BY <2>1, <1>0 DEF Tables
  <2>3. \A u \in Users : w.password[u] = IF u = t.user THEN t.new ELSE tbl.password[u]
    BY <2>1, <1>0
  <2> QED
    BY <2>1, <2>2, <2>3, <1>0, <1>2 DEF Persists, Accepts, Matches
<1>3. CASE t.call = "save_training_result"
  <2>1. w = [tbl EXCEPT !.results[t.user] = @ + 1]
    BY <1>3 DEF Written
  <2>2. w \in Tables /\ w.password = tbl.password
    BY <2>1, <1>0 DEF Tables
  <2>3. \A u \in Users : w.results[u] = IF u = t.user THEN tbl.results[u] + 1 ELSE tbl.results[u]
    BY <2>1, <1>0
  <2> QED
    BY <2>2, <2>3, <1>0 DEF Persists
<1> QED
  BY <1>1, <1>2, <1>3 DEF Writes

\* Where a call leaves the thread when it is over.
LEMMA ReturnProperties ==
    ASSUME Inv, NEW c \in Fds, Return(c)
    PROVE  \E t \in Thread : /\ thread' = [thread EXCEPT ![c] = t]
                             /\ t.at \in {"recv", "begin"} /\ ArgsOK(t)
<1> DEFINE t == IF thread[c].call = "get_top_players" /\ user[c] # NoUser
                THEN [Idle EXCEPT !.at = "begin", !.call = "get_user_rank", !.user = user[c]]
                ELSE Idle
<1>1. user[c] \in Users \cup {NoUser}
  BY DEF Inv, TypeOK
<1>2. t \in Thread /\ t.at \in {"recv", "begin"} /\ t.call \in {"none", "get_user_rank"}
  BY <1>1 DEF Idle, Thread, Calls, Reads
<1>3. ArgsOK(t)
  BY <1>2 DEF ArgsOK, Writes
<1> QED
  BY <1>2, <1>3 DEF Return

-----------------------------------------------------------------------------
(* Steps of a thread that has no transaction, before and after. *)
LEMMA ThreadStep ==
    ASSUME Inv, NEW c \in Fds, thread[c].at \notin {"exec", "commit"},
           NEW t \in Thread, ArgsOK(t), t.at \in {"recv", "begin", "set"},
           t.at = "set" => tables.password[t.user] # NoPassword,
           thread' = [thread EXCEPT ![c] = t], UNCHANGED <<tables, told, txn, lost, user>>
    PROVE  Inv'
<1>1. /\ thread' \in [Fds -> Thread] /\ thread'[c] = t
      /\ \A d \in Fds : d # c => thread'[d] = thread[d]
  BY DEF Inv, TypeOK
<1>2. \A d \in Fds : ArgsOK(thread'[d])
  BY <1>1 DEF Inv
<1>3. TypeOK'
  BY <1>1, <1>2 DEF Inv, TypeOK, ArgsOK
<1>4. Released'
  BY <1>1 DEF Inv, Released
<1>5. Seen'
  BY <1>1 DEF Inv, Seen
<1>6. AnswersTrue'
  BY DEF Inv, AnswersTrue
<1>7. SignedInCommitted'
  BY <1>1 DEF Inv, SignedInCommitted
<1> QED
  BY <1>2, <1>3, <1>4, <1>5, <1>6, <1>7 DEF Inv

(* Steps of a thread that end its transaction, with or without a commit. *)
LEMMA EndStep ==
    ASSUME Inv, NEW c \in Fds, thread[c].at \in {"exec", "commit"}, Rollback,
           NEW t \in Thread, ArgsOK(t), t.at \in {"recv", "begin", "check"},
           t.at = "check" => tables'.password[t.user] # NoPassword,
           thread' = [thread EXCEPT ![c] = t], UNCHANGED <<lost, user>>,
           tables' \in Tables, told' \in Tables, Persists(tables, tables'), AnswersTrue'
    PROVE  Inv'
<1>1. /\ thread' \in [Fds -> Thread] /\ thread'[c] = t
      /\ \A d \in Fds : d # c => thread'[d] = thread[d]
  BY DEF Inv, TypeOK
<1>2. \A d \in Fds : ArgsOK(thread'[d])
  BY <1>1 DEF Inv
<1>3. TypeOK'
  BY <1>1, <1>2 DEF Inv, TypeOK, ArgsOK, Rollback
<1>4. \A d \in Fds : thread'[d].at \notin {"exec", "commit"}
  BY <1>1 DEF Inv, Released
<1>5. Released' /\ Seen'
  BY <1>4 DEF Released, Seen, Rollback
<1>6. SignedInCommitted'
  <2>1. ASSUME NEW d \in Fds, user'[d] # NoUser
        PROVE  tables'.password[user'[d]] # NoPassword
    <3>1. user'[d] \in Users /\ tables.password[user'[d]] # NoPassword
      BY <2>1 DEF Inv, TypeOK, SignedInCommitted
    <3> QED
      BY <3>1 DEF Persists
  <2>2. ASSUME NEW d \in Fds, thread'[d].at \in {"check", "set"}
        PROVE  tables'.password[thread'[d].user] # NoPassword
    <3>1. CASE d = c
      BY <2>2, <3>1, <1>1
    <3>2. CASE d # c
      <4>1. thread'[d].user \in Users /\ tables.password[thread'[d].user] # NoPassword
        BY <2>2, <3>2, <1>1 DEF Inv, ArgsOK, SignedInCommitted
      <4> QED
        BY <4>1 DEF Persists
    <3> QED
      BY <3>1, <3>2
  <2> QED
    BY <2>1, <2>2 DEF SignedInCommitted
<1> QED
  BY <1>2, <1>3, <1>5, <1>6 DEF Inv

-----------------------------------------------------------------------------
(* One lemma for the handlers and one for each statement. *)

LEMMA CallStep ==
    ASSUME Inv, NEW c \in Fds, NEW name \in Calls, NEW u \in Users \cup {NoUser},
           NEW p \in Passwords \cup {NoPassword}, NEW n \in Passwords \cup {NoPassword},
           name \in Writes \cup {"authenticate"} => u \in Users,
           name \in {"create_user", "change_password"} => p \in Passwords,
           name = "change_password" => n \in Passwords,
           Call(c, name, u, p, n)
    PROVE  Inv'
<1> DEFINE t == [at |-> "begin", call |-> name, user |-> u, password |-> p, new |-> n]
<1>1. t \in Thread
  BY DEF Thread
<1>2. ArgsOK(t) /\ t.at = "begin"
  BY DEF ArgsOK
<1>3. /\ thread[c].at \notin {"exec", "commit"}
      /\ thread' = [thread EXCEPT ![c] = t]
      /\ UNCHANGED <<tables, told, txn, lost, user>>
  BY DEF Call
<1> HIDE DEF t
<1> QED
  BY <1>1, <1>2, <1>3, ThreadStep

LEMMA HandlersStep ==
    ASSUME Inv, NEW c \in Fds, Handlers(c)
    PROVE  Inv'
<1> USE DEF Calls, Reads, Writes
<1>1. CASE OnSignIn(c)
  BY <1>1, CallStep DEF OnSignIn
<1>2. CASE OnCreateAccount(c)
  BY <1>2, CallStep DEF OnCreateAccount
<1>3. CASE OnChangePassword(c)
  <2>1. PICK u \in Users, p \in Passwords, n \in Passwords : Call(c, "change_password", u, p, n)
    BY <1>3 DEF OnChangePassword
  <2> QED
    BY <2>1, CallStep
<1>4. CASE OnSaveResult(c)
  <2>1. user[c] \in Users
    BY <1>4 DEF OnSaveResult, Inv, TypeOK
  <2> QED
    BY <1>4, <2>1, CallStep DEF OnSaveResult
<1>5. CASE OnNeedParagraph(c)
  BY <1>5, CallStep DEF OnNeedParagraph
<1>6. CASE OnLeaderboard(c)
  BY <1>6, CallStep DEF OnLeaderboard
<1>7. CASE OnSignOut(c)
  <2>1. /\ user' \in [Fds -> Users \cup {NoUser}]
        /\ \A d \in Fds : user'[d] \in {user[d], NoUser}
        /\ UNCHANGED <<tables, told, txn, lost, thread>>
    BY <1>7 DEF OnSignOut, Inv, TypeOK
  <2> QED
    BY <2>1 DEF Inv, TypeOK, ArgsOK, Released, Seen, AnswersTrue, SignedInCommitted
<1> QED
  BY <1>1, <1>2, <1>3, <1>4, <1>5, <1>6, <1>7 DEF Handlers

LEMMA BeginStep ==
    ASSUME Inv, NEW c \in Fds, Begin(c)
    PROVE  Inv'
<1>1. CASE txn = NoTransaction /\ ~lost /\ txn' = [owner |-> c, tables |-> tables] /\ Goto(c, "exec")
  <2>1. /\ thread[c].at = "begin" /\ thread[c] \in Thread
        /\ UNCHANGED <<tables, told, lost, user>>
    BY DEF Begin, Inv, TypeOK
  <2> DEFINE t == [thread[c] EXCEPT !.at = "exec"]
  <2>2. t \in Thread /\ t.at = "exec" /\ ArgsOK(t)
    BY <2>1 DEF Thread, ArgsOK, Inv
  <2>3. /\ thread' \in [Fds -> Thread] /\ thread'[c] = t
        /\ \A d \in Fds : d # c => thread'[d] = thread[d]
    BY <1>1, <2>2 DEF Goto, Inv, TypeOK
  <2> HIDE DEF t
  <2>4. \A d \in Fds : ArgsOK(thread'[d])
    BY <2>2, <2>3 DEF Inv
  <2>5. txn' \in Transaction /\ txn' # NoTransaction /\ txn'.owner = c /\ txn'.tables = tables'
    BY <1>1, <2>1, TransactionFresh DEF Transaction, Inv, TypeOK
  <2>6. TypeOK'
    BY <2>1, <2>3, <2>4, <2>5 DEF Inv, TypeOK, ArgsOK
  <2>7. \A d \in Fds : d # c => thread'[d].at \notin {"exec", "commit"}
    BY <1>1, <2>3 DEF Inv, Released
  <2>8. Released' /\ Seen'
    BY <2>2, <2>3, <2>5, <2>7 DEF Released, Seen
  <2>9. AnswersTrue' /\ SignedInCommitted'
    BY <2>1, <2>2, <2>3 DEF Inv, AnswersTrue, SignedInCommitted
  <2> QED
    BY <2>4, <2>6, <2>8, <2>9 DEF Inv
<1>2. CASE Return(c) /\ UNCHANGED txn
  <2>1. PICK t \in Thread : /\ thread' = [thread EXCEPT ![c] = t]
                            /\ t.at \in {"recv", "begin"} /\ ArgsOK(t)
    BY <1>2, ReturnProperties
  <2> QED
    BY <1>2, <2>1, ThreadStep DEF Begin
<1> QED
  BY <1>1, <1>2 DEF Begin

\* A call that ends with a rollback.
LEMMA RefusedStep ==
    ASSUME Inv, NEW c \in Fds, thread[c].at \in {"exec", "commit"}, Rollback, Return(c),
           UNCHANGED <<tables, told, lost, user>>
    PROVE  Inv'
<1>1. PICK t \in Thread : /\ thread' = [thread EXCEPT ![c] = t]
                          /\ t.at \in {"recv", "begin"} /\ ArgsOK(t)
  BY ReturnProperties
<1>2. tables' \in Tables /\ told' \in Tables /\ Persists(tables, tables') /\ AnswersTrue'
  BY DEF Inv, TypeOK, AnswersTrue, Persists
<1> QED
  BY <1>1, <1>2, EndStep

LEMMA AuthenticateStep ==
    ASSUME Inv, NEW c \in Fds, Authenticate(c)
    PROVE  Inv'
<1>1. /\ thread[c].at = "exec" /\ thread[c].call = "authenticate"
      /\ Rollback /\ UNCHANGED <<tables, told, lost, user>>
  BY DEF Authenticate, Executes
<1>2. CASE Matches(txn.tables, thread[c]) /\ Goto(c, "check")
  <2> DEFINE t == [thread[c] EXCEPT !.at = "check"]
  <2>1. thread[c] \in Thread /\ ArgsOK(thread[c])
    BY DEF Inv, TypeOK
  <2>2. t \in Thread /\ t.at = "check" /\ ArgsOK(t) /\ t.user = thread[c].user
    BY <1>1, <2>1 DEF Thread, ArgsOK
  <2>3. thread' = [thread EXCEPT ![c] = t]
    BY <1>2 DEF Goto
  <2>4. tables'.password[t.user] # NoPassword
    BY <1>1, <1>2, <2>2 DEF Matches, Inv, Seen
  <2>5. tables' \in Tables /\ told' \in Tables /\ Persists(tables, tables') /\ AnswersTrue'
    BY <1>1 DEF Inv, TypeOK, AnswersTrue, Persists
  <2> HIDE DEF t
  <2> QED
    BY <1>1, <2>2, <2>3, <2>4, <2>5, EndStep
<1>3. CASE Return(c)
  BY <1>1, <1>3, RefusedStep
<1> QED
  BY <1>2, <1>3 DEF Authenticate

LEMMA WriteStep ==
    ASSUME Inv, NEW c \in Fds, Write(c)
    PROVE  Inv'
<1>1. /\ thread[c].at = "exec" /\ thread[c].call \in Writes
      /\ UNCHANGED <<tables, told, lost, user>>
  BY DEF Write, Executes
<1>2. CASE /\ Accepts(txn.tables, thread[c])
           /\ txn' = [txn EXCEPT !.tables = Written(@, thread[c])]
           /\ Goto(c, "commit")
  <2> DEFINE t == [thread[c] EXCEPT !.at = "commit"]
  <2>1. /\ thread[c] \in Thread /\ ArgsOK(thread[c]) /\ tables \in Tables
        /\ txn \in Transaction /\ txn.owner = c /\ txn.tables = tables
    BY <1>1, TransactionFresh DEF Inv, TypeOK, Released, Seen
  <2>2. t \in Thread /\ t.at = "commit" /\ ArgsOK(t)
    BY <2>1 DEF Thread, ArgsOK
  <2>3. /\ thread' \in [Fds -> Thread] /\ thread'[c] = t
        /\ \A d \in Fds : d # c => thread'[d] = thread[d]
    BY <1>2, <2>2 DEF Goto, Inv, TypeOK
  <2>4. /\ t.call = thread[c].call /\ t.user = thread[c].user
        /\ t.password = thread[c].password /\ t.new = thread[c].new
    BY <2>1 DEF Thread
  <2>5. Written(tables, t) = Written(tables, thread[c])
    BY <2>4 DEF Written
  <2>6. Accepts(tables, t)
    BY <1>2, <2>1, <2>4 DEF Accepts, Matches
  <2>7. Written(tables, thread[c]) \in Tables
    BY <1>1, <2>1, WrittenProperties
  <2>8. txn' \in Transaction /\ txn' # NoTransaction /\ txn'.owner = c
        /\ txn'.tables = Written(tables, thread[c])
    BY <1>2, <2>1, <2>7, TransactionFresh DEF Transaction
  <2> HIDE DEF t
  <2>9. \A d \in Fds : ArgsOK(thread'[d])
    BY <2>2, <2>3 DEF Inv
  <2>10. TypeOK'
    BY <1>1, <2>3, <2>8, <2>9 DEF Inv, TypeOK, ArgsOK
  <2>11. \A d \in Fds : d # c => thread'[d].at \notin {"exec", "commit"}
    BY <1>1, <2>3 DEF Inv, Released
  <2>12. Released'
    BY <2>2, <2>3, <2>8, <2>11 DEF Released
  <2>13. Seen'
    BY <1>1, <2>2, <2>3, <2>4, <2>5, <2>6, <2>8, <2>11 DEF Seen
  <2>14. AnswersTrue' /\ SignedInCommitted'
    BY <1>1, <2>2, <2>3 DEF Inv, AnswersTrue, SignedInCommitted
  <2> QED
    BY <2>9, <2>10, <2>12, <2>13, <2>14 DEF Inv
<1>3. CASE Rollback /\ Return(c)
  BY <1>1, <1>3, RefusedStep
<1> QED
  BY <1>2, <1>3 DEF Write

\* What a transaction holds when it is committed.
LEMMA CommitProperties ==
    ASSUME Inv, NEW c \in Fds, thread[c].at = "commit"
    PROVE  /\ thread[c] \in Thread /\ ArgsOK(thread[c]) /\ thread[c].call \in Writes
           /\ Accepts(tables, thread[c])
           /\ txn.tables = Written(tables, thread[c])
           /\ txn.tables \in Tables /\ Persists(tables, txn.tables)
           /\ \A u \in Users : tables.results[u] <= txn.tables.results[u]
<1>1. /\ thread[c] \in Thread /\ ArgsOK(thread[c]) /\ thread[c].call \in Writes
      /\ Accepts(tables, thread[c])
      /\ txn.tables = Written(tables, thread[c]) /\ tables \in Tables
  BY DEF Inv, TypeOK, Seen
<1> QED
  BY <1>1, WrittenProperties

LEMMA CommitStep ==
    ASSUME Inv, NEW c \in Fds, Commit(c) \/ CommitThrows(c)
    PROVE  Inv'
<1>1. /\ thread[c].at = "commit" /\ Rollback /\ Return(c) /\ UNCHANGED <<lost, user>>
  BY DEF Commit, CommitThrows
<1>2. PICK t \in Thread : /\ thread' = [thread EXCEPT ![c] = t]
                          /\ t.at \in {"recv", "begin"} /\ ArgsOK(t)
  BY <1>1, ReturnProperties
<1>3. /\ txn.tables = Written(tables, thread[c])
      /\ txn.tables \in Tables /\ Persists(tables, txn.tables)
      /\ \A u \in Users : tables.results[u] <= txn.tables.results[u]
  BY <1>1, CommitProperties
<1>4. tables \in Tables /\ told \in Tables
  BY DEF Inv, TypeOK
<1>5. CASE Commit(c)
  <2>1. tables' = txn.tables /\ told' = tables'
    BY <1>3, <1>5 DEF Commit, Inv, AnswersTrue
  <2>2. tables' \in Tables
    BY <1>3, <2>1
  <2>3. AnswersTrue'
    BY <2>1, <2>2 DEF AnswersTrue, Tables
  <2> QED
    BY <1>1, <1>2, <1>3, <2>1, <2>2, <2>3, EndStep
<1>6. CASE CommitThrows(c)
  <2>1. lost' /\ told' = told /\ tables' \in {tables, txn.tables}
    BY <1>6 DEF CommitThrows
  <2>2. tables' \in Tables /\ told' \in Tables /\ Persists(tables, tables')
    BY <1>3, <1>4, <2>1 DEF Persists
  <2>3. \A u \in Users : told'.results[u] <= tables'.results[u]
    <3> TAKE u \in Users
    <3>1. /\ told.results[u] \in Nat /\ tables.results[u] \in Nat /\ txn.tables.results[u] \in Nat
          /\ told.results[u] <= tables.results[u] /\ tables.results[u] <= txn.tables.results[u]
      BY <1>3, <1>4 DEF Tables, Inv, AnswersTrue
    <3> QED
      BY <2>1, <3>1
  <2>4. AnswersTrue'
    BY <2>1, <2>2, <2>3 DEF AnswersTrue, Persists, Inv
  <2> QED
    BY <1>1, <1>2, <2>2, <2>4, EndStep
<1> QED
  BY <1>5, <1>6

LEMMA CheckLoggedInStep ==
    ASSUME Inv, NEW c \in Fds, CheckLoggedIn(c)
    PROVE  Inv'
<1>1. thread[c].at = "check" /\ UNCHANGED <<tables, told, txn, lost, user>>
  BY DEF CheckLoggedIn
<1>2. CASE Return(c)
  <2>1. PICK t \in Thread : /\ thread' = [thread EXCEPT ![c] = t]
                            /\ t.at \in {"recv", "begin"} /\ ArgsOK(t)
    BY <1>2, ReturnProperties
  <2> QED
    BY <1>1, <2>1, ThreadStep
<1>3. CASE Goto(c, "set")
  <2> DEFINE t == [thread[c] EXCEPT !.at = "set"]
  <2>1. thread[c] \in Thread /\ ArgsOK(thread[c])
    BY DEF Inv, TypeOK
  <2>2. t \in Thread /\ t.at = "set" /\ ArgsOK(t) /\ t.user = thread[c].user
    BY <1>1, <2>1 DEF Thread, ArgsOK
  <2>3. tables.password[t.user] # NoPassword
    BY <1>1, <2>2 DEF Inv, SignedInCommitted
  <2>4. thread' = [thread EXCEPT ![c] = t]
    BY <1>3 DEF Goto
  <2> HIDE DEF t
  <2> QED
    BY <1>1, <2>2, <2>3, <2>4, ThreadStep
<1> QED
  BY <1>2, <1>3 DEF CheckLoggedIn

LEMMA SetUserStep ==
    ASSUME Inv, NEW c \in Fds, SetUser(c)
    PROVE  Inv'
<1>1. /\ thread[c].at = "set" /\ thread[c] \in Thread /\ ArgsOK(thread[c])
      /\ tables.password[thread[c].user] # NoPassword
      /\ UNCHANGED <<tables, told, txn, lost>>
  BY DEF SetUser, Inv, TypeOK, SignedInCommitted
<1>2. thread[c].user \in Users
  BY <1>1 DEF ArgsOK
<1>3. Idle \in Thread /\ ArgsOK(Idle) /\ Idle.at = "recv"
  BY DEF Idle, Thread, ArgsOK, Writes
<1>4. /\ thread' \in [Fds -> Thread] /\ thread'[c] = Idle
      /\ \A d \in Fds : d # c => thread'[d] = thread[d]
  BY <1>3 DEF SetUser, Inv, TypeOK
<1>5. /\ user' \in [Fds -> Users \cup {NoUser}] /\ user'[c] = thread[c].user
      /\ \A d \in Fds : d # c => user'[d] = user[d]
  BY <1>2 DEF SetUser, Inv, TypeOK
<1>6. \A d \in Fds : ArgsOK(thread'[d])
  BY <1>3, <1>4 DEF Inv
<1>7. TypeOK'
  BY <1>1, <1>4, <1>5, <1>6 DEF Inv, TypeOK, ArgsOK
<1>8. Released' /\ Seen'
  BY <1>1, <1>3, <1>4 DEF Inv, Released, Seen
<1>9. AnswersTrue'
  BY <1>1 DEF Inv, AnswersTrue
<1>10. SignedInCommitted'
  BY <1>1, <1>3, <1>4, <1>5 DEF Inv, SignedInCommitted
<1> QED
  BY <1>6, <1>7, <1>8, <1>9, <1>10 DEF Inv

LEMMA StatementsStep ==
    ASSUME Inv, NEW c \in Fds, Statements(c)
    PROVE  Inv'
<1>1. CASE ExecThrows(c) \/ Read(c)
  BY <1>1, RefusedStep DEF ExecThrows, Read, Executes
<1> QED
  BY <1>1, BeginStep, AuthenticateStep, WriteStep, CommitStep, CheckLoggedInStep, SetUserStep
     DEF Statements

-----------------------------------------------------------------------------
LEMMA Initial == Init => Inv
<1> SUFFICES ASSUME Init PROVE Inv
  OBVIOUS
<1>1. Idle \in Thread /\ ArgsOK(Idle) /\ Idle.at = "recv"
  BY DEF Idle, Thread, ArgsOK, Writes
<1>2. \A c \in Fds : thread[c] = Idle
  BY DEF Init
<1>3. tables \in Tables
  BY DEF Init, Tables
<1>4. TypeOK
  BY <1>1, <1>2, <1>3 DEF Init, TypeOK, ArgsOK
<1>5. Released /\ Seen
  BY <1>1, <1>2 DEF Init, Released, Seen
<1>6. AnswersTrue
  BY <1>3 DEF Init, AnswersTrue, Tables
<1>7. SignedInCommitted
  BY <1>1, <1>2 DEF Init, SignedInCommitted
<1> QED
  BY <1>1, <1>2, <1>4, <1>5, <1>6, <1>7 DEF Inv

LEMMA Invariance == Spec => []Inv
<1>1. Inv /\ [Next]_vars => Inv'
  <2> SUFFICES ASSUME Inv, [Next]_vars PROVE Inv'
    OBVIOUS
  <2>1. CASE UNCHANGED vars
    BY <2>1 DEF vars, Inv, TypeOK, ArgsOK, Released, Seen, AnswersTrue, SignedInCommitted
  <2>2. CASE Lose
    BY <2>2 DEF Lose, Inv, TypeOK, ArgsOK, Released, Seen, AnswersTrue, SignedInCommitted
  <2> QED
    BY <2>1, <2>2, HandlersStep, StatementsStep DEF Next
<1> QED
  BY <1>1, Initial, PTL DEF Spec

\* The state of the threads and tables has its type, and no call is about nobody.
THEOREM TypeCorrect == Spec => []TypeOK
BY Invariance, PTL DEF Inv

\* The database connection is never left with the transaction of a finished call,
\* whichever way the call ended (database.cpp).
THEOREM ReleasedHolds == Spec => []Released
BY Invariance, PTL DEF Inv

\* What the calls of Database return as a success is what is committed, however
\* the threads interleave; when the connection is lost nothing of it is undone.
THEOREM AnswersTrueHolds == Spec => []AnswersTrue
BY Invariance, PTL DEF Inv

\* on_sign_in never signs in, nor lets pass, an account that is not committed.
THEOREM SignedInCommittedHolds == Spec => []SignedInCommitted
BY Invariance, PTL DEF Inv

\* change_password replaces exactly the password it was given, also when several
\* threads change one account at once.
THEOREM OldPasswordGivenHolds == Spec => OldPasswordGiven
<1> DEFINE Given == \A u \in Users :
          tables.password[u] # NoPassword /\ tables'.password[u] # tables.password[u] =>
              \E c \in Fds : /\ thread[c].call = "change_password"
                             /\ thread[c].user = u
                             /\ thread[c].password = tables.password[u]
                             /\ thread[c].new = tables'.password[u]
<1>1. Inv /\ [Next]_vars => [Given]_vars
  <2> SUFFICES ASSUME Inv, [Next]_vars PROVE Given
    OBVIOUS
  <2>1. ASSUME NEW c \in Fds, Commit(c) \/ CommitThrows(c)
        PROVE  Given
    <3>1. thread[c].at = "commit" /\ tables' \in {tables, txn.tables}
      BY <2>1 DEF Commit, CommitThrows
    <3>2. /\ thread[c] \in Thread /\ ArgsOK(thread[c]) /\ thread[c].call \in Writes
          /\ Accepts(tables, thread[c]) /\ txn.tables = Written(tables, thread[c])
          /\ tables \in Tables
      BY <3>1, CommitProperties DEF Inv, TypeOK
    <3> QED
      BY <3>1, <3>2, WrittenProperties
  <2>2. CASE UNCHANGED tables
    BY <2>2
  <2> QED
    BY <2>1, <2>2 DEF Next, Handlers, Statements, OnSignIn, OnCreateAccount, OnChangePassword,
       OnSaveResult, OnNeedParagraph, OnLeaderboard, OnSignOut, Call, Begin, ExecThrows, Read,
       Authenticate, Write, CheckLoggedIn, SetUser, Lose, vars
<1> QED
  BY <1>1, Invariance, PTL DEF Spec, OldPasswordGiven
=============================================================================
