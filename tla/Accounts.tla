------------------------------ MODULE Accounts ------------------------------
(***************************************************************************)
(* Accounts and results: the handlers of backend/server/server.cpp that    *)
(* use the database, one thread per connection, with the calls of          *)
(* backend/database/database.cpp they make, statement by statement.        *)
(*                                                                         *)
(* All threads share one pqxx::connection and take no lock.  A connection  *)
(* takes one transaction at a time: a pqxx::work that is constructed while *)
(* there is another throws, each call of Database turns every exception    *)
(* into its failure value, and the handler answers with a refusal.  Two    *)
(* threads inside libpqxx at once is a data race; here the test for        *)
(* another transaction and the registration of the new one are one step,   *)
(* the best case.                                                          *)
(*                                                                         *)
(* Abstractions.  Names that differ in case only are one name, as for the  *)
(* unique index; a name stands for its user_id, since accounts are never   *)
(* deleted.  A row of game_result is counted for its user; its paragraph   *)
(* is always NULL, because get_paragraph_id constructs its transaction     *)
(* inside that of save_training_result.  Reading changes nothing: what the *)
(* leaderboard and the paragraphs contain is left out, that they occupy    *)
(* the connection is not.                                                  *)
(***************************************************************************)
EXTENDS Naturals

CONSTANTS
    Fds,          \* the client connections, by descriptor
    Users,        \* account names
    NoUser,       \* user_id 0
    Passwords,
    NoPassword,   \* of an account that does not exist
    MaxResults    \* bound: saved results of an account when another is saved

ASSUME AccountsAssumption ==
    /\ NoUser \notin Users
    /\ NoPassword \notin Passwords
    /\ MaxResults \in Nat

VARIABLES
    tables,   \* what is committed: app_user and game_result
    told,     \* history: the tables as the calls that succeeded say they are
    txn,      \* the transaction of the connection, with the tables as it sees them
    lost,     \* the connection to PostgreSQL is lost, for good
    user,     \* per connection: clients_[fd].user_id
    thread    \* per connection: its next statement, the call, and its arguments

vars == <<tables, told, txn, lost, user, thread>>

Reads == {"get_random_paragraph", "get_top_players", "get_user_rank"}
Writes == {"create_user", "change_password", "save_training_result"}
Calls == Reads \cup Writes \cup {"authenticate"}

\* password is the one given, new the one a change asks for.
Thread == [at : {"recv", "begin", "exec", "commit", "check", "set"}, call : Calls \cup {"none"},
           user : Users \cup {NoUser}, password : Passwords \cup {NoPassword},
           new : Passwords \cup {NoPassword}]
Idle == [at |-> "recv", call |-> "none", user |-> NoUser, password |-> NoPassword,
         new |-> NoPassword]

Tables == [password : [Users -> Passwords \cup {NoPassword}], results : [Users -> Nat]]
Transaction == [owner : Fds, tables : Tables]
NoTransaction == [owner |-> "none"]

Init ==
    /\ tables = [password |-> [u \in Users |-> NoPassword], results |-> [u \in Users |-> 0]]
    /\ told = tables
    /\ txn = NoTransaction
    /\ lost = FALSE
    /\ user = [c \in Fds |-> NoUser]
    /\ thread = [c \in Fds |-> Idle]

\* The thread of c goes on to the statement s.
Goto(c, s) == thread' = [thread EXCEPT ![c].at = s]

-----------------------------------------------------------------------------
(* Handlers, up to their call of the database. *)

\* The handler of c calls name for the account u.
Call(c, name, u, p, n) ==
    /\ thread[c].at = "recv"
    /\ thread' = [thread EXCEPT ![c] = [at |-> "begin", call |-> name, user |-> u,
                                        password |-> p, new |-> n]]
    /\ UNCHANGED <<tables, told, txn, lost, user>>

OnSignIn(c) ==
    \E u \in Users, p \in Passwords : Call(c, "authenticate", u, p, NoPassword)

OnCreateAccount(c) ==
    \E u \in Users, p \in Passwords : Call(c, "create_user", u, p, NoPassword)

\* Nobody asks whose account it is: whoever knows the password may change it.
OnChangePassword(c) ==
    \E u \in Users, p \in Passwords, n \in Passwords : Call(c, "change_password", u, p, n)

\* Mutant: a guest's result is saved too.
OnSaveResult_Guest(c) ==
    /\ user[c] # NoUser => tables.results[user[c]] < MaxResults
    /\ Call(c, "save_training_result", user[c], NoPassword, NoPassword)

\* on_save_training_result, and the end of a training session of on_input.
OnSaveResult(c) ==
    /\ user[c] # NoUser
    /\ tables.results[user[c]] < MaxResults
    /\ Call(c, "save_training_result", user[c], NoPassword, NoPassword)

\* on_start_training, and on_create_room with the constructor of Room.
OnNeedParagraph(c) == Call(c, "get_random_paragraph", NoUser, NoPassword, NoPassword)

OnLeaderboard(c) == Call(c, "get_top_players", NoUser, NoPassword, NoPassword)

\* on_sign_out; a hang-up and a new connection with this descriptor do the same.
OnSignOut(c) ==
    /\ thread[c].at = "recv"
    /\ user' = [user EXCEPT ![c] = NoUser]
    /\ UNCHANGED <<tables, told, txn, lost, thread>>

-----------------------------------------------------------------------------
(* Calls of the database.  The transaction ends with the call, without a    *)
(* commit when it returns early or throws.                                  *)

\* The call of c is over and has not written anything.
Return(c) ==
    thread' = [thread EXCEPT ![c] =
        IF thread[c].call = "get_top_players" /\ user[c] # NoUser
        THEN [Idle EXCEPT !.at = "begin", !.call = "get_user_rank", !.user = user[c]]
        ELSE Idle]

\* pqxx::work txn(*conn_)
Begin(c) ==
    /\ thread[c].at = "begin"
    /\ \/ /\ txn = NoTransaction /\ ~lost
          /\ txn' = [owner |-> c, tables |-> tables]
          /\ Goto(c, "exec")
       \/ /\ txn # NoTransaction \/ lost
          /\ Return(c)
          /\ UNCHANGED txn
    /\ UNCHANGED <<tables, told, lost, user>>

\* The next statement of c is the query of one of the calls names.
Executes(c, names) == thread[c].at = "exec" /\ thread[c].call \in names

\* Leaves the transaction and whatever it has written.
Rollback == txn' = NoTransaction

\* A query on a lost connection throws.
ExecThrows(c) ==
    /\ Executes(c, Calls)
    /\ lost
    /\ Rollback
    /\ Return(c)
    /\ UNCHANGED <<tables, told, lost, user>>

\* The queries of the leaderboard commit: for a read that is the same.
Read(c) ==
    /\ Executes(c, Reads)
    /\ ~lost
    /\ Rollback
    /\ Return(c)
    /\ UNCHANGED <<tables, told, lost, user>>

\* The account exists and the password is the one given.
Matches(tbl, t) == tbl.password[t.user] # NoPassword /\ tbl.password[t.user] = t.password

\* Mutant: without one of its own, it runs in the transaction of another thread.
Authenticate_Joins(c) ==
    /\ \/ Executes(c, {"authenticate"}) /\ ~lost /\ Rollback
       \/ /\ thread[c].at = "begin" /\ thread[c].call = "authenticate"
          /\ txn # NoTransaction
          /\ UNCHANGED txn
    /\ \/ Matches(txn.tables, thread[c]) /\ Goto(c, "check")
       \/ ~Matches(txn.tables, thread[c]) /\ Return(c)
    /\ UNCHANGED <<tables, told, lost, user>>

Authenticate(c) ==
    /\ Executes(c, {"authenticate"})
    /\ ~lost
    /\ Rollback
    /\ \/ Matches(txn.tables, thread[c]) /\ Goto(c, "check")
       \/ ~Matches(txn.tables, thread[c]) /\ Return(c)
    /\ UNCHANGED <<tables, told, lost, user>>

\* What the query of the thread t writes.
Written(tbl, t) ==
    CASE t.call = "create_user" -> [tbl EXCEPT !.password[t.user] = t.password]
      [] t.call = "change_password" -> [tbl EXCEPT !.password[t.user] = t.new]
      [] t.call = "save_training_result" -> [tbl EXCEPT !.results[t.user] = @ + 1]

\* Mutant: kbh_change_password updates whatever the old password is.
Accepts_AnyPassword(tbl, t) ==
    \/ t.call = "create_user" /\ tbl.password[t.user] = NoPassword
    \/ t.call = "change_password" /\ tbl.password[t.user] # NoPassword
    \/ t.call = "save_training_result"

\* A name that is taken violates the unique index, and a wrong password updates
\* no row: committing that is the same as not committing.
Accepts(tbl, t) ==
    \/ t.call = "create_user" /\ tbl.password[t.user] = NoPassword
    \/ t.call = "change_password" /\ Matches(tbl, t)
    \/ t.call = "save_training_result"

\* A result is the client's word, and one that breaks a CHECK of game_result
\* (an accuracy above 100, a duration of 0) is refused.
Refuses(tbl, t) == ~Accepts(tbl, t) \/ t.call = "save_training_result"

\* Mutant: a refused query returns and leaves the transaction registered.
Write_Leaks(c) ==
    /\ Executes(c, Writes)
    /\ ~lost
    /\ \/ /\ Accepts(txn.tables, thread[c])
          /\ txn' = [txn EXCEPT !.tables = Written(@, thread[c])]
          /\ Goto(c, "commit")
       \/ /\ Refuses(txn.tables, thread[c])
          /\ Return(c)
          /\ UNCHANGED txn
    /\ UNCHANGED <<tables, told, lost, user>>

Write(c) ==
    /\ Executes(c, Writes)
    /\ ~lost
    /\ \/ /\ Accepts(txn.tables, thread[c])
          /\ txn' = [txn EXCEPT !.tables = Written(@, thread[c])]
          /\ Goto(c, "commit")
       \/ /\ Refuses(txn.tables, thread[c])
          /\ Rollback
          /\ Return(c)
    /\ UNCHANGED <<tables, told, lost, user>>

\* Mutant: the transaction ends without its commit.
Commit_Forgotten(c) ==
    /\ thread[c].at = "commit"
    /\ ~lost
    /\ told' = Written(told, thread[c])
    /\ Rollback
    /\ Return(c)
    /\ UNCHANGED <<tables, lost, user>>

\* txn.commit(), and the call returns success.
Commit(c) ==
    /\ thread[c].at = "commit"
    /\ ~lost
    /\ tables' = txn.tables
    /\ told' = Written(told, thread[c])
    /\ Rollback
    /\ Return(c)
    /\ UNCHANGED <<lost, user>>

\* The connection is lost at the commit: it may have happened, and nobody is told.
CommitThrows(c) ==
    /\ thread[c].at = "commit"
    /\ lost
    /\ tables' \in {tables, txn.tables}
    /\ Rollback
    /\ Return(c)
    /\ UNCHANGED <<told, lost, user>>

-----------------------------------------------------------------------------
(* The rest of on_sign_in. *)

\* is_user_logged_in
CheckLoggedIn(c) ==
    /\ thread[c].at = "check"
    /\ \/ (\E d \in Fds : user[d] = thread[c].user) /\ Return(c)
       \/ (\A d \in Fds : user[d] # thread[c].user) /\ Goto(c, "set")
    /\ UNCHANGED <<tables, told, txn, lost, user>>

SetUser(c) ==
    /\ thread[c].at = "set"
    /\ user' = [user EXCEPT ![c] = thread[c].user]
    /\ thread' = [thread EXCEPT ![c] = Idle]
    /\ UNCHANGED <<tables, told, txn, lost>>

-----------------------------------------------------------------------------
\* The server of the database goes away; PostgreSQL undoes what is not committed.
Lose ==
    /\ ~lost
    /\ lost' = TRUE
    /\ UNCHANGED <<tables, told, txn, user, thread>>

Handlers(c) ==
    \/ OnSignIn(c)
    \/ OnCreateAccount(c)
    \/ OnChangePassword(c)
    \/ OnSaveResult(c)
    \/ OnNeedParagraph(c)
    \/ OnLeaderboard(c)
    \/ OnSignOut(c)

Statements(c) ==
    \/ Begin(c)
    \/ ExecThrows(c)
    \/ Read(c)
    \/ Authenticate(c)
    \/ Write(c)
    \/ Commit(c)
    \/ CommitThrows(c)
    \/ CheckLoggedIn(c)
    \/ SetUser(c)

Next ==
    \/ \E c \in Fds : Handlers(c) \/ Statements(c)
    \/ Lose

Spec == Init /\ [][Next]_vars

-----------------------------------------------------------------------------
(* Properties. *)

\* Type invariant: every call but a read is about an account, and so is a sign-in.
TypeOK ==
    /\ tables \in Tables
    /\ told \in Tables
    /\ txn \in Transaction \cup {NoTransaction}
    /\ lost \in BOOLEAN
    /\ user \in [Fds -> Users \cup {NoUser}]
    /\ thread \in [Fds -> Thread]
    /\ \A c \in Fds :
          /\ thread[c].call \in Writes \cup {"authenticate"} => thread[c].user \in Users
          /\ thread[c].at \in {"check", "set"} => thread[c].call = "authenticate"

\* The connection has a transaction exactly while some thread is between the
\* start and the end of its own: no way out of a call leaves one behind, which
\* would refuse every call after it.
Released ==
    \A c \in Fds :
        thread[c].at \in {"exec", "commit"} <=> txn # NoTransaction /\ txn.owner = c

\* Accounts, passwords and results are what the calls that succeeded have said,
\* whatever other threads do to the connection meanwhile.  When it is lost, a
\* commit may have happened that nobody was told of, but nothing told is undone.
AnswersTrue ==
    /\ ~lost => tables = told
    /\ \A u \in Users :
          /\ told.password[u] # NoPassword => tables.password[u] # NoPassword
          /\ told.results[u] <= tables.results[u]

\* Nobody is signed in, or about to be, with an account that is not committed.
SignedInCommitted ==
    \A c \in Fds :
        /\ user[c] # NoUser => tables.password[user[c]] # NoPassword
        /\ thread[c].at \in {"check", "set"} => tables.password[thread[c].user] # NoPassword

\* A password only ever gives way to that of a change which was given the one it
\* replaces: of two changes at once the second sees what the first has written.
OldPasswordGiven ==
    [][\A u \in Users :
          tables.password[u] # NoPassword /\ tables'.password[u] # tables.password[u] =>
              \E c \in Fds : /\ thread[c].call = "change_password"
                             /\ thread[c].user = u
                             /\ thread[c].password = tables.password[u]
                             /\ thread[c].new = tables'.password[u]]_vars

\* "Check if user is already logged in": an account is in use on one connection.
\* Two threads may both find that it is not before either of them says so.
SignedInOnce ==
    \A c, d \in Fds : c # d /\ user[c] # NoUser => user[c] # user[d]
=============================================================================
