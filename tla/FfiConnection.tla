--------------------------- MODULE FfiConnection ---------------------------
(***************************************************************************)
(* The ADBC connection of the driver manager (src/src/adbc_ffi.rs): a      *)
(* Connection that is dialled on first use, and the AutoCommit option on   *)
(* top of its transactions.  While inner is "none" the variables of        *)
(* Session hold what the first successful dial will establish; "direct" is *)
(* a program that uses the Connection itself.                              *)
(***************************************************************************)
EXTENDS Session

VARIABLES
  inner,        \* FfiConnection.inner: "none" or "some"; "direct": no FfiConnection
  auto_commit,  \* FfiConnection.auto_commit: "on" or "off"
  switched      \* history: how the last change of auto_commit ended

session == <<params_timeout, state, in_transaction, query_timeout, link, autocommit, limit, data, ran>>

options == <<auto_commit, switched>>

ffiVars == <<vars, inner, options>>

\* ensure_connected dials and fails: nothing is stored.
DialFails(call) ==
  /\ inner = "none"
  /\ Returns(call, "err")
  /\ UNCHANGED <<session, inner>>

\* ensure_connected: the connection is there after it.
Connected == inner' = "some"

\* Mutant: turning autocommit off only records the option.
OpenTransaction_Forgotten(r) == r = "ok" /\ UNCHANGED session

\* open_transaction: begin_transaction, which refuses an open transaction.
OpenTransaction(r) ==
  /\ BeginTransaction(r) \/ (r = "err" /\ BeginRefused)
  /\ UNCHANGED params_timeout

\* commit_open_transaction: COMMIT if a transaction is open.
CommitOpenTransaction(r) == EndTransaction("COMMIT", r) /\ UNCHANGED params_timeout

\* set_option(AutoCommit): the field changes first, whatever follows, and a call
\* that finds the value already there returns Ok.
ApplyAutoCommit ==
  \E enabled \in {"on", "off"} :
    /\ auto_commit' = enabled
    /\ \/ /\ enabled = auto_commit
          /\ Returns("option", "ok")
          /\ UNCHANGED <<session, inner, switched>>
       \/ /\ enabled # auto_commit
          /\ DialFails("option")
          /\ switched' = "err"
       \/ /\ enabled # auto_commit
          /\ Connected
          /\ \E r \in Results :
               /\ IF enabled = "on" THEN CommitOpenTransaction(r) ELSE OpenTransaction(r)
               /\ switched' = r
               /\ Returns("option", r)

\* commit and rollback are refused while the option is on.
FfiEnd(call, s) ==
  /\ \/ /\ auto_commit = "on"
        /\ Returns(call, "err")
        /\ UNCHANGED <<session, inner>>
     \/ auto_commit = "off" /\ DialFails(call)
     \/ /\ auto_commit = "off"
        /\ Connected
        /\ \E r \in Results : EndTransaction(s, r) /\ Returns(call, r)
        /\ UNCHANGED params_timeout
  /\ UNCHANGED options

FfiCommit == FfiEnd("commit", "COMMIT")

FfiRollback == FfiEnd("rollback", "ROLLBACK")

\* A statement: new_statement dials, update_sql and query_sql execute with the
\* timeout of the connection, bound rows run as a prepared statement, bulk
\* ingestion runs its DDL and then an import.
FfiStatement ==
  /\ \/ DialFails("execute")
     \/ /\ Connected
        /\ CanExecute
        /\ \E s \in {"read", "write"}, r \in Results :
             ExecuteStatement(params_timeout, s, r) /\ Returns("execute", r)
        /\ UNCHANGED <<params_timeout, state, in_transaction, autocommit>>
     \/ Connected /\ (ExecutePrepared \/ Transfer \/ OtherRequest) /\ UNCHANGED params_timeout
  /\ UNCHANGED options

\* Drop for FfiConnection: shutdown of the connection, if there is one.
FfiDrop ==
  /\ inner = "some"
  /\ inner' = "none"
  /\ state # "Closed"
  /\ Shutdown
  /\ UNCHANGED <<params_timeout, options>>

FfiInit ==
  /\ Init
  /\ inner \in {"none", "direct"}
  /\ auto_commit = "on"
  /\ switched = "ok"

FfiNext ==
  \/ /\ inner # "direct"
     /\ state # "Closed"
     /\ ApplyAutoCommit \/ FfiCommit \/ FfiRollback \/ FfiStatement \/ FfiDrop
  \/ /\ inner = "direct"
     /\ Next
     /\ UNCHANGED <<inner, options>>

FfiSpec == FfiInit /\ [][FfiNext]_ffiVars

-----------------------------------------------------------------------------
(* Properties.                                                             *)

\* Once the change of AutoCommit to off went through without an error the server
\* stages every statement, through any number of commits, rollbacks, repeated
\* settings and lost connections, until the option changes again.  A change that
\* failed is another matter: the option is off all the same, and setting it to off
\* once more returns Ok without a transaction.
ManualOnceSwitched == (auto_commit = "off" /\ switched = "ok") => autocommit = "off"
=============================================================================
