------------------------------ MODULE Session ------------------------------
(***************************************************************************)
(* A Connection (src/src/adbc/connection.rs) with its Session              *)
(* (src/src/connection/session.rs) and the database session behind it:     *)
(* transactions, autocommit and the queryTimeout attribute.                *)
(*                                                                         *)
(* Every operation borrows the connection mutably, so operations do not    *)
(* interleave; each is one action, with a choice of what the server and    *)
(* the network do to each of its requests.  The transport is seen through  *)
(* `link': what a request on it can do (see module Transport).             *)
(***************************************************************************)
EXTENDS Naturals

CONSTANTS
  ConnTimeouts,       \* what ConnectionParams::query_timeout may be, in ticks; 0: none
  StatementTimeouts,  \* what Statement::set_timeout may be given, in ticks; 0: none
  TicksPerMilli,      \* resolution of a Duration: ticks of a millisecond
  TicksPerSecond,     \* ticks of a second
  AmbientLimit,       \* the database's own QUERY_TIMEOUT in seconds, 0: unlimited
  MaxLimit,           \* the largest queryTimeout the protocol can carry, in seconds
  MaxWrites           \* bound: statements that write

ASSUME SessionAssumption ==
  /\ ConnTimeouts \subseteq Nat
  /\ TicksPerMilli \in Nat \ {0}
  /\ TicksPerSecond \in Nat \ {0}
  /\ TicksPerSecond % TicksPerMilli = 0
  /\ StatementTimeouts \subseteq Nat
  /\ \A t \in StatementTimeouts : t % TicksPerMilli = 0
  /\ AmbientLimit \in Nat
  /\ MaxLimit \in Nat
  /\ MaxWrites \in Nat

VARIABLES
  params_timeout,  \* ConnectionParams::query_timeout of this connection, in ticks
  state,           \* Session.state
  in_transaction,  \* Session.in_transaction: "yes" or "no"
  query_timeout,   \* SessionConfig.query_timeout, the applied baseline, in ticks
  link,            \* the transport: "up", "broken", "closed" or "terminated"
  autocommit,      \* the server's autocommit attribute: "on" or "off"
  limit,           \* the server's queryTimeout in force, in seconds
  writes,          \* writes the server has executed so far; they are numbered
  staged,          \* writes of the open server transaction
  visible,         \* writes that other sessions see
  ran,             \* the last statement: its path, the timeout asked for, the limit in force
  last             \* the last call of the application and how it ended

data == <<writes, staged, visible>>

vars == <<params_timeout, state, in_transaction, query_timeout, link, autocommit, limit, data,
          ran, last>>

CanExecute == state \in {"Ready", "InTransaction"}

Results == {"ok", "err"}
Statements == {"read", "write", "COMMIT", "ROLLBACK"}

Returns(call, r) == last' = [call |-> call, result |-> r]

SecsCeil(d) ==
  d \div TicksPerSecond + (IF d % TicksPerSecond > 0 THEN 1 ELSE 0)

\* Duration::as_millis: a Statement keeps its timeout in whole milliseconds, and
\* create_statement cuts the connection's timeout down to them.
Millis(d) == (d \div TicksPerMilli) * TicksPerMilli

-----------------------------------------------------------------------------
(* The server: what one statement does to the data, and what the end of    *)
(* the database session does.                                              *)

\* The server runs statement s.
Effect(s) ==
  \/ s = "read" /\ UNCHANGED data
  \/ /\ s = "write"
     /\ writes < MaxWrites
     /\ writes' = writes + 1
     /\ staged' = IF autocommit = "on" THEN {} ELSE staged \cup {writes + 1}
     /\ visible' = IF autocommit = "on" THEN visible \cup staged \cup {writes + 1} ELSE visible
  \/ s = "COMMIT" /\ visible' = visible \cup staged /\ staged' = {} /\ UNCHANGED writes
  \/ s = "ROLLBACK" /\ staged' = {} /\ UNCHANGED <<writes, visible>>

\* The server discards what an ended session had not committed.
EndOfSession == staged' = {} /\ UNCHANGED <<writes, visible>>

\* One statement on a working link: done, refused by the server (a timeout
\* included), or lost with the socket before or after the server committed it.
Run(s, r) ==
  \/ r = "ok" /\ Effect(s) /\ UNCHANGED link
  \/ r = "err" /\ UNCHANGED <<data, link>>
  \/ r = "err" /\ EndOfSession /\ link' = "broken"
  \/ /\ r = "err"
     /\ link' = "broken"
     /\ s = "COMMIT" \/ (s = "write" /\ autocommit = "on")
     /\ Effect(s)

-----------------------------------------------------------------------------
(* execute_statement                                                       *)

\* Mutant: the baseline is recorded only when the statement succeeded.
RecordApplied_OnlyOnSuccess(t, differs, r) ==
  query_timeout' = IF differs /\ r = "ok" THEN t ELSE query_timeout

\* What was applied to the server is recorded even when the statement fails.
RecordApplied(t, differs, r) == query_timeout' = IF differs THEN t ELSE query_timeout

\* set_query_timeout fails: refused by the server, not encodable, or lost with
\* the socket; the transport also refuses it when it is not open.
SetQueryTimeoutFails(secs) ==
  \/ UNCHANGED <<limit, link, data>>
  \/ /\ link = "up"
     /\ link' = "broken"
     /\ limit' \in {limit, secs}
     /\ EndOfSession

\* The body of execute_statement for a statement that was to have the timeout
\* asked and carries its milliseconds: reconcile, execute, record.
ExecuteStatement(asked, s, r) ==
  LET t       == Millis(asked)
      target  == SecsCeil(t)
      differs == target # SecsCeil(query_timeout)
  IN \/ /\ differs
        /\ r = "err"
        /\ SetQueryTimeoutFails(target)
        /\ UNCHANGED <<query_timeout, ran>>
     \/ /\ link = "up"
        /\ differs => target <= MaxLimit
        /\ limit' = IF differs THEN target ELSE limit
        /\ ran' = [path |-> "statement", asked |-> asked, had |-> limit']
        /\ Run(s, r)
        /\ RecordApplied(t, differs, r)
     \/ /\ ~differs
        /\ link # "up"
        /\ r = "err"
        /\ UNCHANGED <<limit, link, data, query_timeout, ran>>

\* execute_statement with the timeout of a Statement, execute, query and
\* execute_update with the one create_statement takes from the connection.
Execute ==
  /\ CanExecute
  /\ \E t \in StatementTimeouts \cup {params_timeout}, s \in {"read", "write"}, r \in Results :
       ExecuteStatement(t, s, r) /\ Returns("execute", r)
  /\ UNCHANGED <<state, in_transaction, autocommit>>

\* The paths that send a statement without reconciling queryTimeout.
RunAsIs(path, r) ==
  /\ \/ /\ link = "up"
        /\ \E s \in {"read", "write"} : Run(s, r)
        /\ ran' = [path |-> path, asked |-> params_timeout, had |-> limit]
     \/ link # "up" /\ r = "err" /\ UNCHANGED <<data, link, ran>>
  /\ UNCHANGED <<state, in_transaction, query_timeout, autocommit, limit>>

\* execute_prepared, execute_prepared_update, execute_batch, execute_batch_update.
ExecutePrepared ==
  /\ CanExecute
  /\ \E r \in Results : RunAsIs("prepared", r) /\ Returns("prepared", r)

\* Imports (make_sql_executor) and exports: the session's state is not asked.
Transfer ==
  \E r \in Results : RunAsIs("transfer", r) /\ Returns("transfer", r)

\* An export that gave up on its response terminates the transport.
TransferTimesOut ==
  /\ link = "up"
  /\ link' = "terminated"
  /\ EndOfSession
  /\ Returns("transfer", "err")
  /\ UNCHANGED <<state, in_transaction, query_timeout, autocommit, limit, ran>>

\* prepare, close_prepared, set_schema, refresh_current_schema and the fetches
\* and closes of a ResultSet: requests that leave transactions and timeouts alone.
OtherRequest ==
  /\ \/ /\ link = "up"
        /\ \E r \in Results : Returns("request", r)
        /\ UNCHANGED <<link, data>>
     \/ link = "up" /\ Returns("request", "err") /\ link' = "broken" /\ EndOfSession
     \/ link # "up" /\ Returns("request", "err") /\ UNCHANGED <<link, data>>
  /\ UNCHANGED <<state, in_transaction, query_timeout, autocommit, limit, ran>>

-----------------------------------------------------------------------------
(* Transactions                                                            *)

\* Mutant: the session enters the transaction before the server agrees.
BeginTransaction_Optimistic(r) ==
  /\ CanExecute
  /\ in_transaction = "no"
  /\ state' = "InTransaction"
  /\ in_transaction' = "yes"
  /\ \/ r = "ok" /\ link = "up" /\ autocommit' = "off"
     \/ r = "err" /\ UNCHANGED autocommit
  /\ UNCHANGED <<link, data, query_timeout, limit, ran>>

\* begin_transaction: autocommit off on the server, then the session's state.
BeginTransaction(r) ==
  /\ CanExecute
  /\ in_transaction = "no"
  /\ \/ /\ r = "ok"
        /\ link = "up"
        /\ autocommit' = "off"
        /\ in_transaction' = "yes"
        /\ state' = "InTransaction"
        /\ UNCHANGED <<link, data>>
     \/ /\ r = "err"
        /\ UNCHANGED <<link, data, autocommit, in_transaction, state>>
     \/ /\ r = "err"
        /\ link = "up"
        /\ link' = "broken"
        /\ autocommit' \in {autocommit, "off"}
        /\ EndOfSession
        /\ UNCHANGED <<in_transaction, state>>
  /\ UNCHANGED <<query_timeout, limit, ran>>

\* begin_transaction in a transaction or on a closed session: no request.
BeginRefused ==
  /\ ~CanExecute \/ in_transaction = "yes"
  /\ UNCHANGED <<state, in_transaction, query_timeout, link, autocommit, limit, data, ran>>

Begin ==
  \/ \E r \in Results : BeginTransaction(r) /\ Returns("begin", r)
  \/ BeginRefused /\ Returns("begin", "err")

\* Mutant: the session leaves the transaction whether or not the server did.
EndTransaction_Always(s, r) ==
  /\ \/ in_transaction = "no" /\ r = "ok" /\ UNCHANGED <<query_timeout, link, limit, data, ran>>
     \/ in_transaction = "yes" /\ ExecuteStatement(params_timeout, s, r)
  /\ in_transaction' = "no"
  /\ state' = IF state = "InTransaction" THEN "Ready" ELSE state
  /\ UNCHANGED autocommit

\* commit and rollback: nothing without a transaction; otherwise the statement,
\* and the session leaves the transaction only if it succeeded.
EndTransaction(s, r) ==
  /\ \/ /\ in_transaction = "no"
        /\ r = "ok"
        /\ UNCHANGED <<state, in_transaction, query_timeout, link, limit, data, ran>>
     \/ /\ in_transaction = "yes"
        /\ ExecuteStatement(params_timeout, s, r)
        /\ in_transaction' = IF r = "ok" THEN "no" ELSE "yes"
        /\ state' = IF r = "ok" THEN "Ready" ELSE state
  /\ UNCHANGED autocommit

Commit == \E r \in Results : EndTransaction("COMMIT", r) /\ Returns("commit", r)

Rollback == \E r \in Results : EndTransaction("ROLLBACK", r) /\ Returns("rollback", r)

-----------------------------------------------------------------------------
(* close and shutdown                                                      *)

\* Mutant: the session is closed and the transport is left as it is.
Shutdown_SessionOnly ==
  /\ state' = "Closed"
  /\ in_transaction' = "no"
  /\ Returns("close", "ok")
  /\ UNCHANGED <<query_timeout, link, autocommit, limit, data, ran>>

\* The session is closed, then the transport; a terminated one stays terminated.
Shutdown ==
  /\ state' = "Closed"
  /\ in_transaction' = "no"
  /\ link' = IF link \in {"up", "broken"} THEN "closed" ELSE link
  /\ EndOfSession
  /\ Returns("close", "ok")
  /\ UNCHANGED <<query_timeout, autocommit, limit, ran>>

-----------------------------------------------------------------------------
\* The connection that connect_with_transport returns: a configured timeout has
\* been set on the server (0 is None, which sets nothing, or a zero Duration), and
\* autocommit is what a new database session has.
Init ==
  /\ params_timeout \in ConnTimeouts
  /\ SecsCeil(params_timeout) <= MaxLimit
  /\ state = "Ready"
  /\ in_transaction = "no"
  /\ query_timeout = params_timeout
  /\ link = "up"
  /\ autocommit = "on"
  /\ limit \in {SecsCeil(params_timeout)}
              \cup (IF params_timeout = 0 THEN {AmbientLimit} ELSE {})
  /\ writes = 0
  /\ staged = {} /\ visible = {}
  /\ ran = [path |-> "none", asked |-> 0, had |-> 0]
  /\ last = [call |-> "connect", result |-> "ok"]

Next ==
  /\ UNCHANGED params_timeout
  /\ \/ Execute \/ ExecutePrepared \/ Transfer \/ TransferTimesOut \/ OtherRequest
     \/ Begin \/ Commit \/ Rollback \/ Shutdown

Spec == Init /\ [][Next]_vars

-----------------------------------------------------------------------------
(* Properties.                                                             *)

\* The state of the session, of the link and of the server.
TypeOK ==
  /\ params_timeout \in Nat
  /\ state \in {"Ready", "InTransaction", "Closed"}
  /\ in_transaction \in {"yes", "no"}
  /\ query_timeout \in Nat
  /\ link \in {"up", "broken", "closed", "terminated"}
  /\ autocommit \in {"on", "off"}
  /\ limit \in Nat
  /\ writes \in Nat
  /\ staged \subseteq Nat
  /\ visible \subseteq Nat
  /\ ran \in [path : {"none", "statement", "prepared", "transfer"}, asked : Nat, had : Nat]
  /\ last \in [call : {"connect", "execute", "prepared", "transfer", "begin", "commit",
                       "rollback", "close", "option", "request"}, result : Results]

\* The session believes it is in a transaction only if the server does not
\* commit by itself: no failure of begin_transaction, commit or rollback, and no
\* close, leaves the flag, the state and the server's autocommit apart.
TransactionAgrees ==
  /\ in_transaction = "yes" <=> state = "InTransaction"
  /\ in_transaction = "yes" => autocommit = "off"
  /\ state = "Closed" => link \in {"closed", "terminated"}

\* The last statement ran under the limit of a timeout t: t rounded up to a
\* second, and for none unlimited or the database's own setting.
RanUnder(t) == ran.had = SecsCeil(t) \/ (SecsCeil(t) = 0 /\ ran.had = AmbientLimit)

\* A statement whose timeout is given in whole milliseconds runs under it, rounded
\* up to a second, whatever timeouts the statements before it had and however
\* they failed.  A finer one is cut to its milliseconds first, so that one below a
\* millisecond is none.
TimeoutInForce ==
  ran.path = "statement" =>
    /\ RanUnder(Millis(ran.asked))
    /\ ran.asked % TicksPerMilli = 0 => RanUnder(ran.asked)

\* The baseline that execute_statement compares with is what the server has, as
\* long as the connection works: what makes TimeoutInForce hold.
BaselineInv ==
  link = "up" =>
    \/ limit = SecsCeil(query_timeout)
    \/ SecsCeil(query_timeout) = 0 /\ limit = AmbientLimit

\* Inside a transaction nothing becomes visible to other sessions until the
\* application calls commit.
NothingLeaksBeforeCommit ==
  [][(in_transaction = "yes" /\ visible' # visible) => (last'.call \in {"commit", "option"})]_vars

\* A commit that ends a transaction makes all of its writes visible and a
\* rollback discards them all: when the session leaves a transaction on a link
\* that still works, the server keeps nothing staged.
TransactionEndsWhole ==
  [][(in_transaction = "yes" /\ in_transaction' = "no") =>
       (staged' = {} /\ visible' = IF last'.call \in {"rollback", "close"}
                                     THEN visible ELSE visible \cup staged)]_vars

\* commit() returning Ok has made every pending change visible
\* (specs/adbc-driver/transactions/spec.md, "Commit transaction").
CommitMakesVisible == last = [call |-> "commit", result |-> "ok"] => staged = {}
=============================================================================
