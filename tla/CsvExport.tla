----------------------------- MODULE CsvExport -----------------------------
(***************************************************************************)
(* export_to_callback (src/src/export/csv.rs): an EXPORT statement on the  *)
(* SQL transport, a tunnel task that reads the body Exasol pushes, a relay *)
(* task between two bounded channels, and the callback that consumes the   *)
(* pieces, settled by settle_export under an optional timer.               *)
(*                                                                         *)
(* The SQL statement, the callback and settle_export run in one task (the  *)
(* future of the export), the tunnel and the relay in tasks of their own.  *)
(* A piece is its number in the body.                                      *)
(***************************************************************************)
EXTENDS Naturals, Sequences

CONSTANTS
  Pieces,   \* bound: pieces of the body
  PipeCap   \* capacity of data_pipe (DEFAULT_PIPE_BUFFER_SIZE)

ASSUME CsvExportAssumption == Pieces \in Nat /\ PipeCap \in Nat \ {0}

VARIABLES
  timer,          \* options.timeout_ms: "armed" or "unset"
  statement,      \* the EXPORT statement on the server
  unsent,         \* pieces the server has not sent yet
  tunnel,         \* serve_export_tunnel: where it is, or how it ended
  piece,          \* the piece the tunnel is handing on, 0: none
  failed,         \* TunnelTask.failed: "yes" or "no"
  to_relay,       \* the one-slot channel from the tunnel to the relay
  relay,          \* relay_pieces: where it is
  in_hand,        \* the piece the relay is handing on, 0: none
  discard,        \* the permit of the Notify: "yes" or "no"
  pipe,           \* data_pipe, from the relay to the callback
  receiver,       \* the DataPipeReceiver: "open" or "dropped"
  callback,       \* "running", "ok" or "err"
  got,            \* what the callback has received
  saw_end,        \* did the callback see its data end? "yes" or "no"
  settle,         \* where settle_export is, "done" when the export has returned
  response_read,  \* sql_response_read: "yes" or "no"
  transport,      \* the SQL transport: "usable" or "terminated"
  result          \* what the export returned

tunnelVars   == <<tunnel, piece, failed, unsent>>
relayVars    == <<relay, in_hand>>
callbackVars == <<callback, got, saw_end>>
settleVars   == <<settle, response_read, transport, result>>

vars == <<timer, statement, tunnelVars, to_relay, relayVars, discard, pipe, receiver,
          callbackVars, settleVars>>

TunnelEnded == tunnel \in {"ok", "failed", "aborted"}
RelayEnded  == relay \in {"done", "aborted"}

\* The callback lost part of the body: its data ended before the last piece.
CutShort == saw_end = "yes" /\ Len(got) < Pieces

-----------------------------------------------------------------------------
(* serve_export_tunnel                                                     *)

\* forward_sized_body reads the next piece, only after the last was handed on.
TunnelReads ==
  /\ tunnel = "reading"
  /\ unsent > 0
  /\ statement = "running"
  /\ unsent' = unsent - 1
  /\ piece' = Pieces - unsent + 1
  /\ tunnel' = "sending"
  /\ UNCHANGED <<timer, statement, failed, to_relay, relayVars, discard, pipe, receiver,
                 callbackVars, settleVars>>

\* sink.send: waits for a slot; with the relay gone the piece is discarded.
TunnelSends ==
  /\ tunnel = "sending"
  /\ \/ ~RelayEnded /\ Len(to_relay) < 1 /\ to_relay' = Append(to_relay, piece)
     \/ RelayEnded /\ UNCHANGED to_relay
  /\ piece' = 0
  /\ tunnel' = "reading"
  /\ UNCHANGED <<timer, statement, unsent, failed, relayVars, discard, pipe, receiver,
                 callbackVars, settleVars>>

\* The body has ended: 200 OK is written, the sink dropped, the tunnel shut down.
TunnelAnswers ==
  /\ tunnel = "reading"
  /\ unsent = 0
  /\ statement = "running"
  /\ tunnel' = "ok"
  /\ UNCHANGED <<timer, statement, unsent, piece, failed, to_relay, relayVars, discard, pipe,
                 receiver, callbackVars, settleVars>>

\* Mutant: the sink is dropped before the failure is recorded.
TunnelFails_DropsFirst ==
  /\ tunnel = "reading"
  /\ tunnel' = "failed"
  /\ UNCHANGED <<timer, statement, unsent, piece, failed, to_relay, relayVars, discard, pipe,
                 receiver, callbackVars, settleVars>>

\* Reading, parsing or answering failed: recorded while the sink is still open.
TunnelFails ==
  /\ tunnel = "reading"
  /\ failed' = "yes"
  /\ tunnel' = "failing"
  /\ UNCHANGED <<timer, statement, unsent, piece, to_relay, relayVars, discard, pipe, receiver,
                 callbackVars, settleVars>>

\* drop(sink), and the task returns its error.
TunnelEndsFailed ==
  /\ tunnel = "failing"
  /\ tunnel' = "failed"
  /\ UNCHANGED <<timer, statement, unsent, piece, failed, to_relay, relayVars, discard, pipe,
                 receiver, callbackVars, settleVars>>

Tunnel == TunnelReads \/ TunnelSends \/ TunnelAnswers \/ TunnelEndsFailed

-----------------------------------------------------------------------------
(* relay_pieces                                                            *)

\* from_tunnel.recv: the next piece, to be handed on or, when discarding, dropped.
RelayReceives ==
  /\ relay \in {"receiving", "discarding"}
  /\ to_relay # <<>>
  /\ to_relay' = Tail(to_relay)
  /\ IF relay = "receiving"
       THEN relay' = "sending" /\ in_hand' = Head(to_relay)
       ELSE UNCHANGED relayVars
  /\ UNCHANGED <<timer, statement, tunnelVars, discard, pipe, receiver, callbackVars, settleVars>>

\* The select of relay_pieces: the piece is accepted, the receiver is gone, or
\* discard fires.
RelaySends ==
  /\ relay = "sending"
  /\ \/ /\ receiver = "open"
        /\ Len(pipe) < PipeCap
        /\ pipe' = Append(pipe, in_hand)
        /\ relay' = "receiving"
        /\ UNCHANGED discard
     \/ /\ receiver = "dropped"
        /\ relay' = "discarding"
        /\ UNCHANGED <<pipe, discard>>
     \/ /\ discard = "yes"
        /\ discard' = "no"
        /\ relay' = "discarding"
        /\ UNCHANGED pipe
  /\ in_hand' = 0
  /\ UNCHANGED <<timer, statement, tunnelVars, to_relay, receiver, callbackVars, settleVars>>

\* recv returns None: the tunnel dropped its sink and the channel is empty.
RelayEnds ==
  /\ relay \in {"receiving", "discarding"}
  /\ to_relay = <<>>
  /\ TunnelEnded
  /\ relay' = "done"
  /\ UNCHANGED <<timer, statement, tunnelVars, to_relay, in_hand, discard, pipe, receiver,
                 callbackVars, settleVars>>

Relay == RelayReceives \/ RelaySends \/ RelayEnds

-----------------------------------------------------------------------------
(* The callback: the caller's code.                                        *)

CallbackLives == callback = "running" /\ settle # "done"

CallbackReceives ==
  /\ CallbackLives
  /\ receiver = "open"
  /\ pipe # <<>>
  /\ got' = Append(got, Head(pipe))
  /\ pipe' = Tail(pipe)
  /\ UNCHANGED <<timer, statement, tunnelVars, to_relay, relayVars, discard, receiver, callback,
                 saw_end, settleVars>>

\* recv returns None: every sender is gone and the pipe is empty.
CallbackSeesEnd ==
  /\ CallbackLives
  /\ pipe = <<>>
  /\ RelayEnded
  /\ saw_end = "no"
  /\ saw_end' = "yes"
  /\ UNCHANGED <<timer, statement, tunnelVars, to_relay, relayVars, discard, pipe, receiver,
                 callback, got, settleVars>>

\* It returns, with or without keeping its receiver alive.
CallbackReturns(outcomes, receivers) ==
  /\ CallbackLives
  /\ callback' \in outcomes
  /\ receiver' \in receivers
  /\ UNCHANGED <<timer, statement, tunnelVars, to_relay, relayVars, discard, pipe, got, saw_end,
                 settleVars>>

-----------------------------------------------------------------------------
(* settle_export and the timer                                             *)

\* Mutant: only the relay is aborted; the tunnel goes on in its own task.
Abort_RelayOnly ==
  /\ relay' = IF RelayEnded THEN relay ELSE "aborted"
  /\ in_hand' = 0
  /\ UNCHANGED <<tunnelVars, to_relay>>

\* TunnelTask::abort; the socket of an aborted tunnel is closed.
Abort ==
  /\ tunnel' = IF TunnelEnded THEN tunnel ELSE "aborted"
  /\ piece' = 0
  /\ relay' = IF RelayEnded THEN relay ELSE "aborted"
  /\ in_hand' = 0
  /\ UNCHANGED <<failed, unsent, to_relay>>

NoAbort == UNCHANGED <<tunnelVars, relayVars, to_relay>>

Finish(r) == settle' = "done" /\ result' = r

\* A future that is dropped takes the callback, and its receiver, with it.
DropCallback ==
  receiver' = IF callback = "running" THEN "dropped" ELSE receiver

\* Mutant: a callback that returned early leaves the relay forwarding.
TunnelDiscard_Forgotten == UNCHANGED discard

\* TunnelTask::discard.
TunnelDiscard == discard' = "yes"

\* The biased select: the callback has returned.
SettleCallback ==
  /\ settle = "select"
  /\ callback # "running"
  /\ \/ callback = "ok" /\ settle' = "ok_await_sql" /\ TunnelDiscard /\ NoAbort
     \/ callback = "err" /\ failed = "yes" /\ settle' = "cut_await_sql" /\ NoAbort /\ UNCHANGED discard
     \/ callback = "err" /\ failed = "no" /\ settle' = "err_await_sql" /\ Abort /\ UNCHANGED discard
  /\ UNCHANGED <<timer, statement, pipe, receiver, callbackVars, response_read, transport, result>>

\* sql_task completes: the response is read and recorded as read.
ReadResponse ==
  /\ statement \in {"ok", "err"}
  /\ response_read = "no"
  /\ response_read' = "yes"

\* The select with the callback still running: the statement has answered.
SettleSql ==
  /\ settle = "select"
  /\ callback = "running"
  /\ ReadResponse
  /\ \/ statement = "err" /\ Finish("sql_error") /\ Abort /\ DropCallback
     \/ statement = "ok" /\ settle' = "join" /\ NoAbort /\ UNCHANGED <<result, receiver>>
  /\ UNCHANGED <<timer, statement, discard, pipe, callbackVars, transport>>

\* The callback has returned and the statement answers.
SettleAwaitsSql ==
  /\ settle \in {"ok_await_sql", "cut_await_sql", "err_await_sql"}
  /\ ReadResponse
  /\ \/ settle = "ok_await_sql" /\ statement = "err" /\ Finish("sql_error") /\ Abort
     \/ settle = "cut_await_sql" /\ statement = "err" /\ Finish("sql_error") /\ NoAbort
     \/ settle = "err_await_sql" /\ Finish("callback_error") /\ NoAbort
     \/ /\ settle \in {"ok_await_sql", "cut_await_sql"}
        /\ statement = "ok"
        /\ settle' = "join"
        /\ NoAbort
        /\ UNCHANGED result
  /\ UNCHANGED <<timer, statement, discard, pipe, receiver, callbackVars, transport>>

\* Mutant: the callback's result counts even if the tunnel failed.
SettleJoins_IgnoresTunnel ==
  /\ settle = "join"
  /\ TunnelEnded
  /\ callback # "running"
  /\ Finish(IF callback = "ok" THEN "ok" ELSE "callback_error")
  /\ UNCHANGED <<timer, statement, tunnelVars, to_relay, relayVars, discard, pipe, receiver,
                 callbackVars, response_read, transport>>

\* The statement succeeded: the tunnel's error, or else the callback's result.
SettleJoins ==
  /\ settle = "join"
  /\ TunnelEnded
  /\ callback # "running"
  /\ Finish(IF tunnel # "ok" THEN "http_error"
            ELSE IF callback = "ok" THEN "ok" ELSE "callback_error")
  /\ UNCHANGED <<timer, statement, tunnelVars, to_relay, relayVars, discard, pipe, receiver,
                 callbackVars, response_read, transport>>

\* Mutant: every timeout terminates the transport.
TimedOut_AlwaysTerminates ==
  /\ timer = "armed"
  /\ settle # "done"
  /\ Abort
  /\ DropCallback
  /\ transport' = "terminated"
  /\ Finish("timeout_terminated")
  /\ UNCHANGED <<timer, statement, discard, pipe, callbackVars, response_read>>

\* The bound elapsed: the tunnel is aborted, and the transport is terminated
\* unless the response of the statement was read.
TimedOut ==
  /\ timer = "armed"
  /\ settle # "done"
  /\ Abort
  /\ DropCallback
  /\ IF response_read = "no"
       THEN transport' = "terminated" /\ Finish("timeout_terminated")
       ELSE transport' = transport /\ Finish("timeout_usable")
  /\ UNCHANGED <<timer, statement, discard, pipe, callbackVars, response_read>>

Settle == SettleCallback \/ SettleSql \/ SettleAwaitsSql \/ SettleJoins

-----------------------------------------------------------------------------
(* The server                                                              *)

Answers(outcomes) ==
  /\ statement = "running"
  /\ statement' \in outcomes
  /\ UNCHANGED <<timer, tunnelVars, to_relay, relayVars, discard, pipe, receiver, callbackVars,
                 settleVars>>

\* The statement fails on its own: an SQL error, or the server's queryTimeout.
StatementFails == Answers({"err"})

\* The whole body was taken, or the tunnel broke or was closed.  A tunnel that
\* failed on the driver's side may still have satisfied the server.
StatementEnds ==
  \/ tunnel = "ok" /\ Answers({"ok"})
  \/ tunnel = "failed" /\ Answers({"ok", "err"})
  \/ tunnel = "aborted" /\ Answers({"err"})

-----------------------------------------------------------------------------
ExportInit ==
  /\ timer \in {"armed", "unset"}
  /\ statement = "running"
  /\ unsent = Pieces
  /\ tunnel = "reading"
  /\ piece = 0
  /\ failed = "no"
  /\ to_relay = <<>>
  /\ relay = "receiving"
  /\ in_hand = 0
  /\ discard = "no"
  /\ pipe = <<>>
  /\ receiver = "open"
  /\ callback = "running"
  /\ got = <<>>
  /\ saw_end = "no"
  /\ settle = "select"
  /\ response_read = "no"
  /\ transport = "usable"
  /\ result = "none"

\* Every step but the callback's return, which is the caller's.
ExportSteps ==
  \/ Tunnel \/ TunnelFails \/ Relay \/ CallbackReceives \/ CallbackSeesEnd
  \/ Settle \/ TimedOut \/ StatementFails \/ StatementEnds

-----------------------------------------------------------------------------
(* Properties.                                                             *)

\* When the export returns, the SQL transport is terminated exactly if the
\* response of the EXPORT statement was not read: no response is left behind for
\* the next operation, and no healthy connection is thrown away.
TransportInSync == settle = "done" => (transport = "terminated" <=> response_read = "no")

\* A callback that failed because a broken tunnel ended its data is never
\* blamed: the caller gets the statement's or the tunnel's error.
CallbackNotBlamed == result = "callback_error" => ~CutShort

\* No tunnel is left reading, or waiting for a reader, after the export returned.
NoTunnelLeft == settle = "done" => tunnel \in {"ok", "failed", "failing", "aborted"}

\* An export that has returned leaves nothing behind: no tunnel, and no response that the
\* next operation would be given.
NothingLeft == TransportInSync /\ NoTunnelLeft
=============================================================================
