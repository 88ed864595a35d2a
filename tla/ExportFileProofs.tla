-------------------------- MODULE ExportFileProofs --------------------------
(***************************************************************************)
(* What an export returns and leaves behind, for a body of any length and  *)
(* a pipe of any capacity.  The inductive invariant follows the pieces     *)
(* through the two channels (OrderInv), says what settle_export knows of   *)
(* the tasks in each of its states (SettleInv, TaskInv), what a consumer   *)
(* that saw its data end has read (EndInv), and what became of the file    *)
(* (FileInv).                                                              *)
(*                                                                         *)
(* And the dates and intervals that an export to Arrow or Parquet reads    *)
(* from its text (ValueText), for every year.                              *)
(***************************************************************************)
EXTENDS ExportFile, ValueText, TLAPS

Settling == {"select", "ok_await_sql", "cut_await_sql", "err_await_sql", "join", "done"}
Results  == {"none", "ok", "sql_error", "http_error", "callback_error", "timeout_terminated",
             "timeout_usable"}

\* What the variables of the export may hold.
ExportTypeOK ==
  /\ timer \in {"armed", "unset"}
  /\ statement \in {"running", "ok", "err"}
  /\ unsent \in Nat /\ unsent <= Pieces
  /\ tunnel \in {"reading", "sending", "failing", "ok", "failed", "aborted"}
  /\ piece \in Nat
  /\ failed \in {"yes", "no"}
  /\ to_relay \in Seq(Nat)
  /\ relay \in {"receiving", "sending", "discarding", "done", "aborted"}
  /\ in_hand \in Nat
  /\ discard \in {"yes", "no"}
  /\ pipe \in Seq(Nat)
  /\ receiver \in {"open", "dropped"}
  /\ callback \in {"running", "ok", "err"}
  /\ got \in Seq(Nat)
  /\ saw_end \in {"yes", "no"}
  /\ settle \in Settling
  /\ response_read \in {"yes", "no"}
  /\ transport \in {"usable", "terminated"}
  /\ result \in Results

\* What the variables of the call may hold.
FileTypeOK ==
  /\ target \in {"callback", "file", "list", "ipc", "parquet"}
  /\ phase \in {"create", "prepare", "close", "export", "convert", "write", "returned"}
  /\ handle \in {"none", "open", "closed", "close_failed"}
  /\ schema \in {"known", "rejected", "missing"}
  /\ file \in {"untouched", "partial", "whole", "removed", "not_removed"}
  /\ outcome \in Results \cup {"io_error", "prepare_error", "rejected", "close_error", "schema_error",
                               "conversion_error", "write_error"}

\* What settle_export has done in each of its states.
SettleInv ==
  /\ settle # "done" => transport = "usable" /\ result = "none"
  /\ settle = "join" => response_read = "yes"
  /\ settle = "done" => (transport = "terminated" <=> response_read = "no")
  /\ settle = "ok_await_sql" => callback = "ok"
  /\ settle \in {"cut_await_sql", "err_await_sql"} => callback = "err"
  /\ settle = "cut_await_sql" => failed = "yes"
  /\ settle = "err_await_sql" => TunnelEnded /\ RelayEnded
  /\ settle = "done" => tunnel \in {"ok", "failed", "failing", "aborted"}
  /\ result = "ok" => tunnel = "ok" /\ relay # "aborted" /\ callback = "ok"

\* How tunnel, relay and receiver came to their ends.
TaskInv ==
  /\ tunnel \in {"failing", "failed"} => failed = "yes"
  /\ failed = "yes" => tunnel \in {"failing", "failed", "aborted"}
  /\ tunnel = "ok" => unsent = 0
  /\ (tunnel = "aborted" \/ relay = "aborted") => settle \in {"err_await_sql", "done"}
  /\ tunnel = "aborted" => RelayEnded
  /\ relay = "done" => TunnelEnded
  /\ (receiver = "dropped" \/ relay = "discarding") => ~CallbackLives
  /\ discard = "yes" => callback # "running"

Forwarding == relay \in {"receiving", "sending"}

\* Pieces the consumer has or will have before those in the channel to the relay.
Ahead == Len(got) + Len(pipe) + (IF relay = "sending" THEN 1 ELSE 0)

\* What the consumer has, and what waits for it in the pipe and in the relay.
PipeInv ==
  /\ \A i \in 1 .. Len(got) : got[i] = i
  /\ \A i \in 1 .. Len(pipe) : pipe[i] = Len(got) + i
  /\ relay = "sending" => in_hand = Ahead

\* What waits for the relay, and the piece the tunnel has read last.
ChannelInv ==
  /\ tunnel = "sending" => piece = Pieces - unsent
  /\ Forwarding => /\ \A i \in 1 .. Len(to_relay) : to_relay[i] = Ahead + i
                   /\ Pieces - unsent = Ahead + Len(to_relay) + (IF tunnel = "sending" THEN 1 ELSE 0)

\* Every piece is in its place on the way from the tunnel to the consumer.
OrderInv == PipeInv /\ ChannelInv

\* What a consumer that saw the end of its data has read.
EndInv ==
  /\ (relay = "done" /\ CallbackLives) => Len(got) + Len(pipe) = Pieces - unsent
  /\ saw_end = "yes" => RelayEnded /\ pipe = <<>> /\ (relay = "done" => Len(got) = Pieces - unsent)
  /\ (settle = "err_await_sql" \/ result = "callback_error") => ~CutShort

\* The file, the prepared statement and the outcome of the call.
FileInv ==
  /\ (target # "callback" /\ callback = "ok") => saw_end = "yes"
  /\ (target = "file" /\ callback = "ok" /\ Len(got) = Pieces) => file = "whole"
  /\ phase \in {"create", "prepare", "close"} => callback = "running"
  /\ phase = "create" => target = "file"
  /\ phase \in {"convert", "write"} => target \in {"ipc", "parquet"} /\ result = "ok" /\ settle = "done"
  /\ phase # "returned" => outcome = "none"
  /\ outcome = "ok" => result = "ok" /\ settle = "done"
  /\ (outcome = "ok" /\ target \in {"ipc", "parquet"}) => file = "whole"
  /\ (target = "parquet" /\ phase # "returned") => file = "untouched"
  /\ (target = "parquet" /\ outcome # "ok") => file \in {"untouched", "removed", "not_removed"}
  /\ handle = "open" => phase = "close"

\* The inductive invariant of the export, and of the call around it.
ExportInv == ExportTypeOK /\ SettleInv /\ TaskInv /\ OrderInv /\ EndInv
CallInv == ExportInv /\ FileTypeOK /\ FileInv

-----------------------------------------------------------------------------
(* Queues                                                                  *)

\* Taking the head of a queue.
LEMMA TailFacts ==
  ASSUME NEW s \in Seq(Nat), s # <<>>
  PROVE  /\ Len(s) \in Nat /\ Len(s) > 0
         /\ Head(s) = s[1] /\ Head(s) \in Nat
         /\ Tail(s) \in Seq(Nat)
         /\ Len(Tail(s)) = Len(s) - 1
         /\ \A i \in 1 .. Len(s) - 1 : Tail(s)[i] = s[i + 1]
OBVIOUS

\* Adding to a queue.
LEMMA AppendFacts ==
  ASSUME NEW s \in Seq(Nat), NEW e \in Nat
  PROVE  /\ Len(s) \in Nat
         /\ Append(s, e) \in Seq(Nat)
         /\ Len(Append(s, e)) = Len(s) + 1
         /\ \A i \in 1 .. Len(s) : Append(s, e)[i] = s[i]
         /\ Append(s, e)[Len(s) + 1] = e
         /\ Append(s, e) # <<>>
OBVIOUS

\* The length of a queue is a number.
LEMMA LenNat ==
  ASSUME NEW s \in Seq(Nat)
  PROVE  Len(s) \in Nat /\ (Len(s) = 0 <=> s = <<>>)
OBVIOUS

-----------------------------------------------------------------------------
(* The tunnel                                                              *)

\* A piece is read only when the one before it was handed on.
LEMMA TunnelReadsStep ==
  ASSUME ExportInv, TunnelReads
  PROVE  ExportInv'
<1>. USE DEF ExportInv, tunnelVars, relayVars, callbackVars, settleVars
<1>0. Pieces \in Nat /\ unsent \in Nat /\ unsent > 0 /\ unsent <= Pieces
  BY CsvExportAssumption DEF ExportTypeOK, TunnelReads
<1>1. ExportTypeOK'
  BY <1>0 DEF ExportTypeOK, TunnelReads
<1>2. SettleInv'
  BY DEF SettleInv, TunnelReads, TunnelEnded, RelayEnded
<1>3. TaskInv'
  BY <1>0 DEF TaskInv, SettleInv, TunnelReads, TunnelEnded, RelayEnded, CallbackLives
<1>4. OrderInv'
  <2>1. Ahead \in Nat /\ Len(to_relay) \in Nat
    BY LenNat DEF ExportTypeOK, Ahead
  <2>2. Ahead' = Ahead /\ (Forwarding' <=> Forwarding) /\ PipeInv'
    BY DEF OrderInv, PipeInv, TunnelReads, Forwarding, Ahead
  <2>3. ChannelInv'
    BY <1>0, <2>1, <2>2 DEF OrderInv, ChannelInv, TunnelReads
  <2>. QED
    BY <2>2, <2>3 DEF OrderInv
<1>5. EndInv'
  BY <1>0 DEF EndInv, TaskInv, TunnelReads, TunnelEnded, RelayEnded, CallbackLives, CutShort
<1>. QED
  BY <1>1, <1>2, <1>3, <1>4, <1>5

\* The piece goes into the channel behind those before it.
LEMMA TunnelSendsStep ==
  ASSUME ExportInv, TunnelSends
  PROVE  ExportInv'
<1>. USE DEF ExportInv, tunnelVars, relayVars, callbackVars, settleVars
<1>0. /\ Pieces \in Nat /\ unsent \in Nat /\ unsent <= Pieces /\ piece \in Nat
      /\ got \in Seq(Nat) /\ pipe \in Seq(Nat) /\ to_relay \in Seq(Nat)
      /\ tunnel = "sending" /\ tunnel' = "reading"
      /\ Len(got) \in Nat /\ Len(pipe) \in Nat /\ Len(to_relay) \in Nat
  BY CsvExportAssumption, LenNat DEF ExportTypeOK, TunnelSends
<1>1. ExportTypeOK'
  BY <1>0, AppendFacts DEF ExportTypeOK, TunnelSends
<1>2. SettleInv'
  BY DEF SettleInv, TunnelSends, TunnelEnded, RelayEnded
<1>3. TaskInv'
  BY <1>0 DEF TaskInv, SettleInv, TunnelSends, TunnelEnded, RelayEnded, CallbackLives
<1>4. OrderInv'
  <2>1. CASE to_relay' = Append(to_relay, piece)
    <3>1. Ahead \in Nat
      BY <1>0 DEF Ahead
    <3>2. Ahead' = Ahead /\ (Forwarding' <=> Forwarding) /\ PipeInv'
      BY DEF OrderInv, PipeInv, TunnelSends, Forwarding, Ahead
    <3>3. /\ Len(to_relay') = Len(to_relay) + 1
          /\ \A i \in 1 .. Len(to_relay) : to_relay'[i] = to_relay[i]
          /\ to_relay'[Len(to_relay) + 1] = piece
      BY <1>0, <2>1, AppendFacts
    <3>4. ChannelInv'
      BY <1>0, <3>1, <3>2, <3>3 DEF OrderInv, ChannelInv, TunnelSends
    <3>. QED
      BY <3>2, <3>4 DEF OrderInv
  <2>2. CASE RelayEnded /\ UNCHANGED to_relay
    BY <1>0, <2>2 DEF OrderInv, PipeInv, ChannelInv, TunnelSends, Forwarding, Ahead, RelayEnded
  <2>. QED
    BY <2>1, <2>2 DEF TunnelSends
<1>5. EndInv'
  BY <1>0 DEF EndInv, TaskInv, TunnelSends, TunnelEnded, RelayEnded, CallbackLives, CutShort
<1>. QED
  BY <1>1, <1>2, <1>3, <1>4, <1>5

\* The end of the tunnel, well or not: nothing is on its way from it.
LEMMA TunnelEndsStep ==
  ASSUME ExportInv, TunnelAnswers \/ TunnelFails \/ TunnelEndsFailed
  PROVE  ExportInv'
<1>. USE DEF ExportInv, tunnelVars, relayVars, callbackVars, settleVars
<1>0. /\ tunnel \in {"reading", "failing"} /\ tunnel' \in {"ok", "failing", "failed"}
      /\ tunnel = "reading" => settle # "done" /\ failed = "no"
      /\ (tunnel' = "failing" => failed' = "yes") /\ (tunnel' = "ok" => unsent = 0)
      /\ (tunnel = "failing" => tunnel' = "failed") /\ (tunnel' = "failed" => tunnel = "failing")
      /\ (failed' = failed \/ (failed' = "yes" /\ tunnel' = "failing"))
      /\ UNCHANGED <<timer, statement, unsent, piece, to_relay, relayVars, discard, pipe, receiver,
                     callbackVars, settleVars>>
  BY DEF TunnelAnswers, TunnelFails, TunnelEndsFailed, TaskInv, SettleInv, ExportTypeOK
<1>1. ExportTypeOK'
  BY <1>0 DEF ExportTypeOK
<1>2. SettleInv'
  BY <1>0 DEF SettleInv, TaskInv, ExportTypeOK, TunnelEnded, RelayEnded
<1>3. TaskInv'
  BY <1>0 DEF TaskInv, ExportTypeOK, TunnelEnded, RelayEnded, CallbackLives
<1>4. OrderInv'
  BY <1>0 DEF OrderInv, PipeInv, ChannelInv, Forwarding, Ahead
<1>5. EndInv'
  BY <1>0 DEF EndInv, RelayEnded, CallbackLives, CutShort
<1>. QED
  BY <1>1, <1>2, <1>3, <1>4, <1>5

-----------------------------------------------------------------------------
(* The relay                                                               *)

\* The relay takes the next piece, or drops it when it is discarding.
LEMMA RelayReceivesStep ==
  ASSUME ExportInv, RelayReceives
  PROVE  ExportInv'
<1>. USE DEF ExportInv, tunnelVars, relayVars, callbackVars, settleVars
<1>0. /\ Pieces \in Nat /\ unsent \in Nat /\ unsent <= Pieces
      /\ got \in Seq(Nat) /\ pipe \in Seq(Nat) /\ to_relay \in Seq(Nat)
      /\ relay \in {"receiving", "discarding"} /\ to_relay # <<>> /\ to_relay' = Tail(to_relay)
      /\ Len(got) \in Nat /\ Len(pipe) \in Nat
      /\ UNCHANGED <<timer, statement, tunnelVars, discard, pipe, receiver, callbackVars, settleVars>>
  BY CsvExportAssumption, LenNat DEF ExportTypeOK, RelayReceives
<1>1. /\ Len(to_relay) \in Nat /\ Len(to_relay) > 0
      /\ Head(to_relay) = to_relay[1] /\ Head(to_relay) \in Nat
      /\ to_relay' \in Seq(Nat) /\ Len(to_relay') = Len(to_relay) - 1
      /\ \A i \in 1 .. Len(to_relay) - 1 : to_relay'[i] = to_relay[i + 1]
  BY <1>0, TailFacts
<1>2. CASE relay = "receiving" /\ relay' = "sending" /\ in_hand' = Head(to_relay)
  <2>1. ExportTypeOK' /\ SettleInv' /\ TaskInv'
    BY <1>0, <1>1, <1>2 DEF ExportTypeOK, SettleInv, TaskInv, TunnelEnded, RelayEnded, CallbackLives
  <2>2. OrderInv'
    <3>1. Ahead \in Nat /\ Ahead' = Ahead + 1 /\ Forwarding /\ Forwarding'
      BY <1>0, <1>2 DEF Ahead, Forwarding
    <3>2. to_relay[1] = Ahead + 1
      BY <1>1, <3>1 DEF OrderInv, ChannelInv
    <3>3. PipeInv'
      BY <1>0, <1>1, <1>2, <3>1, <3>2 DEF OrderInv, PipeInv
    <3>4. ChannelInv'
      BY <1>0, <1>1, <1>2, <3>1 DEF OrderInv, ChannelInv
    <3>. QED
      BY <3>3, <3>4 DEF OrderInv
  <2>3. EndInv'
    BY <1>0, <1>2 DEF EndInv, RelayEnded, CallbackLives, CutShort
  <2>. QED
    BY <2>1, <2>2, <2>3
<1>3. CASE relay = "discarding" /\ UNCHANGED relayVars
  <2>1. ExportTypeOK' /\ SettleInv' /\ TaskInv'
    BY <1>0, <1>1, <1>3 DEF ExportTypeOK, SettleInv, TaskInv, TunnelEnded, RelayEnded, CallbackLives
  <2>2. OrderInv' /\ EndInv'
    BY <1>0, <1>3 DEF OrderInv, PipeInv, ChannelInv, EndInv, Forwarding, Ahead, RelayEnded, CallbackLives, CutShort
  <2>. QED
    BY <2>1, <2>2
<1>. QED
  BY <1>0, <1>2, <1>3 DEF RelayReceives

\* The relay hands a piece to the consumer, or begins to discard because nobody
\* will read it.
LEMMA RelaySendsStep ==
  ASSUME ExportInv, RelaySends
  PROVE  ExportInv'
<1>. USE DEF ExportInv, tunnelVars, relayVars, callbackVars, settleVars
<1>0. /\ Pieces \in Nat /\ unsent \in Nat /\ unsent <= Pieces /\ in_hand \in Nat
      /\ got \in Seq(Nat) /\ pipe \in Seq(Nat) /\ to_relay \in Seq(Nat)
      /\ relay = "sending" /\ in_hand' = 0 /\ saw_end = "no"
      /\ Len(got) \in Nat /\ Len(pipe) \in Nat /\ Len(to_relay) \in Nat
      /\ UNCHANGED <<timer, statement, tunnelVars, to_relay, receiver, callbackVars, settleVars>>
  BY CsvExportAssumption, LenNat DEF ExportTypeOK, RelaySends, EndInv, RelayEnded
<1>1. CASE pipe' = Append(pipe, in_hand) /\ relay' = "receiving" /\ UNCHANGED discard
  <2>1. /\ pipe' \in Seq(Nat) /\ Len(pipe') = Len(pipe) + 1
        /\ \A i \in 1 .. Len(pipe) : pipe'[i] = pipe[i]
        /\ pipe'[Len(pipe) + 1] = in_hand
    BY <1>0, <1>1, AppendFacts
  <2>2. ExportTypeOK' /\ SettleInv' /\ TaskInv'
    BY <1>0, <1>1, <2>1 DEF ExportTypeOK, SettleInv, TaskInv, TunnelEnded, RelayEnded, CallbackLives
  <2>3. OrderInv'
    <3>1. Ahead \in Nat /\ Ahead = Len(got) + Len(pipe) + 1 /\ Ahead' = Ahead /\ Forwarding /\ Forwarding'
      BY <1>0, <1>1, <2>1 DEF Ahead, Forwarding
    <3>2. PipeInv'
      <4>1. in_hand = Len(got) + (Len(pipe) + 1) /\ got' = got /\ relay' # "sending"
        BY <1>0, <1>1, <3>1 DEF OrderInv, PipeInv
      <4>2. ASSUME NEW i \in 1 .. Len(pipe')
            PROVE  pipe'[i] = Len(got) + i
        <5>1. CASE i \in 1 .. Len(pipe)
          BY <2>1, <5>1 DEF OrderInv, PipeInv
        <5>2. CASE i = Len(pipe) + 1
          BY <2>1, <4>1, <5>2
        <5>. QED
          BY <1>0, <2>1, <5>1, <5>2
      <4>. QED
        BY <4>1, <4>2 DEF OrderInv, PipeInv
    <3>3. ChannelInv'
      BY <1>0, <1>1, <3>1 DEF OrderInv, ChannelInv
    <3>. QED
      BY <3>2, <3>3 DEF OrderInv
  <2>4. EndInv'
    BY <1>0, <1>1 DEF EndInv, RelayEnded, CallbackLives, CutShort
  <2>. QED
    BY <2>2, <2>3, <2>4
<1>2. CASE /\ receiver = "dropped" \/ discard = "yes"
           /\ relay' = "discarding" /\ discard' \in {discard, "no"} /\ UNCHANGED pipe
  <2>1. ExportTypeOK' /\ SettleInv'
    BY <1>0, <1>2 DEF ExportTypeOK, SettleInv, TunnelEnded, RelayEnded
  <2>2. TaskInv'
    BY <1>0, <1>2 DEF TaskInv, ExportTypeOK, TunnelEnded, RelayEnded, CallbackLives
  <2>3. OrderInv' /\ EndInv'
    BY <1>0, <1>2 DEF OrderInv, PipeInv, ChannelInv, EndInv, Forwarding, Ahead, RelayEnded, CallbackLives, CutShort
  <2>. QED
    BY <2>1, <2>2, <2>3
<1>. QED
  BY <1>1, <1>2 DEF RelaySends

\* The relay has seen the tunnel end: a consumer that still reads gets all that
\* the tunnel had read.
LEMMA RelayEndsStep ==
  ASSUME ExportInv, RelayEnds
  PROVE  ExportInv'
<1>. USE DEF ExportInv, tunnelVars, relayVars, callbackVars, settleVars
<1>0. /\ Pieces \in Nat /\ unsent \in Nat /\ unsent <= Pieces
      /\ Len(got) \in Nat /\ Len(pipe) \in Nat /\ Len(to_relay) = 0
      /\ relay \in {"receiving", "discarding"} /\ TunnelEnded /\ relay' = "done"
      /\ saw_end = "no"
      /\ UNCHANGED <<timer, statement, tunnelVars, to_relay, in_hand, discard, pipe, receiver,
                     callbackVars, settleVars>>
  BY CsvExportAssumption, LenNat DEF ExportTypeOK, RelayEnds, EndInv, RelayEnded
<1>1. ExportTypeOK' /\ SettleInv' /\ TaskInv'
  BY <1>0 DEF ExportTypeOK, SettleInv, TaskInv, TunnelEnded, RelayEnded, CallbackLives
<1>2. OrderInv'
  BY <1>0 DEF OrderInv, PipeInv, ChannelInv, Forwarding, Ahead
<1>3. EndInv'
  BY <1>0 DEF EndInv, OrderInv, PipeInv, ChannelInv, TaskInv, Forwarding, Ahead, TunnelEnded, RelayEnded, CallbackLives, CutShort
<1>. QED
  BY <1>1, <1>2, <1>3

-----------------------------------------------------------------------------
(* The consumer                                                            *)

\* The consumer takes the next piece.
LEMMA CallbackReceivesStep ==
  ASSUME ExportInv, CallbackReceives
  PROVE  ExportInv'
<1>. USE DEF ExportInv, tunnelVars, relayVars, callbackVars, settleVars
<1>0. /\ Pieces \in Nat /\ unsent \in Nat /\ unsent <= Pieces
      /\ got \in Seq(Nat) /\ pipe \in Seq(Nat) /\ pipe # <<>> /\ saw_end = "no"
      /\ pipe' = Tail(pipe) /\ got' = Append(got, Head(pipe))
      /\ Len(got) \in Nat /\ Len(pipe) \in Nat /\ Len(to_relay) \in Nat
      /\ callback = "running" /\ settle # "done"
      /\ UNCHANGED <<timer, statement, tunnelVars, to_relay, relayVars, discard, receiver, callback,
                     saw_end, settleVars>>
  BY CsvExportAssumption, LenNat DEF ExportTypeOK, CallbackReceives, CallbackLives, EndInv
<1>1. /\ Len(pipe) > 0 /\ pipe' \in Seq(Nat) /\ Len(pipe') = Len(pipe) - 1
      /\ Head(pipe) = pipe[1] /\ Head(pipe) \in Nat
      /\ \A i \in 1 .. Len(pipe) - 1 : pipe'[i] = pipe[i + 1]
  BY <1>0, TailFacts
<1>2. /\ got' \in Seq(Nat) /\ Len(got') = Len(got) + 1
      /\ \A i \in 1 .. Len(got) : got'[i] = got[i]
      /\ got'[Len(got) + 1] = Head(pipe)
  BY <1>0, <1>1, AppendFacts
<1>3. ExportTypeOK'
  BY <1>0, <1>1, <1>2 DEF ExportTypeOK
<1>4. SettleInv' /\ TaskInv'
  BY <1>0 DEF SettleInv, TaskInv, TunnelEnded, RelayEnded, CallbackLives
<1>5. Ahead' = Ahead /\ (Forwarding' <=> Forwarding)
  BY <1>0, <1>1, <1>2 DEF Ahead, Forwarding
<1>6. PipeInv'
  <2>1. Head(pipe) = Len(got) + 1
    BY <1>0, <1>1 DEF OrderInv, PipeInv
  <2>2. ASSUME NEW i \in 1 .. Len(got')
        PROVE  got'[i] = i
    <3>1. CASE i \in 1 .. Len(got)
      BY <1>2, <3>1 DEF OrderInv, PipeInv
    <3>2. CASE i = Len(got) + 1
      BY <1>2, <2>1, <3>2
    <3>. QED
      BY <1>0, <1>2, <3>1, <3>2
  <2>3. ASSUME NEW i \in 1 .. Len(pipe')
        PROVE  pipe'[i] = Len(got') + i
    <3>1. i \in Nat /\ i + 1 \in 1 .. Len(pipe) /\ pipe'[i] = pipe[i + 1]
      BY <1>0, <1>1
    <3>2. pipe[i + 1] = Len(got) + (i + 1)
      BY <3>1 DEF OrderInv, PipeInv
    <3>. QED
      BY <1>0, <1>2, <3>1, <3>2
  <2>. QED
    BY <1>0, <1>5, <2>2, <2>3 DEF OrderInv, PipeInv
<1>7. ChannelInv'
  BY <1>0, <1>5 DEF OrderInv, ChannelInv
<1>8. EndInv'
  <2>1. Len(got') + Len(pipe') = Len(got) + Len(pipe)
    BY <1>0, <1>1, <1>2
  <2>2. saw_end' = "no" /\ result' = "none" /\ settle' # "err_await_sql"
    BY <1>0 DEF SettleInv, ExportTypeOK
  <2>3. (relay = "done" /\ CallbackLives) => Len(got) + Len(pipe) = Pieces - unsent
    BY DEF EndInv
  <2>. QED
    BY <1>0, <2>1, <2>2, <2>3 DEF EndInv, CallbackLives
<1>. QED
  BY <1>3, <1>4, <1>6, <1>7, <1>8 DEF OrderInv

\* The consumer sees its data end only behind a relay that ended by itself.
LEMMA CallbackSeesEndStep ==
  ASSUME ExportInv, CallbackSeesEnd
  PROVE  ExportInv'
<1>. USE DEF ExportInv, tunnelVars, relayVars, callbackVars, settleVars
<1>0. /\ callback = "running" /\ settle # "done" /\ saw_end' = "yes"
      /\ UNCHANGED <<timer, statement, tunnelVars, to_relay, relayVars, discard, pipe, receiver,
                     callback, got, settleVars>>
  BY DEF CallbackSeesEnd, CallbackLives
<1>1. ExportTypeOK' /\ SettleInv' /\ TaskInv'
  BY <1>0 DEF ExportTypeOK, SettleInv, TaskInv, TunnelEnded, RelayEnded, CallbackLives
<1>2. OrderInv'
  BY <1>0 DEF OrderInv, PipeInv, ChannelInv, Forwarding, Ahead
<1>3. EndInv'
  <2>1. Len(got) \in Nat /\ Len(pipe) = 0 /\ pipe = <<>> /\ RelayEnded
    BY LenNat DEF ExportTypeOK, CallbackSeesEnd
  <2>2. relay = "done" => Len(got) = Pieces - unsent
    BY <1>0, <2>1 DEF EndInv, CallbackLives
  <2>3. result' = "none" /\ settle' # "err_await_sql"
    BY <1>0 DEF SettleInv, ExportTypeOK
  <2>. QED
    BY <1>0, <2>1, <2>2, <2>3 DEF EndInv, RelayEnded, CallbackLives
<1>. QED
  BY <1>1, <1>2, <1>3

\* The consumer returns; from now on it takes nothing.
LEMMA CallbackReturnsStep ==
  ASSUME ExportInv, NEW os \in SUBSET {"ok", "err"}, NEW rs \in SUBSET {"open", "dropped"},
         CallbackReturns(os, rs)
  PROVE  ExportInv'
<1>. USE DEF ExportInv, tunnelVars, relayVars, callbackVars, settleVars
<1>0. /\ callback = "running" /\ settle # "done" /\ callback' \in {"ok", "err"}
      /\ receiver' \in {"open", "dropped"}
      /\ UNCHANGED <<timer, statement, tunnelVars, to_relay, relayVars, discard, pipe, got, saw_end,
                     settleVars>>
  BY DEF CallbackReturns, CallbackLives
<1>1. ExportTypeOK' /\ TaskInv'
  BY <1>0 DEF ExportTypeOK, TaskInv, TunnelEnded, RelayEnded, CallbackLives
<1>2. SettleInv'
  BY <1>0 DEF SettleInv, TunnelEnded, RelayEnded
<1>3. OrderInv' /\ EndInv'
  BY <1>0 DEF OrderInv, PipeInv, ChannelInv, EndInv, Forwarding, Ahead, RelayEnded, CallbackLives, CutShort
<1>. QED
  BY <1>1, <1>2, <1>3

-----------------------------------------------------------------------------
(* settle_export, the timer and the server                                 *)

\* What an abort does, whoever asks for it: both tasks have ended, and what they
\* held is gone; a failure recorded before stays recorded.
LEMMA AbortFacts ==
  ASSUME ExportInv, Abort
  PROVE  /\ tunnel' = (IF TunnelEnded THEN tunnel ELSE "aborted")
         /\ relay' = (IF RelayEnded THEN relay ELSE "aborted")
         /\ TunnelEnded' /\ RelayEnded'
         /\ tunnel' \in {"ok", "failed", "aborted"} /\ relay' \in {"done", "aborted"}
         /\ piece' = 0 /\ in_hand' = 0 /\ UNCHANGED <<failed, unsent, to_relay>>
BY DEF Abort, TunnelEnded, RelayEnded

\* The types after an abort or without one.
LEMMA SettleTypes ==
  ASSUME ExportInv, Abort \/ NoAbort
  PROVE  /\ tunnel' \in {"reading", "sending", "failing", "ok", "failed", "aborted"}
         /\ relay' \in {"receiving", "sending", "discarding", "done", "aborted"}
         /\ piece' \in Nat /\ in_hand' \in Nat /\ to_relay' \in Seq(Nat)
         /\ failed' = failed /\ unsent' = unsent
BY DEF ExportInv, ExportTypeOK, Abort, NoAbort, TunnelEnded, RelayEnded, tunnelVars, relayVars

\* What settle_export does to the tasks leaves the order of the pieces alone.
LEMMA SettleOrder ==
  ASSUME ExportInv, Abort \/ NoAbort, UNCHANGED <<pipe, got>>
  PROVE  OrderInv'
<1>1. CASE Abort
  BY <1>1, AbortFacts DEF ExportInv, OrderInv, PipeInv, ChannelInv, Forwarding
<1>2. CASE NoAbort
  BY <1>2 DEF ExportInv, OrderInv, PipeInv, ChannelInv, Forwarding, Ahead, NoAbort, tunnelVars, relayVars
<1>. QED
  BY <1>1, <1>2

\* An end of the data that was seen stays seen, and what was read stays read.
LEMMA SettleEnd ==
  ASSUME ExportInv, NoAbort \/ (Abort /\ ~CallbackLives'), UNCHANGED <<pipe, callbackVars>>,
         settle # "done",
         (settle' = "err_await_sql" \/ result' = "callback_error") => ~CutShort
  PROVE  EndInv'
<1>1. /\ relay' = relay \/ (~RelayEnded /\ relay' = "aborted" /\ ~CallbackLives')
      /\ unsent' = unsent /\ got' = got /\ pipe' = pipe /\ saw_end' = saw_end /\ callback' = callback
      /\ relay = "done" /\ relay' = "done" /\ CallbackLives' => CallbackLives
  BY DEF Abort, NoAbort, tunnelVars, relayVars, callbackVars, CallbackLives
<1>2. /\ (relay = "done" /\ CallbackLives) => Len(got) + Len(pipe) = Pieces - unsent
      /\ saw_end = "yes" => RelayEnded /\ pipe = <<>> /\ (relay = "done" => Len(got) = Pieces - unsent)
  BY DEF ExportInv, EndInv
<1>3. (relay' = "done" /\ CallbackLives') => Len(got') + Len(pipe') = Pieces - unsent'
  BY <1>1, <1>2
<1>4. saw_end' = "yes" => RelayEnded' /\ pipe' = <<>> /\ (relay' = "done" => Len(got') = Pieces - unsent')
  BY <1>1, <1>2 DEF RelayEnded
<1>5. (settle' = "err_await_sql" \/ result' = "callback_error") => ~CutShort'
  BY <1>1 DEF CutShort
<1>. QED
  BY <1>3, <1>4, <1>5 DEF EndInv

\* An abort ends both tasks in a state that allows it.
LEMMA AbortTasks ==
  ASSUME ExportInv, Abort, settle' \in {"err_await_sql", "done"}, UNCHANGED <<discard, callback>>,
         ~CallbackLives'
  PROVE  TaskInv'
<1>1. TaskInv /\ tunnel \in {"reading", "sending", "failing", "ok", "failed", "aborted"}
  BY DEF ExportInv, ExportTypeOK
<1>. QED
  BY <1>1, AbortFacts DEF TaskInv, TunnelEnded, RelayEnded

\* Without an abort the tasks go on, and a consumer that has gone stays gone.
LEMMA NoAbortTasks ==
  ASSUME ExportInv, NoAbort, settle # "done", UNCHANGED <<receiver, callback>>,
         settle = "err_await_sql" => settle' = "done",
         discard' = discard \/ callback # "running"
  PROVE  TaskInv'
BY DEF ExportInv, TaskInv, NoAbort, TunnelEnded, RelayEnded, CallbackLives, tunnelVars, relayVars

\* The callback has returned: its error is its own only if the tunnel is sound.
LEMMA SettleCallbackStep ==
  ASSUME ExportInv, SettleCallback
  PROVE  ExportInv'
<1>0. /\ settle = "select" /\ callback # "running" /\ result = "none"
      /\ UNCHANGED <<timer, statement, pipe, receiver, callbackVars, response_read, transport, result>>
  BY DEF SettleCallback, ExportInv, SettleInv
<1>1. ExportTypeOK /\ SettleInv /\ TaskInv /\ EndInv
  BY DEF ExportInv
<1>2. CASE callback = "ok" /\ settle' = "ok_await_sql" /\ TunnelDiscard /\ NoAbort
  <2>1. TaskInv' /\ OrderInv'
    BY <1>0, <1>2, NoAbortTasks, SettleOrder DEF callbackVars
  <2>2. EndInv'
    BY <1>0, <1>2, SettleEnd
  <2>3. ExportTypeOK'
    BY <1>0, <1>1, <1>2, SettleTypes DEF ExportTypeOK, TunnelDiscard, callbackVars, Settling
  <2>4. SettleInv'
    BY <1>0, <1>1, <1>2 DEF SettleInv, NoAbort, tunnelVars, relayVars, callbackVars
  <2>. QED
    BY <2>1, <2>2, <2>3, <2>4 DEF ExportInv
<1>3. CASE callback = "err" /\ failed = "yes" /\ settle' = "cut_await_sql" /\ NoAbort /\ UNCHANGED discard
  <2>1. TaskInv' /\ OrderInv'
    BY <1>0, <1>3, NoAbortTasks, SettleOrder DEF callbackVars
  <2>2. EndInv'
    BY <1>0, <1>3, SettleEnd
  <2>3. ExportTypeOK'
    BY <1>0, <1>1, <1>3, SettleTypes DEF ExportTypeOK, callbackVars, Settling
  <2>4. SettleInv'
    BY <1>0, <1>1, <1>3 DEF SettleInv, NoAbort, tunnelVars, relayVars, callbackVars
  <2>. QED
    BY <2>1, <2>2, <2>3, <2>4 DEF ExportInv
<1>4. CASE callback = "err" /\ failed = "no" /\ settle' = "err_await_sql" /\ Abort /\ UNCHANGED discard
  <2>1. ~CallbackLives'
    BY <1>0 DEF CallbackLives, callbackVars
  <2>2. TaskInv' /\ OrderInv'
    BY <1>0, <1>4, <2>1, AbortTasks, SettleOrder DEF callbackVars
  <2>3. ~CutShort
    <3>1. SUFFICES ASSUME saw_end = "yes"
                   PROVE  Len(got) = Pieces
      BY CsvExportAssumption DEF CutShort
    <3>2. relay = "done" /\ tunnel = "ok"
      BY <1>0, <1>1, <1>4, <3>1 DEF EndInv, TaskInv, RelayEnded, TunnelEnded
    <3>. QED
      BY <1>1, <3>1, <3>2, CsvExportAssumption DEF EndInv, TaskInv
  <2>4. EndInv'
    BY <1>0, <1>4, <2>1, <2>3, SettleEnd
  <2>5. ExportTypeOK'
    BY <1>0, <1>1, <1>4, SettleTypes DEF ExportTypeOK, callbackVars, Settling
  <2>6. SettleInv'
    BY <1>0, <1>1, <1>4, AbortFacts DEF SettleInv, callbackVars
  <2>. QED
    BY <2>2, <2>4, <2>5, <2>6 DEF ExportInv
<1>. QED
  BY <1>2, <1>3, <1>4 DEF SettleCallback

\* The statement has answered while the callback runs.
LEMMA SettleSqlStep ==
  ASSUME ExportInv, SettleSql
  PROVE  ExportInv'
<1>0. /\ settle = "select" /\ callback = "running" /\ result = "none" /\ response_read' = "yes"
      /\ UNCHANGED <<timer, statement, discard, pipe, callbackVars, transport>>
  BY DEF SettleSql, ReadResponse, ExportInv, SettleInv
<1>1. ExportTypeOK /\ SettleInv
  BY DEF ExportInv
<1>2. CASE Finish("sql_error") /\ Abort /\ DropCallback
  <2>1. ~CallbackLives' /\ settle' = "done" /\ result' = "sql_error" /\ receiver' \in {"open", "dropped"}
    BY <1>1, <1>2 DEF CallbackLives, Finish, DropCallback, ExportTypeOK
  <2>2. TaskInv' /\ OrderInv'
    BY <1>0, <1>2, <2>1, AbortTasks, SettleOrder DEF callbackVars
  <2>3. EndInv'
    BY <1>0, <1>2, <2>1, SettleEnd
  <2>4. ExportTypeOK'
    BY <1>0, <1>1, <1>2, <2>1, SettleTypes DEF ExportTypeOK, callbackVars, Settling, Results
  <2>5. SettleInv'
    BY <1>0, <1>1, <1>2, <2>1, AbortFacts DEF SettleInv, callbackVars
  <2>. QED
    BY <2>2, <2>3, <2>4, <2>5 DEF ExportInv
<1>3. CASE settle' = "join" /\ NoAbort /\ UNCHANGED <<result, receiver>>
  <2>1. TaskInv' /\ OrderInv'
    BY <1>0, <1>3, NoAbortTasks, SettleOrder DEF callbackVars
  <2>2. EndInv'
    BY <1>0, <1>3, SettleEnd
  <2>3. ExportTypeOK'
    BY <1>0, <1>1, <1>3, SettleTypes DEF ExportTypeOK, callbackVars, Settling
  <2>4. SettleInv'
    BY <1>0, <1>1, <1>3 DEF SettleInv, NoAbort, tunnelVars, relayVars, callbackVars
  <2>. QED
    BY <2>1, <2>2, <2>3, <2>4 DEF ExportInv
<1>. QED
  BY <1>2, <1>3 DEF SettleSql

\* The callback has returned and the statement answers.
LEMMA SettleAwaitsSqlStep ==
  ASSUME ExportInv, SettleAwaitsSql
  PROVE  ExportInv'
<1>0. /\ settle \in {"ok_await_sql", "cut_await_sql", "err_await_sql"}
      /\ callback # "running" /\ result = "none" /\ response_read' = "yes"
      /\ UNCHANGED <<timer, statement, discard, pipe, receiver, callbackVars, transport>>
  BY DEF SettleAwaitsSql, ReadResponse, ExportInv, SettleInv
<1>1. ExportTypeOK /\ SettleInv /\ TaskInv /\ EndInv
  BY DEF ExportInv
<1>2. ~CallbackLives'
  BY <1>0 DEF CallbackLives, callbackVars
<1>3. CASE settle = "ok_await_sql" /\ Finish("sql_error") /\ Abort
  <2>1. settle' = "done" /\ result' = "sql_error"
    BY <1>3 DEF Finish
  <2>2. TaskInv' /\ OrderInv' /\ EndInv'
    BY <1>0, <1>2, <1>3, <2>1, AbortTasks, SettleOrder, SettleEnd DEF callbackVars
  <2>3. ExportTypeOK'
    BY <1>0, <1>1, <1>3, <2>1, SettleTypes DEF ExportTypeOK, callbackVars, Settling, Results
  <2>4. SettleInv'
    BY <1>0, <1>1, <1>3, <2>1, AbortFacts DEF SettleInv, callbackVars
  <2>. QED
    BY <2>2, <2>3, <2>4 DEF ExportInv
<1>4. CASE /\ NoAbort
           /\ \/ settle = "cut_await_sql" /\ Finish("sql_error")
              \/ settle = "err_await_sql" /\ Finish("callback_error")
  <2>1. /\ settle' = "done" /\ result' \in {"sql_error", "callback_error"}
        /\ result' = "callback_error" => settle = "err_await_sql"
    BY <1>4 DEF Finish
  <2>2. TaskInv' /\ OrderInv'
    BY <1>0, <1>4, <2>1, NoAbortTasks, SettleOrder DEF callbackVars
  <2>3. EndInv'
    BY <1>0, <1>1, <1>4, <2>1, SettleEnd DEF EndInv
  <2>4. ExportTypeOK'
    BY <1>0, <1>1, <1>4, <2>1, SettleTypes DEF ExportTypeOK, callbackVars, Settling, Results
  <2>5. tunnel' \in {"ok", "failed", "failing", "aborted"}
    BY <1>1, <1>4 DEF SettleInv, TaskInv, TunnelEnded, NoAbort, tunnelVars
  <2>6. SettleInv'
    BY <1>0, <1>1, <1>4, <2>1, <2>5 DEF SettleInv
  <2>. QED
    BY <2>2, <2>3, <2>4, <2>6 DEF ExportInv
<1>5. CASE /\ settle \in {"ok_await_sql", "cut_await_sql"}
           /\ settle' = "join" /\ NoAbort /\ UNCHANGED result
  <2>1. TaskInv' /\ OrderInv' /\ EndInv'
    BY <1>0, <1>5, NoAbortTasks, SettleOrder, SettleEnd DEF callbackVars
  <2>2. ExportTypeOK'
    BY <1>0, <1>1, <1>5, SettleTypes DEF ExportTypeOK, callbackVars, Settling
  <2>3. SettleInv'
    BY <1>0, <1>1, <1>5 DEF SettleInv, NoAbort, tunnelVars, relayVars, callbackVars
  <2>. QED
    BY <2>1, <2>2, <2>3 DEF ExportInv
<1>. QED
  BY <1>3, <1>4, <1>5 DEF SettleAwaitsSql

\* The statement succeeded and the tunnel has ended: only a sound tunnel lets the
\* callback's result count, and then its data was whole.
LEMMA SettleJoinsStep ==
  ASSUME ExportInv, SettleJoins
  PROVE  ExportInv'
<1>0. /\ settle = "join" /\ TunnelEnded /\ callback # "running" /\ result = "none"
      /\ settle' = "done"
      /\ result' = (IF tunnel # "ok" THEN "http_error" ELSE IF callback = "ok" THEN "ok" ELSE "callback_error")
      /\ UNCHANGED <<timer, statement, tunnelVars, to_relay, relayVars, discard, pipe, receiver,
                     callbackVars, response_read, transport>>
  BY DEF SettleJoins, Finish, ExportInv, SettleInv
<1>1. ExportTypeOK /\ SettleInv /\ TaskInv /\ EndInv
  BY DEF ExportInv
<1>2. NoAbort
  BY <1>0 DEF NoAbort
<1>3. TaskInv' /\ OrderInv'
  BY <1>0, <1>2, NoAbortTasks, SettleOrder DEF callbackVars
<1>4. result' = "callback_error" => ~CutShort
  <2>1. SUFFICES ASSUME tunnel = "ok", saw_end = "yes"
                 PROVE  Len(got) = Pieces
    BY <1>0, CsvExportAssumption DEF CutShort
  <2>2. relay = "done" /\ unsent = 0
    BY <1>0, <1>1, <2>1 DEF EndInv, TaskInv, RelayEnded
  <2>. QED
    BY <1>1, <2>1, <2>2, CsvExportAssumption DEF EndInv
<1>5. EndInv'
  BY <1>0, <1>2, <1>4, SettleEnd
<1>6. ExportTypeOK'
  BY <1>0, <1>1, <1>2, SettleTypes DEF ExportTypeOK, callbackVars, Settling, Results
<1>7. SettleInv'
  BY <1>0, <1>1 DEF SettleInv, TaskInv, TunnelEnded, tunnelVars, relayVars, callbackVars, ExportTypeOK
<1>. QED
  BY <1>3, <1>5, <1>6, <1>7 DEF ExportInv

\* The bound elapsed.
LEMMA TimedOutStep ==
  ASSUME ExportInv, TimedOut
  PROVE  ExportInv'
<1>0. /\ settle # "done" /\ settle' = "done" /\ Abort
      /\ result' \in {"timeout_terminated", "timeout_usable"}
      /\ transport' = (IF response_read = "no" THEN "terminated" ELSE transport)
      /\ receiver' = (IF callback = "running" THEN "dropped" ELSE receiver)
      /\ UNCHANGED <<timer, statement, discard, pipe, callbackVars, response_read>>
  BY DEF TimedOut, Finish, DropCallback
<1>1. ExportTypeOK /\ SettleInv
  BY DEF ExportInv
<1>2. ~CallbackLives'
  BY <1>0 DEF CallbackLives
<1>3. TaskInv' /\ OrderInv'
  BY <1>0, <1>2, AbortTasks, SettleOrder DEF callbackVars
<1>4. EndInv'
  BY <1>0, <1>2, SettleEnd
<1>5. ExportTypeOK'
  BY <1>0, <1>1, SettleTypes DEF ExportTypeOK, callbackVars, Settling, Results
<1>6. SettleInv'
  BY <1>0, <1>1, AbortFacts DEF SettleInv, ExportTypeOK, callbackVars
<1>. QED
  BY <1>3, <1>4, <1>5, <1>6 DEF ExportInv

\* Every step of the export but the consumer's return keeps the invariant.
LEMMA ExportStep ==
  ASSUME ExportInv, ExportSteps
  PROVE  ExportInv'
<1>1. CASE StatementFails \/ StatementEnds
  <2>1. /\ statement' \in {"ok", "err"}
        /\ UNCHANGED <<timer, tunnelVars, to_relay, relayVars, discard, pipe, receiver, callbackVars,
                       settleVars>>
    BY <1>1 DEF StatementFails, StatementEnds, Answers
  <2>2. ExportTypeOK' /\ SettleInv' /\ TaskInv'
    BY <2>1 DEF ExportInv, ExportTypeOK, SettleInv, TaskInv, TunnelEnded, RelayEnded, CallbackLives,
                tunnelVars, relayVars, callbackVars, settleVars
  <2>3. OrderInv' /\ EndInv'
    BY <2>1 DEF ExportInv, OrderInv, PipeInv, ChannelInv, EndInv, Forwarding, Ahead, RelayEnded,
                CallbackLives, CutShort, tunnelVars, relayVars, callbackVars, settleVars
  <2>. QED
    BY <2>2, <2>3 DEF ExportInv
<1>. QED
  BY <1>1, TunnelReadsStep, TunnelSendsStep, TunnelEndsStep, RelayReceivesStep, RelaySendsStep,
     RelayEndsStep, CallbackReceivesStep, CallbackSeesEndStep, SettleCallbackStep, SettleSqlStep,
     SettleAwaitsSqlStep, SettleJoinsStep, TimedOutStep
     DEF ExportSteps, Tunnel, Relay, Settle

-----------------------------------------------------------------------------
(* The call around the export                                              *)

\* An unchanged export keeps its invariant.
LEMMA ExportStutters ==
  ASSUME ExportInv, UNCHANGED vars
  PROVE  ExportInv'
<1>1. ExportTypeOK' /\ SettleInv' /\ TaskInv'
  BY DEF ExportInv, ExportTypeOK, SettleInv, TaskInv, TunnelEnded, RelayEnded, CallbackLives,
         vars, tunnelVars, relayVars, callbackVars, settleVars
<1>2. OrderInv' /\ EndInv'
  BY DEF ExportInv, OrderInv, PipeInv, ChannelInv, EndInv, Forwarding, Ahead, RelayEnded,
         CallbackLives, CutShort, vars, tunnelVars, relayVars, callbackVars, settleVars
<1>. QED
  BY <1>1, <1>2 DEF ExportInv

\* What the export leaves alone: a consumer that has returned, and its own result.
LEMMA ExportFrame ==
  ASSUME ExportSteps
  PROVE  /\ callback' = callback
         /\ saw_end = "yes" => saw_end' = "yes"
         /\ callback # "running" => got' = got
         /\ settle = "done" => settle' = "done" /\ result' = result
<1>. USE DEF tunnelVars, relayVars, callbackVars, settleVars
<1>1. CASE Tunnel \/ TunnelFails
  BY <1>1 DEF Tunnel, TunnelReads, TunnelSends, TunnelAnswers, TunnelFails, TunnelEndsFailed
<1>2. CASE Relay
  BY <1>2 DEF Relay, RelayReceives, RelaySends, RelayEnds
<1>3. CASE CallbackReceives \/ CallbackSeesEnd
  BY <1>3 DEF CallbackReceives, CallbackSeesEnd, CallbackLives
<1>4. CASE Settle \/ TimedOut
  BY <1>4 DEF Settle, SettleCallback, SettleSql, SettleAwaitsSql, SettleJoins, TimedOut
<1>5. CASE StatementFails \/ StatementEnds
  BY <1>5 DEF StatementFails, StatementEnds, Answers
<1>. QED
  BY <1>1, <1>2, <1>3, <1>4, <1>5 DEF ExportSteps

\* An export that returned success has given a consumer that read to the end the
\* whole body.
LEMMA SuccessIsWhole ==
  ASSUME ExportInv, result = "ok", saw_end = "yes"
  PROVE  Len(got) = Pieces
<1>1. tunnel = "ok" /\ relay = "done" /\ unsent = 0
  BY DEF ExportInv, SettleInv, TaskInv, EndInv, RelayEnded
<1>. QED
  BY <1>1, CsvExportAssumption DEF ExportInv, EndInv

\* A step of the export changes nothing about the file.
LEMMA FileUnderExport ==
  ASSUME CallInv, ExportSteps, Exporting, UNCHANGED fileVars
  PROVE  FileTypeOK' /\ FileInv'
<1>1. FileTypeOK'
  BY DEF CallInv, FileTypeOK, fileVars
<1>2. phase \in {"create", "prepare", "close"} => settle = "done"
  BY DEF Exporting
<1>. QED
  BY <1>1, <1>2, ExportFrame DEF CallInv, FileInv, fileVars

\* The consumer returns: the caller's own, or the writer of a file.
LEMMA ConsumerStep ==
  ASSUME CallInv, CallerReturns("yes") \/ CallerReturns("no") \/ WriterFails \/ WriterEnds
  PROVE  CallInv'
<1>0. /\ phase = "export" /\ callback = "running" /\ settle # "done" /\ callback' \in {"ok", "err"}
      /\ UNCHANGED <<got, saw_end, settle, result, target, phase, handle, schema, outcome>>
      /\ target # "callback" => (callback' = "ok" => saw_end = "yes")
      /\ \/ file' = file /\ ~(target = "file" /\ callback' = "ok" /\ Len(got) = Pieces)
         \/ target = "file" /\ callback' = "ok" /\ Len(got) = Pieces /\ file' = "whole"
  BY DEF CallerReturns, WriterFails, WriterEnds, CallbackReturns, CallbackLives, fileVars, settleVars
<1>1. ExportInv'
  BY CallbackReturnsStep DEF CallInv, CallerReturns, WriterFails, WriterEnds
<1>2. FileTypeOK'
  BY <1>0 DEF CallInv, FileTypeOK
<1>3. FileInv'
  BY <1>0 DEF CallInv, FileInv
<1>. QED
  BY <1>1, <1>2, <1>3 DEF CallInv

\* Before the EXPORT statement: creating the file, preparing and closing the SELECT.
LEMMA BeforeStep ==
  ASSUME CallInv, CreateFile \/ PrepareSource \/ CloseSource
  PROVE  CallInv'
<1>. USE DEF Return, GoTo, FileTypeOK, FileInv
<1>0. UNCHANGED vars /\ UNCHANGED <<callback, got, saw_end, settle, result, target>>
  BY DEF CreateFile, PrepareSource, CloseSource, vars, callbackVars, settleVars
<1>1. ExportInv'
  BY <1>0, ExportStutters DEF CallInv
<1>2. CASE CreateFile
  BY <1>0, <1>1, <1>2 DEF CallInv, CreateFile
<1>3. CASE PrepareSource
  BY <1>0, <1>1, <1>3 DEF CallInv, PrepareSource
<1>4. CASE CloseSource
  BY <1>0, <1>1, <1>4 DEF CallInv, CloseSource
<1>. QED
  BY <1>2, <1>3, <1>4

\* After the EXPORT statement: its result, the conversion and the written file.
LEMMA AfterStep ==
  ASSUME CallInv, ExportEnds \/ Convert \/ WriteFile
  PROVE  CallInv'
<1>. USE DEF Return, GoTo, FileTypeOK, FileInv
<1>0. UNCHANGED vars /\ UNCHANGED <<callback, got, saw_end, settle, result, target>>
  BY DEF ExportEnds, Convert, WriteFile, vars, callbackVars, settleVars
<1>1. ExportInv'
  BY <1>0, ExportStutters DEF CallInv
<1>2. CASE ExportEnds
  <2>1. result \in Results
    BY DEF CallInv, ExportInv, ExportTypeOK
  <2>. QED
    BY <1>0, <1>1, <1>2, <2>1 DEF CallInv, ExportEnds
<1>3. CASE Convert
  BY <1>0, <1>1, <1>3 DEF CallInv, Convert
<1>4. CASE WriteFile
  BY <1>0, <1>1, <1>4 DEF CallInv, WriteFile, RemoveFile, Results
<1>. QED
  BY <1>2, <1>3, <1>4

\* Initially the export is fresh and the file untouched.
LEMMA InitCall == Init => CallInv
<1>. SUFFICES ASSUME Init
              PROVE  CallInv
  OBVIOUS
<1>1. /\ Len(<<>>) = 0 /\ <<>> \in Seq(Nat) /\ Pieces \in Nat
  BY CsvExportAssumption
<1>2. ExportTypeOK /\ SettleInv /\ TaskInv
  BY <1>1 DEF Init, ExportInit, ExportTypeOK, SettleInv, TaskInv, TunnelEnded, RelayEnded, CallbackLives,
              Settling, Results
<1>3. OrderInv /\ EndInv
  BY <1>1 DEF Init, ExportInit, OrderInv, PipeInv, ChannelInv, EndInv, Forwarding, Ahead, RelayEnded,
              CallbackLives, CutShort
<1>4. FileTypeOK /\ FileInv
  BY DEF Init, ExportInit, FileTypeOK, FileInv, Results
<1>. QED
  BY <1>2, <1>3, <1>4 DEF CallInv, ExportInv

\* The pieces, the tasks, settle_export and the file fit together in every export.
THEOREM ExportInvariant == Spec => []CallInv
<1>1. ASSUME CallInv, [Next]_allVars
      PROVE  CallInv'
  <2>1. CASE Exporting /\ ExportSteps /\ UNCHANGED fileVars
    BY <1>1, <2>1, ExportStep, FileUnderExport DEF CallInv
  <2>2. CASE Calls
    BY <1>1, <2>2, BeforeStep, AfterStep DEF Calls
  <2>3. CASE UNCHANGED allVars
    <3>1. ExportInv'
      BY <1>1, <2>3, ExportStutters DEF CallInv, allVars
    <3>2. FileTypeOK' /\ FileInv'
      BY <1>1, <2>3 DEF CallInv, FileTypeOK, FileInv, allVars, fileVars, vars, callbackVars, settleVars
    <3>. QED
      BY <3>1, <3>2 DEF CallInv
  <2>. QED
    BY <1>1, <2>1, <2>2, <2>3, ConsumerStep DEF Next
<1>. QED
  BY <1>1, InitCall, PTL DEF Spec

\* settle_export leaves no tunnel reading and no response unread, and throws no
\* healthy connection away, whatever the order in which statement, tunnel,
\* callback and timer end.
THEOREM NothingIsLeft == Spec => []NothingLeft
<1>1. CallInv => NothingLeft
  BY DEF CallInv, ExportInv, SettleInv, NothingLeft, TransportInSync, NoTunnelLeft
<1>. QED
  BY <1>1, ExportInvariant, PTL

\* An export that returns success has passed on the whole body in order and has
\* written its whole file, one that blames the callback was not cut short, and a
\* failed Parquet export leaves no half-written file: for bodies of any length.
THEOREM ExportIsToldTruly == Spec => []ExportToldTruly
<1>1. ASSUME CallInv
      PROVE  NoSilentTruncation
  <2>1. \A i \in DOMAIN got : got[i] = i
    BY <1>1 DEF CallInv, ExportInv, ExportTypeOK, OrderInv, PipeInv
  <2>2. ASSUME outcome = "ok", target # "callback" \/ saw_end = "yes"
        PROVE  Len(got) = Pieces
    <3>1. result = "ok" /\ callback = "ok"
      BY <1>1, <2>2 DEF CallInv, FileInv, ExportInv, SettleInv
    <3>2. saw_end = "yes"
      BY <1>1, <2>2, <3>1 DEF CallInv, FileInv
    <3>. QED
      BY <1>1, <3>1, <3>2, SuccessIsWhole DEF CallInv
  <2>. QED
    BY <2>1, <2>2 DEF NoSilentTruncation
<1>2. ASSUME CallInv
      PROVE  CallbackNotBlamed
  BY <1>2 DEF CallInv, ExportInv, EndInv, CallbackNotBlamed
<1>3. ASSUME CallInv
      PROVE  FileAsReturned
  <2>1. (outcome = "ok" /\ target = "file") => file = "whole"
    <3>1. outcome = "ok" => callback = "ok"
      BY <1>3 DEF CallInv, FileInv, ExportInv, SettleInv
    <3>. QED
      BY <1>1, <1>3, <3>1 DEF CallInv, FileInv, NoSilentTruncation
  <2>. QED
    BY <1>3, <2>1 DEF CallInv, FileInv, FileAsReturned
<1>. QED
  BY <1>1, <1>2, <1>3, ExportInvariant, PTL DEF ExportToldTruly

-----------------------------------------------------------------------------
(* Dates and intervals                                                     *)

\* The dates of the calendar, and their order.
IsDate(t) == t \in Nat \X (1 .. 12) \X Nat /\ t[3] \in 1 .. DaysIn(t[1], t[2])

Earlier(t, u) ==
  \/ t[1] < u[1]
  \/ t[1] = u[1] /\ t[2] < u[2]
  \/ t[1] = u[1] /\ t[2] = u[2] /\ t[3] < u[3]

\* The date after a date.
NextDate(t) ==
  IF t[3] < DaysIn(t[1], t[2]) THEN <<t[1], t[2], t[3] + 1>>
  ELSE IF t[2] < 12 THEN <<t[1], t[2] + 1, 1>>
  ELSE <<t[1] + 1, 1, 1>>

\* A leap day is counted in the terms for whole years of the year that follows.
LEMMA YearStep ==
  ASSUME NEW y \in Nat
  PROVE  /\ (y + 1 - 1969) \div 4 = (y - 1969) \div 4 + (IF y % 4 = 0 THEN 1 ELSE 0)
         /\ (y + 1 - 1901) \div 100 = (y - 1901) \div 100 + (IF y % 100 = 0 THEN 1 ELSE 0)
         /\ (y + 1 - 1601) \div 400 = (y - 1601) \div 400 + (IF y % 400 = 0 THEN 1 ELSE 0)
  OBVIOUS

LEMMA LeapYears ==
  ASSUME NEW y \in Nat
  PROVE  /\ y % 100 = 0 => y % 4 = 0
         /\ y % 400 = 0 => y % 100 = 0
  OBVIOUS

LEMMA DaysAreNumbers ==
  ASSUME NEW y \in Nat, NEW m \in 1 .. 12, NEW d \in Nat
  PROVE  YmdToDays(y, m, d) \in Int
  BY DEF YmdToDays, MonthStart

LEMMA WithinMonth ==
  ASSUME NEW y \in Nat, NEW m \in 1 .. 12, NEW d \in Nat
  PROVE  YmdToDays(y, m, d) = YmdToDays(y, m, 1) + (d - 1)
  BY DEF YmdToDays, MonthStart, LeapYear

LEMMA NextMonth ==
  ASSUME NEW y \in Nat, NEW m \in 1 .. 11
  PROVE  YmdToDays(y, m + 1, 1) = YmdToDays(y, m, DaysIn(y, m)) + 1
  BY DEF YmdToDays, MonthStart, DaysIn, LeapYear

LEMMA NextYear ==
  ASSUME NEW y \in Nat
  PROVE  YmdToDays(y + 1, 1, 1) = YmdToDays(y, 12, 31) + 1
  BY YearStep, LeapYears DEF YmdToDays, MonthStart, LeapYear

\* The months of a year lie between its first and its last day.
LEMMA MonthsInOrder ==
  ASSUME NEW y \in Nat, NEW m \in 1 .. 12, NEW n \in 1 .. 12, m < n
  PROVE  YmdToDays(y, m, DaysIn(y, m)) < YmdToDays(y, n, 1)
  BY DEF YmdToDays, MonthStart, DaysIn, LeapYear

\* No year begins before an earlier one.
LEMMA YearsInOrder ==
  ASSUME NEW y \in Nat, NEW z \in Nat, y <= z
  PROVE  YmdToDays(y, 1, 1) <= YmdToDays(z, 1, 1)
<1>1. PICK k \in Nat : z = y + k
  <2>1. z - y \in Nat /\ z = y + (z - y)
    OBVIOUS
  <2>. QED BY <2>1
<1>2. /\ (y - 1969) \div 4 <= (z - 1969) \div 4
      /\ (z - 1901) \div 100 <= (y - 1901) \div 100 + k
      /\ (y - 1601) \div 400 <= (z - 1601) \div 400
  BY <1>1
<1>. QED BY <1>1, <1>2 DEF YmdToDays, MonthStart

LEMMA DaysInFacts ==
  ASSUME NEW y \in Nat, NEW m \in 1 .. 12
  PROVE  DaysIn(y, m) \in 28 .. 31 /\ (m = 12 => DaysIn(y, m) = 31)
  BY DEF DaysIn

\* parse_date_to_days, for every year: dates follow each other without a gap or an
\* overlap, from 1970-01-01 as 0.
THEOREM DatesFollow ==
  /\ ParseDateToDays(<<1970, 1, 1>>) = 0
  /\ \A t : IsDate(t) => ParseDateToDays(NextDate(t)) = ParseDateToDays(t) + 1
<1>1. ParseDateToDays(<<1970, 1, 1>>) = 0
  BY DEF ParseDateToDays, YmdToDays, MonthStart
<1>2. ASSUME NEW t, IsDate(t) PROVE ParseDateToDays(NextDate(t)) = ParseDateToDays(t) + 1
  <2>1. PICK y \in Nat, m \in 1 .. 12, d \in Nat : t = <<y, m, d>> /\ d \in 1 .. DaysIn(y, m)
    BY <1>2 DEF IsDate
  <2>2. DaysIn(y, m) \in 28 .. 31 /\ (m = 12 => DaysIn(y, m) = 31)
    BY DaysInFacts
  <2>3. ParseDateToDays(t) = YmdToDays(y, m, d)
    BY <2>1, <2>2 DEF ParseDateToDays
  <2>4. CASE d < DaysIn(y, m)
    <3>1. NextDate(t) = <<y, m, d + 1>>
      BY <2>1, <2>4 DEF NextDate
    <3>2. ParseDateToDays(<<y, m, d + 1>>) = YmdToDays(y, m, d + 1)
      BY <2>1, <2>2, <2>4 DEF ParseDateToDays
    <3>3. PICK f \in Int : f = YmdToDays(y, m, 1)
      BY DaysAreNumbers
    <3>4. YmdToDays(y, m, d + 1) = f + ((d + 1) - 1) /\ YmdToDays(y, m, d) = f + (d - 1)
      BY <3>3, WithinMonth
    <3>. QED BY <2>3, <3>1, <3>2, <3>4
  <2>5. CASE d = DaysIn(y, m) /\ m < 12
    <3>1. NextDate(t) = <<y, m + 1, 1>>
      BY <2>1, <2>2, <2>5 DEF NextDate
    <3>2. ParseDateToDays(<<y, m + 1, 1>>) = YmdToDays(y, m + 1, 1)
      BY <2>1, <2>5 DEF ParseDateToDays
    <3>. QED BY <2>3, <2>5, <3>1, <3>2, NextMonth
  <2>6. CASE d = DaysIn(y, m) /\ m = 12
    <3>1. NextDate(t) = <<y + 1, 1, 1>> /\ d = 31
      BY <2>1, <2>2, <2>6 DEF NextDate
    <3>2. ParseDateToDays(<<y + 1, 1, 1>>) = YmdToDays(y + 1, 1, 1)
      BY DEF ParseDateToDays
    <3>. QED BY <2>3, <2>6, <3>1, <3>2, NextYear
  <2>. QED BY <2>1, <2>2, <2>4, <2>5, <2>6
<1>. QED BY <1>1, <1>2

\* parse_date_to_days, for every year: an earlier date has a smaller number, so two dates
\* never have the same.
THEOREM DatesInOrder ==
  ASSUME NEW t, NEW u, IsDate(t), IsDate(u), Earlier(t, u)
  PROVE  ParseDateToDays(t) < ParseDateToDays(u)
<1>1. PICK y \in Nat, m \in 1 .. 12, d \in Nat : t = <<y, m, d>> /\ d \in 1 .. DaysIn(y, m)
  BY DEF IsDate
<1>2. PICK z \in Nat, n \in 1 .. 12, e \in Nat : u = <<z, n, e>> /\ e \in 1 .. DaysIn(z, n)
  BY DEF IsDate
<1>3. DaysIn(y, m) \in 28 .. 31 /\ DaysIn(z, n) \in 28 .. 31
  BY DaysInFacts
<1>4. ParseDateToDays(t) = YmdToDays(y, m, d) /\ ParseDateToDays(u) = YmdToDays(z, n, e)
  BY <1>1, <1>2, <1>3 DEF ParseDateToDays
<1>5. PICK a \in Int, b \in Int : a = YmdToDays(y, m, d) /\ b = YmdToDays(z, n, e)
  BY DaysAreNumbers
<1>6. /\ YmdToDays(y, m, DaysIn(y, m)) = a + (DaysIn(y, m) - d)
      /\ YmdToDays(z, n, 1) = b - (e - 1)
  <2>1. PICK k \in Nat : k = DaysIn(y, m)
    BY <1>3
  <2>2. PICK f \in Int, g \in Int : f = YmdToDays(y, m, 1) /\ g = YmdToDays(z, n, 1)
    BY DaysAreNumbers
  <2>3. YmdToDays(y, m, k) = f + (k - 1) /\ a = f + (d - 1)
    BY <1>5, <2>2, WithinMonth
  <2>4. b = g + (e - 1)
    BY <1>5, <2>2, WithinMonth
  <2>. QED BY <2>1, <2>2, <2>3, <2>4
<1>7. CASE y = z /\ m = n /\ d < e
  <2>1. PICK f \in Int : f = YmdToDays(y, m, 1)
    BY DaysAreNumbers
  <2>2. a = f + (d - 1) /\ b = f + (e - 1)
    BY <1>5, <1>7, <2>1, WithinMonth
  <2>. QED BY <1>4, <1>5, <1>7, <2>2
<1>8. CASE y = z /\ m < n
  <2>1. YmdToDays(y, m, DaysIn(y, m)) < YmdToDays(z, n, 1)
    BY <1>8, MonthsInOrder
  <2>. QED BY <1>1, <1>2, <1>3, <1>4, <1>5, <1>6, <2>1
<1>9. CASE y < z
  <2>1. PICK p \in Int, q \in Int, r \in Int, s \in Int :
          /\ p = YmdToDays(y, m, DaysIn(y, m)) /\ q = YmdToDays(y + 1, 1, 1)
          /\ r = YmdToDays(z, 1, 1) /\ s = YmdToDays(z, n, 1)
    <3>1. DaysIn(y, m) \in Nat /\ y + 1 \in Nat /\ 1 \in 1 .. 12
      BY <1>3
    <3>. QED BY <3>1, DaysAreNumbers
  <2>2. p < q
    <3>1. DaysIn(y, 12) = 31 /\ DaysIn(y, m) \in Nat
      BY DaysInFacts
    <3>2. CASE m = 12
      BY <2>1, <3>1, <3>2, NextYear
    <3>3. CASE m < 12
      <4>1. p < YmdToDays(y, 12, 1)
        BY <2>1, <3>3, MonthsInOrder
      <4>2. YmdToDays(y, 12, 31) = YmdToDays(y, 12, 1) + (31 - 1) /\ YmdToDays(y, 12, 1) \in Int
        BY WithinMonth, DaysAreNumbers
      <4>3. q = YmdToDays(y, 12, 31) + 1
        BY <2>1, NextYear
      <4>. QED BY <2>1, <4>1, <4>2, <4>3
    <3>. QED BY <3>2, <3>3
  <2>3. q <= r
    BY <1>9, <2>1, YearsInOrder
  <2>4. r <= s
    <3>1. CASE n = 1
      BY <2>1, <3>1
    <3>2. CASE n > 1
      <4>1. YmdToDays(z, 1, DaysIn(z, 1)) < s
        BY <2>1, <3>2, MonthsInOrder
      <4>2. DaysIn(z, 1) = 31
        BY DEF DaysIn
      <4>3. YmdToDays(z, 1, 31) = r + (31 - 1)
        BY <2>1, WithinMonth
      <4>. QED BY <2>1, <4>1, <4>2, <4>3
    <3>. QED BY <3>1, <3>2
  <2>5. a <= p /\ s <= b
    BY <1>1, <1>2, <1>3, <1>5, <1>6, <2>1
  <2>. QED BY <1>4, <1>5, <2>1, <2>2, <2>3, <2>4, <2>5
<1>. QED BY <1>1, <1>2, <1>7, <1>8, <1>9 DEF Earlier

\* An interval of any number of months, negative ones too, is read back from the text
\* that format_interval_year_to_month writes.
THEOREM MonthsReadBack ==
  ASSUME NEW months \in Int
  PROVE  ParseMonths(FormatYearToMonth(months)) = months
  BY DEF ParseMonths, FormatYearToMonth, Abs
=============================================================================
