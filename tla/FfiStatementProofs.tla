------------------------- MODULE FfiStatementProofs -------------------------
(* Proofs about FfiStatement, for every message size, batch and text, and   *)
(* for any number of statements, binds and calls: what a message may hold,  *)
(* what a call executes and ingests, and that a batch is executed as one.   *)
EXTENDS Integers, FfiStatement, TLAPS

\* What a call needs at the step it has reached: a bind it took, a prepared
\* statement, a text.
CallInv ==
  \A s \in Statements :
    /\ pc[s] \in {"prepare", "plain"} => sql[s] \in Texts
    /\ pc[s] \in {"bound_rows", "lock", "running"} =>
         /\ call[s].api \in {"execute", "update"}
         /\ call[s].bind # 0
         /\ prepared[s] # 0
    /\ pc[s] = "prepare" => \/ call[s].api = "prepare"
                            \/ call[s].api \in {"execute", "update"} /\ call[s].bind # 0
    /\ pc[s] \in {"ddl", "import"} => call[s].bind # 0

\* Rows first .. last - 1 of b go into one message, and not one more would.
RightSize(b, first, last) ==
  /\ first <= last
  /\ last - first > 1 => MessageSize(b, first, last) <= Limit
  /\ last < Rows(b) => MessageSize(b, first, last + 1) > Limit

\* The call that holds the connection: the ranges closed so far, and the one that
\* is being collected, have the right size.
JobInv ==
  /\ phase = "free" => row = 0 /\ first_row = 0 /\ ranges = <<>> /\ sent = 0
  /\ phase # "free" => job.stmt \in Statements /\ job.bind # 0 /\ job.handle # 0
  /\ phase = "rows" => RunsPerRow(text, data)
  /\ phase = "split" =>
       /\ sent = 0
       /\ first_row <= row
       /\ row <= Rows(data)
       /\ row - first_row > 1 => MessageSize(data, first_row, row) <= Limit
  /\ phase = "send" => sent < Len(ranges)
  /\ phase \in {"split", "send"} =>
       \A i \in 1 .. Len(ranges) : RightSize(data, ranges[i].first, ranges[i].last)

\* A request: rows that were put together fit, and a row-count statement's ranges
\* have the right size.
EntryOk(e) ==
  /\ e.last - e.first > 1 => e.bind # 0
  /\ e.bind # 0 =>
       /\ e.last - e.first > 1 => MessageSize(binds[e.bind], e.first, e.last) <= Limit
       /\ ~RunsPerRow(e.text, binds[e.bind]) => RightSize(binds[e.bind], e.first, e.last)

LogInv == \A i \in 1 .. Len(log) : EntryOk(log[i])

IInv == TypeOK /\ CallInv /\ JobInv /\ LogInv

-----------------------------------------------------------------------------
(* Sizes and unchanged parts                                               *)

\* The size of a message of rows of a batch is a number, so that it is within the
\* limit or above it.
LEMMA SizeIsInt ==
  ASSUME NEW b \in Batches, NEW f \in 0 .. Rows(b), NEW l \in 0 .. Rows(b)
  PROVE  MessageSize(b, f, l) \in Int
<1>1. b.ends \in Seq(Nat) /\ Overhead \in Nat
  BY PreparedBatchAssumption
<1>2. Start(b, f) \in Nat /\ Start(b, l) \in Nat
  BY <1>1 DEF Start, Rows
<1> QED BY <1>1, <1>2 DEF MessageSize

\* Each element of a sequence is of the sequence's type.
LEMMA ElementOf ==
  ASSUME NEW S, NEW q \in Seq(S), NEW i \in 1 .. Len(q)
  PROVE  q[i] \in S
OBVIOUS

\* The job keeps its invariant while nobody touches it.
LEMMA JobUnchanged ==
  ASSUME JobInv, UNCHANGED <<binds, handles, batchVars>>
  PROVE  JobInv'
BY DEF JobInv, batchVars, text, data, RunsPerRow, RightSize, MessageSize, Start, Rows

\* The log keeps its invariant while it does not grow.
LEMMA LogUnchanged ==
  ASSUME LogInv, UNCHANGED <<binds, log>>
  PROVE  LogInv'
BY DEF LogInv, EntryOk, RunsPerRow, RightSize, MessageSize, Start, Rows

\* What the server knows keeps its type while it does not change.
LEMMA ServerUnchanged ==
  ASSUME ServerTypeOK, UNCHANGED <<binds, handles, link, log>>
  PROVE  ServerTypeOK'
BY DEF ServerTypeOK

\* A request that is as it should be may be added to the log.
LEMMA LogAppended ==
  ASSUME BatchTypeOK, LogInv, binds' = binds,
         NEW e, log' = Append(log, e), EntryOk(e)
  PROVE  LogInv'
<1>1. Len(log') = Len(log) + 1 /\ \A i \in 1 .. Len(log) : log'[i] = log[i]
  BY DEF BatchTypeOK, ServerTypeOK, JobTypeOK
<1>2. log'[Len(log')] = e
  BY DEF BatchTypeOK, ServerTypeOK, JobTypeOK
<1>3. Len(log) \in Nat
  BY DEF BatchTypeOK, ServerTypeOK, JobTypeOK
<1>4. ASSUME NEW i \in 1 .. Len(log') PROVE EntryOk(log'[i])
  <2>1. CASE i = Len(log') BY <2>1, <1>2
  <2>2. CASE i # Len(log')
    <3>1. i \in 1 .. Len(log) BY <1>1, <1>3, <2>2
    <3> QED BY <3>1, <1>1 DEF LogInv
  <2> QED BY <2>1, <2>2
<1>5. ASSUME NEW i \in 1 .. Len(log') PROVE EntryOk(log[i])'
  BY <1>4 DEF EntryOk, RunsPerRow, RightSize, MessageSize, Start, Rows
<1> QED BY <1>5 DEF LogInv

-----------------------------------------------------------------------------
(* The steps of the call that holds the connection                         *)

\* The batch and the text of a call that holds the connection.
LEMMA JobData ==
  ASSUME BatchTypeOK, JobInv, phase # "free"
  PROVE  /\ data \in Batches
         /\ text \in Texts
         /\ Rows(data) \in Nat
         /\ job.stmt \in Statements
         /\ job.bind \in 1 .. Len(binds)
<1>1. job.bind \in 1 .. Len(binds) /\ job.handle \in 1 .. Len(handles) /\ job.stmt \in Statements
  BY DEF BatchTypeOK, ServerTypeOK, JobTypeOK, JobInv
<1>2. data \in Batches /\ text \in Texts
  BY <1>1 DEF BatchTypeOK, ServerTypeOK, JobTypeOK, data, text
<1>3. data.ends \in Seq(Nat)
  BY <1>2, PreparedBatchAssumption
<1> QED BY <1>1, <1>2, <1>3 DEF Rows

\* A request changes the link and adds itself to the log.
LEMMA RequestType ==
  ASSUME BatchTypeOK, JobInv, phase # "free",
         NEW f \in Nat, NEW l \in Nat, NEW a \in Answers, Request(f, l, a)
  PROVE  /\ link' \in {"up", "lost"}
         /\ log' \in Seq(Requests)
         /\ binds' = binds => \A i \in 1 .. Len(log') : log'[i].bind <= Len(binds')
         /\ EntryOk([bind |-> job.bind, text |-> text, first |-> f, last |-> l]) /\ LogInv
              /\ binds' = binds => LogInv'
<1> DEFINE Rec(d) == [stmt |-> job.stmt, bind |-> job.bind, text |-> text,
                      first |-> f, last |-> l, answer |-> a, done |-> d]
<1>1. PICK d \in {"yes", "no"} :
        log' = Append(log, Rec(d)) /\ link' = IF a = "lost" THEN "lost" ELSE link
  BY DEF Request
<1>2. link' \in {"up", "lost"}
  BY <1>1 DEF BatchTypeOK, ServerTypeOK, JobTypeOK
<1>3. Rec(d) \in Requests
  BY JobData DEF Requests
<1>4. log' \in Seq(Requests)
  BY <1>1, <1>3 DEF BatchTypeOK, ServerTypeOK, JobTypeOK
<1>5. ASSUME binds' = binds, NEW i \in 1 .. Len(log') PROVE log'[i].bind <= Len(binds')
  <2>1. Len(log') = Len(log) + 1 /\ Len(log) \in Nat
    BY <1>1 DEF BatchTypeOK, ServerTypeOK, JobTypeOK
  <2>2. CASE i = Len(log) + 1
    <3>1. log'[i] = Rec(d) BY <1>1, <2>2 DEF BatchTypeOK, ServerTypeOK, JobTypeOK
    <3>2. log'[i].bind = job.bind BY <3>1
    <3> QED BY <3>2, <1>5, JobData
  <2>3. CASE i # Len(log) + 1
    <3>1. i \in 1 .. Len(log) BY <2>1, <2>3
    <3>2. log'[i] = log[i] BY <1>1, <3>1 DEF BatchTypeOK, ServerTypeOK, JobTypeOK
    <3> QED BY <3>1, <3>2, <1>5 DEF BatchTypeOK, ServerTypeOK, JobTypeOK
  <2> QED BY <2>2, <2>3
<1>6. ASSUME EntryOk([bind |-> job.bind, text |-> text, first |-> f, last |-> l]), LogInv,
             binds' = binds
      PROVE  LogInv'
  <2>1. EntryOk(Rec(d)) BY <1>6 DEF EntryOk
  <2>2. log' = Append(log, Rec(d)) BY <1>1
  <2> HIDE DEF Rec
  <2> QED BY <1>6, <2>1, <2>2, LogAppended
<1> QED BY <1>2, <1>4, <1>5, <1>6

\* A turn of the split loop keeps the ranges at their size.
LEMMA SplitRowStep ==
  ASSUME BatchTypeOK, JobInv, LogInv, SplitRow
  PROVE  BatchTypeOK' /\ JobInv' /\ LogInv'
<1>1. /\ phase = "split"
      /\ row < Rows(data)
      /\ data' = data
      /\ text' = text
  BY DEF SplitRow, data, text
<1>2. data \in Batches /\ Rows(data) \in Nat
  BY <1>1, JobData
<1>3. first_row \in Nat /\ row \in Nat /\ first_row <= row /\ Limit \in Nat
  BY <1>1, PreparedBatchAssumption DEF JobInv, BatchTypeOK, ServerTypeOK, JobTypeOK
<1>4. LogInv'
  BY LogUnchanged DEF SplitRow
<1>5. CASE data.bad = row + 1
  <2>1. phase' = "done" /\ outcome' = [kind |-> "err", count |-> 0]
    BY <1>1, <1>5 DEF SplitRow, Return
  <2>2. UNCHANGED <<binds, handles, job, row, first_row, ranges, sent, affected, link, log>>
    BY <1>1, <1>5 DEF SplitRow
  <2>3. BatchTypeOK'
    BY <2>1, <2>2 DEF BatchTypeOK, ServerTypeOK, JobTypeOK
  <2>4. JobInv'
    BY <1>1, <2>1, <2>2 DEF JobInv
  <2> QED BY <1>4, <2>3, <2>4
<1>6. CASE data.bad # row + 1
  <2>1. /\ row' = row + 1
        /\ UNCHANGED <<binds, handles, phase, job, sent, affected, outcome, link, log>>
    BY <1>1, <1>6 DEF SplitRow
  <2>5. IF Overflows THEN CloseRange ELSE UNCHANGED <<first_row, ranges>>
    BY <1>1, <1>6 DEF SplitRow
  <2>2. MessageSize(data, first_row, row + 1) \in Int
    BY <1>1, <1>2, <1>3, SizeIsInt
  <2>3. CASE Overflows
    <3> DEFINE r == [first |-> first_row, last |-> row]
    <3>1. ranges' = Append(ranges, r) /\ first_row' = row
      BY <2>5, <2>3 DEF CloseRange
    <3>2. BatchTypeOK'
      <4>1. ServerTypeOK' BY <2>1, ServerUnchanged DEF BatchTypeOK
      <4>2. JobTypeOK' BY <1>3, <2>1, <3>1 DEF BatchTypeOK, JobTypeOK
      <4> QED BY <4>1, <4>2 DEF BatchTypeOK
    <3>3. RightSize(data, first_row, row)
      BY <1>1, <1>3, <2>3 DEF JobInv, RightSize, Overflows
    <3>4. ASSUME NEW i \in 1 .. Len(ranges')
          PROVE  RightSize(data, ranges'[i].first, ranges'[i].last)
      <4>1. Len(ranges') = Len(ranges) + 1 /\ Len(ranges) \in Nat
        BY <3>1 DEF BatchTypeOK, ServerTypeOK, JobTypeOK
      <4>2. CASE i = Len(ranges) + 1
        <5>1. ranges'[i] = r BY <3>1, <4>2 DEF BatchTypeOK, ServerTypeOK, JobTypeOK
        <5> QED BY <3>3, <5>1
      <4>3. CASE i # Len(ranges) + 1
        <5>1. i \in 1 .. Len(ranges) BY <4>1, <4>3
        <5>2. ranges'[i] = ranges[i] BY <3>1, <5>1 DEF BatchTypeOK, ServerTypeOK, JobTypeOK
        <5> QED BY <1>1, <5>1, <5>2 DEF JobInv
      <4> QED BY <4>2, <4>3
    <3>5. \A i \in 1 .. Len(ranges') : RightSize(data', ranges'[i].first, ranges'[i].last)
      BY <1>1, <3>4
    <3>6. first_row' <= row' /\ row' <= Rows(data') /\ ~(row' - first_row' > 1)
      BY <1>1, <1>2, <1>3, <2>1, <3>1
    <3>7. JobInv'
      BY <1>1, <2>1, <3>5, <3>6 DEF JobInv, RightSize, MessageSize, Start, Rows
    <3> QED BY <1>4, <3>2, <3>7
  <2>4. CASE ~Overflows
    <3>1. UNCHANGED <<first_row, ranges>>
      BY <2>5, <2>4
    <3>2. BatchTypeOK'
      <4>1. ServerTypeOK' BY <2>1, ServerUnchanged DEF BatchTypeOK
      <4>2. JobTypeOK' BY <1>3, <2>1, <3>1 DEF BatchTypeOK, JobTypeOK
      <4> QED BY <4>1, <4>2 DEF BatchTypeOK
    <3>3. row > first_row => MessageSize(data, first_row, row + 1) <= Limit
      BY <1>3, <2>2, <2>4 DEF Overflows
    <3>4. row' - first_row' > 1 => MessageSize(data', first_row', row') <= Limit
      BY <1>1, <1>3, <2>1, <3>1, <3>3
    <3>5. first_row' <= row' /\ row' <= Rows(data')
      BY <1>1, <1>2, <1>3, <2>1, <3>1
    <3>6. \A i \in 1 .. Len(ranges') : RightSize(data', ranges'[i].first, ranges'[i].last)
      BY <1>1, <3>1 DEF JobInv
    <3>7. JobInv'
      BY <1>1, <2>1, <3>1, <3>4, <3>5, <3>6 DEF JobInv, RightSize, MessageSize, Start, Rows
    <3> QED BY <1>4, <3>2, <3>7
  <2> QED BY <2>3, <2>4
<1> QED BY <1>5, <1>6

\* The last range closes the collection.
LEMMA SplitDoneStep ==
  ASSUME BatchTypeOK, JobInv, LogInv, SplitDone
  PROVE  BatchTypeOK' /\ JobInv' /\ LogInv'
<1> DEFINE r == [first |-> first_row, last |-> row]
<1>1. /\ phase = "split"
      /\ row = Rows(data)
      /\ ranges' = Append(ranges, r)
      /\ phase' = "send"
      /\ UNCHANGED <<binds, handles, job, row, first_row, sent, affected, outcome, link, log>>
  BY DEF SplitDone
<1>2. data' = data /\ text' = text
  BY <1>1 DEF data, text
<1>3. Rows(data) \in Nat /\ first_row \in Nat /\ row \in Nat
  BY <1>1, JobData DEF BatchTypeOK, ServerTypeOK, JobTypeOK
<1>4. BatchTypeOK'
  BY <1>1, <1>3 DEF BatchTypeOK, ServerTypeOK, JobTypeOK
<1>5. RightSize(data, first_row, row)
  BY <1>1, <1>3 DEF JobInv, RightSize
<1>6. Len(ranges') = Len(ranges) + 1 /\ Len(ranges) \in Nat
  BY <1>1 DEF BatchTypeOK, ServerTypeOK, JobTypeOK
<1>7. ASSUME NEW i \in 1 .. Len(ranges')
      PROVE  RightSize(data, ranges'[i].first, ranges'[i].last)
  <2>1. CASE i = Len(ranges) + 1
    <3>1. ranges'[i] = r BY <1>1, <2>1 DEF BatchTypeOK, ServerTypeOK, JobTypeOK
    <3> QED BY <1>5, <3>1
  <2>2. CASE i # Len(ranges) + 1
    <3>1. i \in 1 .. Len(ranges) BY <1>6, <2>2
    <3>2. ranges'[i] = ranges[i] BY <1>1, <3>1 DEF BatchTypeOK, ServerTypeOK, JobTypeOK
    <3> QED BY <1>1, <3>1, <3>2 DEF JobInv
  <2> QED BY <2>1, <2>2
<1>8. sent' < Len(ranges')
  BY <1>1, <1>6 DEF JobInv
<1>9. JobInv'
  BY <1>1, <1>2, <1>7, <1>8 DEF JobInv, RightSize, MessageSize, Start, Rows
<1>10. LogInv'
  BY <1>1, LogUnchanged
<1> QED BY <1>4, <1>9, <1>10

\* A range that is sent has the right size.
LEMMA SendRangeStep ==
  ASSUME BatchTypeOK, JobInv, LogInv, SendRange
  PROVE  BatchTypeOK' /\ JobInv' /\ LogInv'
<1> DEFINE r == ranges[sent + 1]
           n == affected + (r.last - r.first)
<1>1. /\ phase = "send"
      /\ UNCHANGED <<binds, handles, job, row, first_row, ranges>>
  BY DEF SendRange
<1>2. PICK a \in Answers :
        /\ Request(r.first, r.last, a)
        /\ IF a = "ok"
             THEN /\ sent' = sent + 1
                  /\ affected' = n
                  /\ IF sent + 1 = Len(ranges)
                       THEN Return("ok", n)
                       ELSE UNCHANGED <<phase, outcome>>
             ELSE Return("err", 0) /\ UNCHANGED <<sent, affected>>
  BY DEF SendRange
<1>3. sent + 1 \in 1 .. Len(ranges) /\ sent \in Nat
  BY <1>1 DEF JobInv, BatchTypeOK, ServerTypeOK, JobTypeOK
<1>4. r \in [first : Nat, last : Nat] /\ RightSize(data, r.first, r.last)
  <2>1. r \in [first : Nat, last : Nat]
    BY <1>3, ElementOf DEF BatchTypeOK, JobTypeOK
  <2>2. \A i \in 1 .. Len(ranges) : RightSize(data, ranges[i].first, ranges[i].last)
    BY <1>1 DEF JobInv
  <2> QED BY <1>3, <2>1, <2>2
<1>5. data' = data /\ text' = text
  BY <1>1 DEF data, text
<1>6. job.bind # 0
  BY <1>1 DEF JobInv
<1>7. EntryOk([bind |-> job.bind, text |-> text, first |-> r.first, last |-> r.last])
  BY <1>4, <1>6 DEF EntryOk, RightSize, data
<1>8. LogInv'
  BY <1>1, <1>2, <1>4, <1>7, RequestType
<1>9. n \in Nat
  <2>1. affected \in Nat BY DEF BatchTypeOK, JobTypeOK
  <2>2. r.first \in Nat /\ r.last \in Nat BY <1>4
  <2>3. r.first <= r.last BY <1>4 DEF RightSize
  <2> HIDE DEF r
  <2> QED BY <2>1, <2>2, <2>3
<1>10. ServerTypeOK'
  BY <1>1, <1>2, <1>4, RequestType DEF BatchTypeOK, ServerTypeOK
<1>11. CASE a = "ok" /\ sent + 1 # Len(ranges)
  <2>1. sent' = sent + 1 /\ affected' = n /\ phase' = phase /\ outcome' = outcome
    BY <1>2, <1>11
  <2>2. JobTypeOK'
    BY <1>1, <1>3, <1>9, <2>1 DEF BatchTypeOK, JobTypeOK
  <2>3. sent' < Len(ranges')
    BY <1>1, <1>3, <1>11, <2>1 DEF BatchTypeOK, JobTypeOK
  <2>4. JobInv'
    BY <1>1, <1>5, <2>1, <2>3 DEF JobInv, RightSize, MessageSize, Start, Rows
  <2> QED BY <1>8, <1>10, <2>2, <2>4 DEF BatchTypeOK
<1>12. CASE ~(a = "ok" /\ sent + 1 # Len(ranges))
  <2>1. /\ phase' = "done"
        /\ outcome' \in [kind : {"none", "ok", "err"}, count : Nat]
        /\ sent' \in Nat
        /\ affected' \in Nat
    <3> HIDE DEF n
    <3>1. affected \in Nat BY DEF BatchTypeOK, JobTypeOK
    <3>2. CASE a = "ok" BY <1>2, <1>3, <1>9, <1>12, <3>2 DEF Return
    <3>3. CASE a # "ok" BY <1>2, <1>3, <3>1, <3>3 DEF Return
    <3> QED BY <3>2, <3>3
  <2>2. JobTypeOK'
    BY <1>1, <2>1 DEF BatchTypeOK, JobTypeOK
  <2>3. JobInv'
    BY <1>1, <2>1 DEF JobInv
  <2> QED BY <1>8, <1>10, <2>2, <2>3 DEF BatchTypeOK
<1> QED BY <1>11, <1>12

\* An execution of its own for one row.
LEMMA RunRowStep ==
  ASSUME BatchTypeOK, JobInv, LogInv, RunRow
  PROVE  BatchTypeOK' /\ JobInv' /\ LogInv'
<1>1. /\ phase = "rows"
      /\ UNCHANGED <<binds, handles, job, first_row, ranges, sent>>
  BY DEF RunRow
<1>2. data' = data /\ text' = text /\ row \in Nat /\ affected \in Nat
  BY <1>1 DEF data, text, BatchTypeOK, JobTypeOK
<1>3. /\ ServerTypeOK'
      /\ LogInv'
      /\ row' \in Nat
      /\ affected' \in Nat
      /\ \/ phase' = "done" /\ outcome' \in [kind : {"none", "ok", "err"}, count : Nat]
         \/ phase' = phase /\ outcome' = outcome
  <2>1. CASE data.bad = row + 1
    <3>1. /\ UNCHANGED <<row, affected, link, log>>
          /\ phase' = "done"
          /\ outcome' = [kind |-> "err", count |-> 0]
      BY <2>1 DEF RunRow, Return
    <3> QED BY <1>1, <1>2, <3>1, ServerUnchanged, LogUnchanged DEF BatchTypeOK
  <2>2. CASE data.bad # row + 1
    <3>1. PICK a \in Answers, fetch \in {"ok", "failed"} :
            LET good == a = "ok" /\ (text.result = "set" => job.api = "execute" /\ fetch = "ok")
            IN /\ Request(row, row + 1, a)
               /\ row' = IF good THEN row + 1 ELSE row
               /\ affected' = IF good THEN affected + 1 ELSE affected
               /\ IF ~good THEN Return("err", 0)
                  ELSE IF row + 1 = Rows(data) THEN Return("ok", affected + 1)
                  ELSE UNCHANGED <<phase, outcome>>
      BY <2>2 DEF RunRow
    <3>2. /\ row' \in Nat
          /\ affected' \in Nat
          /\ \/ phase' = "done" /\ outcome' \in [kind : {"none", "ok", "err"}, count : Nat]
             \/ phase' = phase /\ outcome' = outcome
      BY <1>2, <3>1 DEF Return
    <3>3. EntryOk([bind |-> job.bind, text |-> text, first |-> row, last |-> row + 1])
      BY <1>1, <1>2 DEF EntryOk, JobInv, data
    <3>4. Request(row, row + 1, a) /\ row + 1 \in Nat
      BY <1>2, <3>1
    <3>5. LogInv'
      BY <1>1, <1>2, <3>3, <3>4, RequestType
    <3>6. ServerTypeOK'
      BY <1>1, <1>2, <3>4, RequestType DEF BatchTypeOK, ServerTypeOK
    <3> QED BY <3>2, <3>5, <3>6
  <2> QED BY <2>1, <2>2
<1>4. JobTypeOK'
  BY <1>1, <1>3 DEF BatchTypeOK, JobTypeOK
<1>5. JobInv'
  BY <1>1, <1>2, <1>3 DEF JobInv, RunsPerRow
<1> QED BY <1>3, <1>4, <1>5 DEF BatchTypeOK

-----------------------------------------------------------------------------
(* The steps of a statement                                                *)

\* What a statement's own step has to keep, when the connection's part is as it was.
StatementTypeOK ==
  /\ sql \in [Statements -> Texts \cup {NoText}]
  /\ prepared \in [Statements -> 0 .. Len(handles)]
  /\ bound \in [Statements -> Binds]
  /\ options \in [Statements -> IngestOptions \cup {NoOptions}]
  /\ pc \in [Statements -> {"idle", "prepare", "bound_rows", "lock", "running", "plain", "ddl",
                            "import", "rejected"}]
  /\ call \in [Statements -> [api : Apis, bind : Binds]]
  /\ result \in [Statements -> [kind : Kinds, bind : Binds, count : Nat]]
  /\ calls \in 0 .. MaxCalls
  /\ uses \in Scenarios

TableTypeOK ==
  /\ before \in [Statements -> Tables]
  /\ shared \in [Statements -> {"yes", "no"}]
  /\ table \in Tables

\* The type invariant in the parts that actions change separately.
LEMMA TypeOKParts == TypeOK <=> BatchTypeOK /\ StatementTypeOK /\ TableTypeOK
BY DEF TypeOK, StatementTypeOK, TableTypeOK

\* The same for the primed invariant.
LEMMA IInvParts ==
  ASSUME BatchTypeOK', StatementTypeOK', TableTypeOK', CallInv', JobInv', LogInv'
  PROVE  IInv'
BY DEF IInv, TypeOK, StatementTypeOK, TableTypeOK

\* A step that leaves the connection's part alone keeps its invariants.
LEMMA ConnectionUnchanged ==
  ASSUME BatchTypeOK, JobInv, LogInv, UNCHANGED <<binds, handles, batchVars, serverVars>>
  PROVE  BatchTypeOK' /\ JobInv' /\ LogInv'
<1>1. ServerTypeOK'
  BY ServerUnchanged DEF BatchTypeOK, serverVars
<1>2. JobTypeOK'
  BY DEF BatchTypeOK, JobTypeOK, batchVars
<1> QED BY <1>1, <1>2, JobUnchanged, LogUnchanged DEF BatchTypeOK, serverVars

\* The table and its history keep their type while nobody writes them.
LEMMA TableUnchanged ==
  ASSUME TableTypeOK, UNCHANGED <<tableVars, binds>>
  PROVE  TableTypeOK'
BY DEF TableTypeOK, tableVars, Tables, Binds

\* A call that returns leaves well-typed results, and needs nothing any more.
LEMMA FinishStep ==
  ASSUME StatementTypeOK, CallInv, NEW s \in Statements, NEW k \in {"ok", "err"}, NEW n \in Nat,
         Finish(s, k, n), UNCHANGED <<binds, handles, stmtVars, calls, uses>>
  PROVE  StatementTypeOK' /\ CallInv'
<1>1. NoCall \in [api : Apis, bind : Binds]
  BY DEF NoCall, Apis, Binds
<1>2. call[s].bind \in Binds
  BY DEF StatementTypeOK
<1>3. StatementTypeOK'
  BY <1>1, <1>2 DEF StatementTypeOK, Finish, stmtVars, Kinds, Binds
<1>4. CallInv'
  BY DEF CallInv, Finish, stmtVars, StatementTypeOK
<1> QED BY <1>3, <1>4

\* A call that goes on needs, at its next step, what it has.
LEMMA GotoStep ==
  ASSUME StatementTypeOK, CallInv, NEW s \in Statements,
         NEW step \in {"lock", "running", "import"},
         pc[s] \in {"bound_rows", "lock", "ddl"},
         step = "import" <=> pc[s] = "ddl",
         Goto(s, step), UNCHANGED <<binds, handles, stmtVars, calls, uses>>
  PROVE  StatementTypeOK' /\ CallInv'
<1>1. StatementTypeOK'
  BY DEF StatementTypeOK, Goto, stmtVars, Binds
<1>2. CallInv'
  BY DEF CallInv, Goto, stmtVars, StatementTypeOK
<1> QED BY <1>1, <1>2

\* set_sql_query preserves the invariant.
LEMMA SetSqlQueryStep ==
  ASSUME IInv, NEW s \in Statements, NEW t \in Texts, SetSqlQuery(s, t), UNCHANGED uses
  PROVE  IInv'
<1> USE DEF SetSqlQuery
<1>1. BatchTypeOK' /\ JobInv' /\ LogInv'
  BY TypeOKParts, ConnectionUnchanged DEF IInv
<1>2. TableTypeOK'
  BY TypeOKParts, TableUnchanged DEF IInv
<1>3. StatementTypeOK'
  BY TypeOKParts DEF IInv, StatementTypeOK, callVars, Binds, BatchTypeOK, ServerTypeOK
<1>4. CallInv'
  BY TypeOKParts DEF IInv, CallInv, callVars, StatementTypeOK
<1> QED BY <1>1, <1>2, <1>3, <1>4, IInvParts

\* bind and bind_stream: a new bind leaves what is said of the earlier ones.
LEMMA BindStep ==
  ASSUME IInv, NEW s \in Statements, NEW b \in Batches, Bind(s, b), UNCHANGED uses
  PROVE  IInv'
<1>1. /\ binds' = Append(binds, b)
      /\ bound' = [bound EXCEPT ![s] = Len(binds) + 1]
      /\ UNCHANGED <<handles, batchVars, serverVars, sql, prepared, options, callVars, tableVars, calls>>
  BY DEF Bind
<1>2. BatchTypeOK /\ StatementTypeOK /\ TableTypeOK /\ CallInv /\ JobInv /\ LogInv
  BY TypeOKParts DEF IInv
<1>3. /\ binds' \in Seq(Batches)
      /\ Len(binds') = Len(binds) + 1
      /\ Len(binds) \in Nat
      /\ \A i \in 1 .. Len(binds) : binds'[i] = binds[i]
  BY <1>1, <1>2 DEF BatchTypeOK, ServerTypeOK
<1>4. Binds \subseteq Binds' /\ Len(binds) + 1 \in Binds'
  BY <1>3 DEF Binds
<1>5. Tables \subseteq Tables'
  BY <1>4 DEF Tables
<1>6. TableTypeOK'
  BY <1>1, <1>2, <1>5 DEF TableTypeOK, tableVars
<1>7. StatementTypeOK'
  BY <1>1, <1>2, <1>4 DEF StatementTypeOK, callVars
<1>8. CallInv'
  BY <1>1, <1>2 DEF CallInv, callVars
<1>9. ServerTypeOK'
  <2>1. \A i \in 1 .. Len(log) : log[i].bind \in Nat /\ log[i].bind <= Len(binds)
    <3>1. ASSUME NEW i \in 1 .. Len(log) PROVE log[i] \in Requests
      BY <1>2, ElementOf DEF BatchTypeOK, ServerTypeOK
    <3> QED BY <1>2, <3>1 DEF Requests, BatchTypeOK, ServerTypeOK
  <2>2. \A i \in 1 .. Len(log) : log[i].bind <= Len(binds')
    BY <1>3, <2>1
  <2> QED BY <1>1, <1>2, <1>3, <2>2 DEF BatchTypeOK, ServerTypeOK, serverVars
<1>10. JobTypeOK'
  BY <1>1, <1>2, <1>3 DEF BatchTypeOK, JobTypeOK, batchVars
<1>11. phase # "free" => data' = data /\ text' = text
  BY <1>1, <1>2, <1>3, JobData DEF data, text, batchVars
<1>12. JobInv'
  BY <1>1, <1>2, <1>11 DEF JobInv, batchVars, RunsPerRow, RightSize, MessageSize, Start, Rows
<1>13. LogInv'
  <2>1. ASSUME NEW i \in 1 .. Len(log)
        PROVE  log'[i] = log[i] /\ (log[i].bind # 0 => binds'[log[i].bind] = binds[log[i].bind])
    <3>1. log[i].bind \in Nat /\ log[i].bind <= Len(binds)
      <4>1. log[i] \in Requests
        BY <1>2, ElementOf DEF BatchTypeOK, ServerTypeOK
      <4> QED BY <1>2, <4>1 DEF Requests, BatchTypeOK, ServerTypeOK
    <3> QED BY <1>1, <1>3, <3>1 DEF serverVars
  <2>2. log' = log
    BY <1>1 DEF serverVars
  <2> QED BY <1>2, <2>1, <2>2 DEF LogInv, EntryOk, RunsPerRow, RightSize, MessageSize, Start, Rows
<1>14. BatchTypeOK'
  BY <1>9, <1>10 DEF BatchTypeOK
<1> QED BY <1>6, <1>7, <1>8, <1>12, <1>13, <1>14, IInvParts

\* bind_stream of an empty stream preserves the invariant.
LEMMA BindEmptyStreamStep ==
  ASSUME IInv, NEW s \in Statements, BindEmptyStream(s), UNCHANGED uses
  PROVE  IInv'
<1> USE DEF BindEmptyStream
<1>1. BatchTypeOK' /\ JobInv' /\ LogInv'
  BY TypeOKParts, ConnectionUnchanged DEF IInv
<1>2. TableTypeOK'
  BY TypeOKParts, TableUnchanged DEF IInv
<1>3. Len(binds) \in Nat
  BY TypeOKParts DEF IInv, BatchTypeOK, ServerTypeOK
<1>4. StatementTypeOK'
  BY <1>3, TypeOKParts DEF IInv, StatementTypeOK, callVars, Binds
<1>5. CallInv'
  BY TypeOKParts DEF IInv, CallInv, callVars
<1> QED BY <1>1, <1>2, <1>4, <1>5, IInvParts

\* A call that begins has what its first step needs.
LEMMA EnterStep ==
  ASSUME StatementTypeOK, CallInv, NEW s \in Statements, NEW api \in Apis, NEW b \in Binds,
         NEW step \in {"prepare", "bound_rows", "plain", "ddl", "rejected"},
         Enter(s, api, b, step),
         UNCHANGED <<binds, handles, sql, prepared, uses>>,
         bound' \in [Statements -> Binds],
         options' \in [Statements -> IngestOptions \cup {NoOptions}],
         step \in {"prepare", "plain"} => sql[s] \in Texts,
         step = "bound_rows" => api \in {"execute", "update"} /\ b # 0 /\ prepared[s] # 0,
         step = "prepare" => api = "prepare" \/ (api \in {"execute", "update"} /\ b # 0),
         step = "ddl" => b # 0
  PROVE  StatementTypeOK' /\ CallInv'
<1>1. NoResult \in [kind : Kinds, bind : Binds, count : Nat]
  <2>1. 0 \in Binds BY DEF Binds
  <2> QED BY <2>1 DEF NoResult, Kinds
<1>2. Binds' = Binds
  BY DEF Binds
<1>3. calls' \in 0 .. MaxCalls
  BY FfiStatementAssumption DEF Enter, StatementTypeOK
<1>4. StatementTypeOK'
  BY <1>1, <1>2, <1>3 DEF StatementTypeOK, Enter
<1>5. CallInv'
  BY DEF CallInv, Enter, StatementTypeOK
<1> QED BY <1>4, <1>5

\* prepare preserves the invariant.
LEMMA PrepareStep ==
  ASSUME IInv, NEW s \in Statements, Prepare(s), UNCHANGED uses
  PROVE  IInv'
<1> USE DEF Prepare
<1>1. BatchTypeOK' /\ JobInv' /\ LogInv'
  BY TypeOKParts, ConnectionUnchanged DEF IInv
<1>2. TableTypeOK'
  BY TypeOKParts, TableUnchanged DEF IInv
<1>3. StatementTypeOK /\ CallInv /\ Len(binds) \in Nat
  BY TypeOKParts DEF IInv, BatchTypeOK, ServerTypeOK
<1>4. 0 \in Binds /\ "prepare" \in Apis /\ sql[s] \in Texts
  BY <1>3 DEF Binds, Apis, StatementTypeOK
<1>5. StatementTypeOK' /\ CallInv'
  BY <1>3, <1>4, EnterStep DEF stmtVars, StatementTypeOK
<1> QED BY <1>1, <1>2, <1>5, IInvParts

\* execute and execute_update with a batch preserve the invariant.
LEMMA ExecuteBoundStep ==
  ASSUME IInv, NEW s \in Statements, NEW api \in {"execute", "update"},
         ExecuteBound(s, api), UNCHANGED uses
  PROVE  IInv'
<1> USE DEF ExecuteBound
<1>1. BatchTypeOK' /\ JobInv' /\ LogInv'
  BY TypeOKParts, ConnectionUnchanged DEF IInv
<1>2. TableTypeOK'
  BY TypeOKParts, TableUnchanged DEF IInv
<1>3. StatementTypeOK /\ CallInv /\ Len(binds) \in Nat
  BY TypeOKParts DEF IInv, BatchTypeOK, ServerTypeOK
<1>4. bound[s] \in Binds /\ bound[s] # 0 /\ api \in Apis /\ sql[s] \in Texts
  BY <1>3 DEF Apis, StatementTypeOK
<1>5. bound' \in [Statements -> Binds]
  BY <1>3 DEF StatementTypeOK, TakeBound, Binds
<1>6. CASE prepared[s] = 0
  <2>1. Enter(s, api, bound[s], "prepare") BY <1>6
  <2> QED BY <1>1, <1>2, <1>3, <1>4, <1>5, <2>1, EnterStep, IInvParts DEF StatementTypeOK
<1>7. CASE prepared[s] # 0
  <2>1. Enter(s, api, bound[s], "bound_rows") BY <1>7
  <2> QED BY <1>1, <1>2, <1>3, <1>4, <1>5, <1>7, <2>1, EnterStep, IInvParts DEF StatementTypeOK
<1> QED BY <1>6, <1>7

\* execute and execute_update without a batch preserve the invariant.
LEMMA ExecutePlainStep ==
  ASSUME IInv, NEW s \in Statements, NEW api \in {"execute", "update"},
         ExecutePlain(s, api), UNCHANGED uses
  PROVE  IInv'
<1> USE DEF ExecutePlain
<1>1. BatchTypeOK' /\ JobInv' /\ LogInv'
  BY TypeOKParts, ConnectionUnchanged DEF IInv
<1>2. TableTypeOK'
  BY TypeOKParts, TableUnchanged DEF IInv
<1>3. StatementTypeOK /\ CallInv /\ Len(binds) \in Nat
  BY TypeOKParts DEF IInv, BatchTypeOK, ServerTypeOK
<1>4. 0 \in Binds /\ api \in Apis /\ sql[s] \in Texts
  BY <1>3 DEF Binds, Apis, StatementTypeOK
<1>5. StatementTypeOK' /\ CallInv'
  BY <1>3, <1>4, EnterStep DEF stmtVars, StatementTypeOK
<1> QED BY <1>1, <1>2, <1>5, IInvParts

\* The checks of a bulk ingest preserve the invariant.
LEMMA ExecuteIngestStep ==
  ASSUME IInv, NEW s \in Statements, NEW o \in IngestOptions, SetOptions(s, o),
         ExecuteIngest(s, o), UNCHANGED uses
  PROVE  IInv'
<1>1. BatchTypeOK' /\ JobInv' /\ LogInv'
  BY TypeOKParts, ConnectionUnchanged DEF IInv, ExecuteIngest
<1>2. StatementTypeOK /\ TableTypeOK /\ CallInv /\ Len(binds) \in Nat
  BY TypeOKParts DEF IInv, BatchTypeOK, ServerTypeOK
<1>3. TableTypeOK'
  BY <1>2 DEF TableTypeOK, Tables, Binds, ExecuteIngest
<1>4. 0 \in Binds /\ bound[s] \in Binds /\ "ingest" \in Apis
  BY <1>2 DEF Binds, Apis, StatementTypeOK
<1>5. options' \in [Statements -> IngestOptions \cup {NoOptions}]
  BY <1>2 DEF SetOptions, StatementTypeOK
<1>6. UNCHANGED <<binds, handles, sql, prepared>>
  BY DEF ExecuteIngest
<1>7. CASE OptionsAccepted(o) /\ bound[s] # 0
  <2>1. PICK step \in {"ddl", "rejected"} : Enter(s, "ingest", bound[s], step)
    BY <1>7 DEF ExecuteIngest
  <2>2. bound' \in [Statements -> Binds]
    BY <1>2, <1>4, <1>7 DEF ExecuteIngest, TakeBound, StatementTypeOK
  <2>3. StatementTypeOK' /\ CallInv'
    BY <1>2, <1>4, <1>5, <1>6, <1>7, <2>1, <2>2, EnterStep
  <2> QED BY <1>1, <1>3, <2>3, IInvParts
<1>8. CASE ~(OptionsAccepted(o) /\ bound[s] # 0)
  <2>1. Enter(s, "ingest", 0, "rejected") /\ UNCHANGED bound
    BY <1>8 DEF ExecuteIngest
  <2>2. bound' \in [Statements -> Binds]
    BY <1>2, <2>1 DEF StatementTypeOK
  <2>3. StatementTypeOK' /\ CallInv'
    BY <1>2, <1>4, <1>5, <1>6, <2>1, <2>2, EnterStep
  <2> QED BY <1>1, <1>3, <2>3, IInvParts
<1> QED BY <1>7, <1>8

\* The answer to a prepare preserves the invariant.
LEMMA CreatePreparedStep ==
  ASSUME IInv, NEW s \in Statements, CreatePrepared(s), UNCHANGED uses
  PROVE  IInv'
<1>1. BatchTypeOK /\ StatementTypeOK /\ TableTypeOK /\ CallInv /\ JobInv /\ LogInv
  BY TypeOKParts DEF IInv
<1>2. /\ pc[s] = "prepare"
      /\ phase = "free"
      /\ UNCHANGED <<binds, batchVars, log, sql, bound, options, tableVars, calls>>
  BY DEF CreatePrepared
<1>3. PICK answer \in Answers :
        /\ link' = IF answer = "lost" THEN "lost" ELSE link
        /\ IF answer = "ok"
             THEN /\ handles' = Append(handles, sql[s])
                  /\ prepared' = [prepared EXCEPT ![s] = Len(handles) + 1]
                  /\ IF call[s].api = "prepare" THEN Finish(s, "ok", 0) ELSE Goto(s, "bound_rows")
             ELSE Finish(s, "err", 0) /\ UNCHANGED <<handles, prepared>>
  BY DEF CreatePrepared
<1>4. TableTypeOK'
  BY <1>1, <1>2, TableUnchanged
<1>5. LogInv'
  BY <1>1, <1>2, LogUnchanged
<1>6. /\ sql[s] \in Texts
      /\ handles \in Seq(Texts)
      /\ Len(handles) \in Nat
  BY <1>1, <1>2 DEF CallInv, BatchTypeOK, ServerTypeOK
<1>7. handles' \in Seq(Texts) /\ Len(handles) <= Len(handles')
  BY <1>3, <1>6
<1>8. ServerTypeOK'
  BY <1>1, <1>2, <1>3, <1>7 DEF BatchTypeOK, ServerTypeOK
<1>9. JobTypeOK'
  BY <1>1, <1>2, <1>6, <1>7 DEF BatchTypeOK, JobTypeOK, batchVars
<1>10. JobInv'
  BY <1>1, <1>2 DEF JobInv, batchVars
<1>11. BatchTypeOK'
  BY <1>8, <1>9 DEF BatchTypeOK
<1>12. CASE answer # "ok"
  <2>1. Finish(s, "err", 0) /\ UNCHANGED <<handles, prepared>>
    BY <1>3, <1>12
  <2>2. StatementTypeOK' /\ CallInv'
    BY <1>1, <1>2, <2>1, FinishStep DEF stmtVars
  <2> QED BY <1>4, <1>5, <1>10, <1>11, <2>2, IInvParts
<1>13. CASE answer = "ok"
  <2>1. /\ handles' = Append(handles, sql[s])
        /\ prepared' = [prepared EXCEPT ![s] = Len(handles) + 1]
    BY <1>3, <1>13
  <2>2. Len(handles') = Len(handles) + 1
    BY <1>6, <2>1
  <2>3. prepared' \in [Statements -> 0 .. Len(handles')]
    BY <1>1, <1>6, <2>1, <2>2 DEF StatementTypeOK
  <2>4. prepared'[s] # 0 /\ \A o \in Statements \ {s} : prepared'[o] = prepared[o]
    BY <1>1, <1>6, <2>1 DEF StatementTypeOK
  <2>5. Binds' = Binds /\ 0 \in Binds
    BY <1>2 DEF Binds
  <2>6. CASE call[s].api = "prepare"
    <3>1. Finish(s, "ok", 0) BY <1>3, <1>13, <2>6
    <3>2. StatementTypeOK'
      BY <1>1, <1>2, <2>3, <2>5, <3>1 DEF StatementTypeOK, Finish, NoCall, Apis, Kinds
    <3>3. CallInv'
      BY <1>1, <1>2, <2>4, <3>1 DEF CallInv, Finish, StatementTypeOK
    <3> QED BY <1>4, <1>5, <1>10, <1>11, <3>2, <3>3, IInvParts
  <2>7. CASE call[s].api # "prepare"
    <3>1. Goto(s, "bound_rows") BY <1>3, <1>13, <2>7
    <3>2. StatementTypeOK'
      BY <1>1, <1>2, <2>3, <2>5, <3>1 DEF StatementTypeOK, Goto
    <3>3. CallInv'
      BY <1>1, <1>2, <2>4, <2>7, <3>1 DEF CallInv, Goto, StatementTypeOK
    <3> QED BY <1>4, <1>5, <1>10, <1>11, <3>2, <3>3, IInvParts
  <2> QED BY <2>6, <2>7
<1> QED BY <1>12, <1>13

\* The conversion of a bound batch preserves the invariant.
LEMMA BoundRowsStep ==
  ASSUME IInv, NEW s \in Statements, BoundRows(s), UNCHANGED uses
  PROVE  IInv'
<1>1. BatchTypeOK' /\ JobInv' /\ LogInv'
  BY TypeOKParts, ConnectionUnchanged DEF IInv, BoundRows
<1>2. TableTypeOK'
  BY TypeOKParts, TableUnchanged DEF IInv, BoundRows
<1>3. StatementTypeOK /\ CallInv
  BY TypeOKParts DEF IInv
<1>4. /\ pc[s] = "bound_rows"
      /\ UNCHANGED <<binds, handles, stmtVars, calls>>
      /\ Finish(s, "err", 0) \/ Finish(s, "ok", 0) \/ Goto(s, "lock")
  BY DEF BoundRows
<1>5. StatementTypeOK' /\ CallInv'
  BY <1>3, <1>4, FinishStep, GotoStep
<1> QED BY <1>1, <1>2, <1>5, IInvParts

\* Locking the connection for a batch establishes what is said of the job.
LEMMA RunBatchStep ==
  ASSUME IInv, NEW s \in Statements, RunBatch(s), UNCHANGED uses
  PROVE  IInv'
<1> DEFINE j == [stmt |-> s, bind |-> call[s].bind, handle |-> prepared[s], api |-> call[s].api]
<1>1. BatchTypeOK /\ StatementTypeOK /\ TableTypeOK /\ CallInv /\ JobInv /\ LogInv
  BY TypeOKParts DEF IInv
<1>2. /\ pc[s] = "lock"
      /\ phase = "free"
      /\ BeginBatch(j)
      /\ Goto(s, "running")
      /\ UNCHANGED <<binds, handles, serverVars, stmtVars, tableVars, calls>>
  BY DEF RunBatch
<1>3. StatementTypeOK' /\ CallInv'
  BY <1>1, <1>2, GotoStep
<1>4. TableTypeOK'
  BY <1>1, <1>2, TableUnchanged
<1>5. ServerTypeOK' /\ LogInv'
  BY <1>1, <1>2, ServerUnchanged, LogUnchanged DEF BatchTypeOK, serverVars
<1>6. /\ call[s].bind \in 1 .. Len(binds)
      /\ prepared[s] \in 1 .. Len(handles)
      /\ call[s].api \in {"execute", "update"}
  BY <1>1, <1>2 DEF CallInv, StatementTypeOK, Binds
<1>7. /\ job' = j
      /\ UNCHANGED <<row, first_row, ranges, sent, affected>>
      /\ \/ phase' = "done" /\ outcome' = [kind |-> "err", count |-> 0]
         \/ /\ phase' = IF RunsPerRow(handles[j.handle], binds[j.bind]) THEN "rows" ELSE "split"
            /\ outcome' = outcome
  BY <1>2 DEF BeginBatch, Return
<1>8. JobTypeOK'
  BY <1>1, <1>2, <1>6, <1>7 DEF BatchTypeOK, JobTypeOK
<1>9. row = 0 /\ first_row = 0 /\ ranges = <<>> /\ sent = 0
  BY <1>1, <1>2 DEF JobInv
<1>10. data' = binds[call[s].bind] /\ text' = handles[prepared[s]]
  BY <1>2, <1>7 DEF data, text
<1>11. Rows(data') \in Nat
  <2>1. data' \in Batches BY <1>1, <1>6, <1>10 DEF BatchTypeOK, ServerTypeOK
  <2>2. data'.ends \in Seq(Nat) BY <2>1, PreparedBatchAssumption
  <2> QED BY <2>2 DEF Rows
<1>12. job'.stmt \in Statements /\ job'.bind # 0 /\ job'.handle # 0
  BY <1>6, <1>7
<1>13. phase' = "rows" => RunsPerRow(text', data')
  BY <1>7, <1>10 DEF RunsPerRow
<1>14. phase' \in {"done", "rows", "split"} /\ row' = 0 /\ first_row' = 0 /\ sent' = 0 /\ Len(ranges') = 0
  BY <1>7, <1>9
<1>15. JobInv'
  BY <1>11, <1>12, <1>13, <1>14 DEF JobInv, RunsPerRow, Rows
<1> QED BY <1>3, <1>4, <1>5, <1>8, <1>15, IInvParts DEF BatchTypeOK

\* The return of a batch preserves the invariant.
LEMMA BatchDoneStep ==
  ASSUME IInv, NEW s \in Statements, BatchDone(s), UNCHANGED uses
  PROVE  IInv'
<1>1. BatchTypeOK /\ StatementTypeOK /\ TableTypeOK /\ CallInv /\ JobInv /\ LogInv
  BY TypeOKParts DEF IInv
<1>2. /\ Finish(s, outcome.kind, outcome.count)
      /\ ReleaseBatch
      /\ UNCHANGED <<binds, handles, serverVars, stmtVars, tableVars, calls>>
  BY DEF BatchDone
<1>3. StatementTypeOK' /\ CallInv'
  <2>1. outcome.kind \in Kinds /\ outcome.count \in Nat /\ 0 \in Binds /\ Binds' = Binds
    BY <1>1, <1>2 DEF BatchTypeOK, JobTypeOK, Kinds, Binds
  <2>2. StatementTypeOK'
    BY <1>1, <1>2, <2>1 DEF StatementTypeOK, Finish, stmtVars, NoCall, Apis
  <2>3. CallInv'
    BY <1>1, <1>2 DEF CallInv, Finish, stmtVars, StatementTypeOK
  <2> QED BY <2>2, <2>3
<1>4. TableTypeOK'
  BY <1>1, <1>2, TableUnchanged
<1>5. ServerTypeOK' /\ LogInv'
  BY <1>1, <1>2, ServerUnchanged, LogUnchanged DEF BatchTypeOK, serverVars
<1>6. JobTypeOK'
  BY <1>1, <1>2 DEF BatchTypeOK, JobTypeOK, ReleaseBatch, NoJob, NoOutcome
<1>7. JobInv'
  BY <1>2 DEF JobInv, ReleaseBatch
<1> QED BY <1>3, <1>4, <1>5, <1>6, <1>7, IInvParts DEF BatchTypeOK

\* The execution of plain text adds a request without rows.
LEMMA RunPlainStep ==
  ASSUME IInv, NEW s \in Statements, RunPlain(s), UNCHANGED uses
  PROVE  IInv'
<1>1. BatchTypeOK /\ StatementTypeOK /\ TableTypeOK /\ CallInv /\ JobInv /\ LogInv
  BY TypeOKParts DEF IInv
<1>2. /\ pc[s] = "plain"
      /\ UNCHANGED <<binds, handles, batchVars, stmtVars, tableVars, calls>>
  BY DEF RunPlain
<1> DEFINE Rec(a, d) == [stmt |-> s, bind |-> 0, text |-> sql[s], first |-> 0, last |-> 0,
                         answer |-> a, done |-> d]
<1>3. PICK a \in Answers, d \in {"yes", "no"}, k \in {"ok", "err"} :
        /\ link' = IF a = "lost" THEN "lost" ELSE link
        /\ log' = Append(log, Rec(a, d))
        /\ Finish(s, k, 0)
  BY DEF RunPlain
<1>4. StatementTypeOK' /\ CallInv'
  BY <1>1, <1>2, <1>3, FinishStep
<1>5. TableTypeOK'
  BY <1>1, <1>2, TableUnchanged
<1>6. Rec(a, d) \in Requests /\ EntryOk(Rec(a, d)) /\ Rec(a, d).bind = 0
  BY <1>1, <1>2 DEF CallInv, Requests, EntryOk
<1> HIDE DEF Rec
<1>7. LogInv'
  BY <1>1, <1>2, <1>3, <1>6, LogAppended
<1>8. ServerTypeOK'
  <2>1. log' \in Seq(Requests) /\ link' \in {"up", "lost"}
    BY <1>1, <1>3, <1>6 DEF BatchTypeOK, ServerTypeOK
  <2>2. ASSUME NEW i \in 1 .. Len(log') PROVE log'[i].bind <= Len(binds)
    <3>1. Len(log') = Len(log) + 1 /\ Len(log) \in Nat /\ Len(binds) \in Nat
      BY <1>1, <1>3 DEF BatchTypeOK, ServerTypeOK
    <3>2. CASE i = Len(log) + 1
      <4>1. log'[i] = Rec(a, d) BY <1>1, <1>3, <3>2 DEF BatchTypeOK, ServerTypeOK
      <4> QED BY <1>6, <3>1, <4>1
    <3>3. CASE i # Len(log) + 1
      <4>1. i \in 1 .. Len(log) BY <3>1, <3>3
      <4>2. log'[i] = log[i] BY <1>1, <1>3, <4>1 DEF BatchTypeOK, ServerTypeOK
      <4> QED BY <1>1, <4>1, <4>2 DEF BatchTypeOK, ServerTypeOK
    <3> QED BY <3>2, <3>3
  <2> QED BY <1>1, <1>2, <2>1, <2>2 DEF BatchTypeOK, ServerTypeOK
<1>9. JobTypeOK' /\ JobInv'
  BY <1>1, <1>2, JobUnchanged DEF BatchTypeOK, JobTypeOK, batchVars
<1> QED BY <1>4, <1>5, <1>7, <1>8, <1>9, IInvParts DEF BatchTypeOK

\* The error of a rejected ingest preserves the invariant.
LEMMA IngestRejectedStep ==
  ASSUME IInv, NEW s \in Statements, IngestRejected(s), UNCHANGED uses
  PROVE  IInv'
<1>1. BatchTypeOK' /\ JobInv' /\ LogInv'
  BY TypeOKParts, ConnectionUnchanged DEF IInv, IngestRejected
<1>2. TableTypeOK'
  BY TypeOKParts, TableUnchanged DEF IInv, IngestRejected
<1>3. StatementTypeOK' /\ CallInv'
  BY TypeOKParts, FinishStep DEF IInv, IngestRejected
<1> QED BY <1>1, <1>2, <1>3, IInvParts

\* The part of the connection that an ingest's step changes: the link.
LEMMA LinkStep ==
  ASSUME BatchTypeOK, JobInv, LogInv, UNCHANGED <<binds, handles, batchVars, log>>,
         link' \in {"up", "lost"}
  PROVE  BatchTypeOK' /\ JobInv' /\ LogInv'
<1>1. ServerTypeOK'
  BY DEF BatchTypeOK, ServerTypeOK
<1>2. JobTypeOK'
  BY DEF BatchTypeOK, JobTypeOK, batchVars
<1> QED BY <1>1, <1>2, JobUnchanged, LogUnchanged DEF BatchTypeOK

\* The DDL of an ingest preserves the invariant.
LEMMA IngestDdlStep ==
  ASSUME IInv, NEW s \in Statements, IngestDdl(s), UNCHANGED uses
  PROVE  IInv'
<1>1. BatchTypeOK /\ StatementTypeOK /\ TableTypeOK /\ CallInv /\ JobInv /\ LogInv
  BY TypeOKParts DEF IInv
<1>2. /\ pc[s] = "ddl"
      /\ UNCHANGED <<binds, handles, batchVars, log, stmtVars, calls>>
  BY DEF IngestDdl
<1>3. link \in {"up", "lost"} /\ Binds' = Binds
  BY <1>1, <1>2 DEF BatchTypeOK, ServerTypeOK, Binds
<1>4. CASE IngestMode(options[s]) = "append"
  <2>1. Goto(s, "import") /\ UNCHANGED <<link, tableVars>>
    BY <1>4 DEF IngestDdl
  <2>2. StatementTypeOK' /\ CallInv'
    BY <1>1, <1>2, <2>1, GotoStep
  <2>3. TableTypeOK'
    BY <1>1, <1>2, <2>1, TableUnchanged
  <2> QED BY <1>1, <1>2, <1>3, <2>1, <2>2, <2>3, LinkStep, IInvParts
<1>5. CASE IngestMode(options[s]) # "append"
  <2>1. PICK a \in Answers, i \in DOMAIN DdlSteps(s) :
          /\ link' = IF a = "lost" THEN "lost" ELSE link
          /\ WriteTable(s, DdlSteps(s)[i])
          /\ UNCHANGED before
          /\ IF a = "ok" THEN Goto(s, "import") ELSE Finish(s, "err", 0)
    BY <1>5 DEF IngestDdl
  <2>2. StatementTypeOK' /\ CallInv'
    BY <1>1, <1>2, <2>1, GotoStep, FinishStep
  <2>3. DdlSteps(s)[i] \in Tables
    <3>1. Absent \in Tables /\ Table({}) \in Tables /\ table \in Tables
      BY <1>1 DEF Absent, Table, Tables, TableTypeOK
    <3>2. \/ DdlSteps(s) = <<table, Table({})>>
          \/ DdlSteps(s) = <<table, Absent, Table({})>>
          \/ DdlSteps(s) = <<table>>
      BY DEF DdlSteps
    <3> QED BY <3>1, <3>2
  <2>4. TableTypeOK'
    BY <1>1, <1>2, <1>3, <2>1, <2>3 DEF TableTypeOK, WriteTable, Tables
  <2>5. link' \in {"up", "lost"}
    BY <1>3, <2>1
  <2> QED BY <1>1, <1>2, <2>2, <2>4, <2>5, LinkStep, IInvParts
<1> QED BY <1>4, <1>5

\* The import of an ingest preserves the invariant.
LEMMA IngestImportStep ==
  ASSUME IInv, NEW s \in Statements, IngestImport(s), UNCHANGED uses
  PROVE  IInv'
<1>1. BatchTypeOK /\ StatementTypeOK /\ TableTypeOK /\ CallInv /\ JobInv /\ LogInv
  BY TypeOKParts DEF IInv
<1>2. /\ pc[s] = "import"
      /\ UNCHANGED <<binds, handles, batchVars, log, stmtVars, calls>>
  BY DEF IngestImport
<1>3. link \in {"up", "lost"} /\ Binds' = Binds
  BY <1>1, <1>2 DEF BatchTypeOK, ServerTypeOK, Binds
<1>4. PICK a \in Answers, t \in {table, Table(table.rows \cup {call[s].bind})} :
        /\ link' = IF a = "lost" THEN "lost" ELSE link
        /\ WriteTable(s, t)
        /\ before' = [before EXCEPT ![s] = Absent]
        /\ IF a = "ok" THEN Finish(s, "ok", Rows(binds[call[s].bind])) ELSE Finish(s, "err", 0)
  BY DEF IngestImport
<1>5. call[s].bind \in Binds /\ call[s].bind \in 1 .. Len(binds)
  BY <1>1, <1>2 DEF CallInv, StatementTypeOK, Binds
<1>6. Rows(binds[call[s].bind]) \in Nat
  <2>1. binds[call[s].bind] \in Batches BY <1>1, <1>5 DEF BatchTypeOK, ServerTypeOK
  <2>2. binds[call[s].bind].ends \in Seq(Nat) BY <2>1, PreparedBatchAssumption
  <2> QED BY <2>2 DEF Rows
<1>7. StatementTypeOK' /\ CallInv'
  BY <1>1, <1>2, <1>4, <1>6, FinishStep
<1>8. t \in Tables /\ Absent \in Tables
  BY <1>1, <1>5 DEF Table, Tables, TableTypeOK, Absent
<1>9. TableTypeOK'
  BY <1>1, <1>3, <1>4, <1>8 DEF TableTypeOK, WriteTable, Tables
<1>10. link' \in {"up", "lost"}
  BY <1>3, <1>4
<1> QED BY <1>1, <1>2, <1>7, <1>9, <1>10, LinkStep, IInvParts

-----------------------------------------------------------------------------
(* The theorems                                                            *)

\* The first state of the statements satisfies the invariant.
LEMMA InitInv == Init => IInv
<1> SUFFICES ASSUME Init PROVE IInv OBVIOUS
<1> USE DEF Init, BatchInit
<1>1. BatchTypeOK
  BY DEF BatchTypeOK, ServerTypeOK, JobTypeOK, NoJob, NoOutcome
<1>2. StatementTypeOK
  BY FfiStatementAssumption DEF StatementTypeOK, NoCall, NoResult, Binds, Apis, Kinds
<1>3. TableTypeOK
  BY DEF TableTypeOK, Tables, Table, Absent, Binds
<1>4. CallInv /\ JobInv /\ LogInv
  BY DEF CallInv, JobInv, LogInv
<1> QED BY <1>1, <1>2, <1>3, <1>4, TypeOKParts DEF IInv

\* A step of the batch leaves the statements alone.
LEMMA BatchStepStep ==
  ASSUME IInv, BatchStep, UNCHANGED <<stmtVars, callVars, tableVars, calls, uses>>
  PROVE  IInv'
<1>1. BatchTypeOK /\ StatementTypeOK /\ TableTypeOK /\ CallInv /\ JobInv /\ LogInv
  BY TypeOKParts DEF IInv
<1>2. BatchTypeOK' /\ JobInv' /\ LogInv'
  BY <1>1, SplitRowStep, SplitDoneStep, SendRangeStep, RunRowStep DEF BatchStep
<1>3. UNCHANGED <<binds, handles>>
  BY DEF BatchStep, SplitRow, SplitDone, SendRange, RunRow
<1>4. StatementTypeOK' /\ CallInv'
  BY <1>1, <1>3 DEF StatementTypeOK, CallInv, stmtVars, callVars, Binds
<1>5. TableTypeOK'
  BY <1>1, <1>3, TableUnchanged
<1> QED BY <1>2, <1>4, <1>5, IInvParts

\* Every step of a statement, a batch or the server preserves the invariant.
LEMMA Inductive == IInv /\ [Next]_vars => IInv'
<1> SUFFICES ASSUME IInv, [Next]_vars PROVE IInv' OBVIOUS
<1>1. CASE UNCHANGED vars
  <2>1. BatchTypeOK /\ StatementTypeOK /\ TableTypeOK /\ CallInv /\ JobInv /\ LogInv
    BY TypeOKParts DEF IInv
  <2>2. UNCHANGED <<binds, handles, batchVars, serverVars, stmtVars, callVars, tableVars, calls, uses>>
    BY <1>1 DEF vars
  <2>3. StatementTypeOK' /\ CallInv'
    BY <2>1, <2>2 DEF StatementTypeOK, CallInv, stmtVars, callVars, Binds
  <2> QED BY <2>1, <2>2, <2>3, ConnectionUnchanged, TableUnchanged, IInvParts
<1>2. CASE BatchStep /\ UNCHANGED <<stmtVars, callVars, tableVars, calls>> /\ UNCHANGED uses
  BY <1>2, BatchStepStep
<1>3. ASSUME NEW s \in Statements, UNCHANGED uses,
             \/ \E t \in uses[s].texts : SetSqlQuery(s, t)
             \/ \E b \in uses[s].batches : Bind(s, b)
             \/ BindEmptyStream(s)
             \/ Prepare(s)
             \/ \E api \in {"execute", "update"} : ExecuteBound(s, api) \/ ExecutePlain(s, api)
             \/ \E o \in uses[s].options : SetOptions(s, o) /\ ExecuteIngest(s, o)
             \/ CreatePrepared(s)
             \/ BoundRows(s)
             \/ RunBatch(s)
             \/ BatchDone(s)
             \/ RunPlain(s)
             \/ IngestRejected(s)
             \/ IngestDdl(s)
             \/ IngestImport(s)
      PROVE  IInv'
  <2>1. /\ uses[s].texts \subseteq Texts
        /\ uses[s].batches \subseteq Batches
        /\ uses[s].options \subseteq IngestOptions
    BY FfiStatementAssumption, TypeOKParts DEF IInv, StatementTypeOK
  <2>2. CASE \E t \in uses[s].texts : SetSqlQuery(s, t)
    BY <1>3, <2>1, <2>2, SetSqlQueryStep
  <2>3. CASE \E b \in uses[s].batches : Bind(s, b)
    BY <1>3, <2>1, <2>3, BindStep
  <2>4. CASE \E o \in uses[s].options : SetOptions(s, o) /\ ExecuteIngest(s, o)
    BY <1>3, <2>1, <2>4, ExecuteIngestStep
  <2>5. CASE BindEmptyStream(s) BY <1>3, <2>5, BindEmptyStreamStep
  <2>6. CASE Prepare(s) BY <1>3, <2>6, PrepareStep
  <2>7. CASE \E api \in {"execute", "update"} : ExecuteBound(s, api) \/ ExecutePlain(s, api)
    BY <1>3, <2>7, ExecuteBoundStep, ExecutePlainStep
  <2>8. CASE CreatePrepared(s) BY <1>3, <2>8, CreatePreparedStep
  <2>9. CASE BoundRows(s) BY <1>3, <2>9, BoundRowsStep
  <2>10. CASE RunBatch(s) BY <1>3, <2>10, RunBatchStep
  <2>11. CASE BatchDone(s) BY <1>3, <2>11, BatchDoneStep
  <2>12. CASE RunPlain(s) BY <1>3, <2>12, RunPlainStep
  <2>13. CASE IngestRejected(s) BY <1>3, <2>13, IngestRejectedStep
  <2>14. CASE IngestDdl(s) BY <1>3, <2>14, IngestDdlStep
  <2>15. CASE IngestImport(s) BY <1>3, <2>15, IngestImportStep
  <2> QED
    BY <1>3, <2>2, <2>3, <2>4, <2>5, <2>6, <2>7, <2>8, <2>9, <2>10, <2>11, <2>12, <2>13, <2>14, <2>15
<1> QED BY <1>1, <1>2, <1>3 DEF Next, Step

\* The inductive invariant holds in every state.
LEMMA Invariance == Spec => []IInv
BY InitInv, Inductive, PTL DEF Spec

\* The state of every statement, of the call that holds the connection and of the
\* server keeps its type (FfiStatement and execute_prepared_statement).
THEOREM TypeCorrect == Spec => []TypeOK
<1>1. IInv => TypeOK BY DEF IInv
<1> QED BY <1>1, Invariance, PTL

\* split_parameter_rows never builds a message above the session's limit by putting
\* rows together, for every limit and every batch.
THEOREM MessagesAlwaysFit == Spec => []MessagesFit
<1>1. IInv => MessagesFit
  BY DEF IInv, LogInv, EntryOk, MessagesFit
<1> QED BY <1>1, Invariance, PTL

\* split_parameter_rows cuts a batch only before a row that would not have fitted:
\* a batch that fits in one data message is one execution.
THEOREM CutsAreNeeded == Spec => []CutOnlyWhereNeeded
<1>1. IInv => CutOnlyWhereNeeded
  BY DEF IInv, LogInv, EntryOk, RightSize, CutOnlyWhereNeeded
<1> QED BY <1>1, Invariance, PTL

-----------------------------------------------------------------------------
(* What an ingest finds and leaves in the table                            *)

\* The table after the DDL of an ingest that nobody disturbed.
Made(s) ==
  LET m == IngestMode(options[s])
  IN /\ m = "append" => table = before[s]
     /\ m = "create" => before[s] = Absent /\ table = Table({})
     /\ m = "create_append" => table = IF before[s] = Absent THEN Table({}) ELSE before[s]
     /\ m = "replace" => table = Table({})

\* An ingest that nobody disturbed knows the table at each of its steps, and a call has
\* no result before it returns.
IngestInv(s) ==
  /\ pc[s] \in {"ddl", "import", "rejected"} => IsBulkIngest(s)
  /\ pc[s] \in {"ddl", "import"} => OptionsAccepted(options[s])
  /\ pc[s] # "idle" => result[s].kind = "none"
  /\ pc[s] = "ddl" /\ shared[s] = "no" => table = before[s]
  /\ pc[s] = "import" /\ shared[s] = "no" => Made(s)

\* The call of o, and what it found, are as they were.
CallSame(o) ==
  /\ pc'[o] = pc[o] /\ call'[o] = call[o] /\ result'[o] = result[o]
  /\ options'[o] = options[o] /\ before'[o] = before[o]

\* An ingest keeps what it knows while nobody writes the table, or learns that somebody did.
LEMMA IngestSame ==
  ASSUME NEW o \in Statements, IngestInv(o), CallSame(o),
         \/ table' = table /\ shared'[o] = shared[o]
         \/ shared'[o] = "yes"
         \/ pc[o] \notin {"ddl", "import"}
  PROVE  IngestInv(o)'
BY DEF IngestInv, CallSame, Made, IsBulkIngest

\* The calls of the statements other than s are as they were.
OthersCalls(s) == \A o \in Statements \ {s} : pc'[o] = pc[o] /\ call'[o] = call[o] /\ result'[o] = result[o]

\* The call of s returns; the others are as they were.
LEMMA FinishMoves ==
  ASSUME TypeOK, NEW s \in Statements, NEW kind, NEW count, Finish(s, kind, count)
  PROVE  /\ pc'[s] = "idle" /\ call'[s] = NoCall
         /\ result'[s] = [kind |-> kind, bind |-> call[s].bind, count |-> count]
         /\ OthersCalls(s)
BY DEF TypeOK, Finish, OthersCalls

\* The call of s goes on.
LEMMA GotoMoves ==
  ASSUME TypeOK, NEW s \in Statements, NEW step, Goto(s, step)
  PROVE  pc'[s] = step /\ call'[s] = call[s] /\ result'[s] = result[s] /\ OthersCalls(s)
BY DEF TypeOK, Goto, OthersCalls

\* A call of s that is not an ingest moves on, without writing the table.
OwnMove(s) ==
  /\ pc'[s] \notin {"ddl", "import", "rejected"}
  /\ pc'[s] # "idle" => result'[s].kind = "none"
  /\ OthersCalls(s)

\* Such a move keeps what every ingest knows.
LEMMA OwnMoveKeeps ==
  ASSUME \A o \in Statements : IngestInv(o), NEW s \in Statements, OwnMove(s), UNCHANGED <<options, tableVars>>
  PROVE  \A o \in Statements : IngestInv(o)'
<1>1. IngestInv(s)'
  BY DEF OwnMove, IngestInv
<1>2. ASSUME NEW o \in Statements \ {s} PROVE IngestInv(o)'
  <2>1. CallSame(o) /\ table' = table /\ shared'[o] = shared[o]
    BY DEF OwnMove, OthersCalls, CallSame, tableVars
  <2> QED BY <2>1, IngestSame
<1> QED BY <1>1, <1>2

\* The steps that leave every call alone.
LEMMA QuietKeeps ==
  ASSUME \A o \in Statements : IngestInv(o), UNCHANGED <<options, callVars, tableVars>>
  PROVE  \A o \in Statements : IngestInv(o)'
<1>1. ASSUME NEW o \in Statements PROVE IngestInv(o)'
  <2>1. CallSame(o) /\ table' = table /\ shared'[o] = shared[o]
    BY DEF CallSame, callVars, tableVars
  <2> QED BY <2>1, IngestSame
<1> QED BY <1>1

\* The steps of calls with SQL text are such moves.
LEMMA TextCallsMove ==
  ASSUME TypeOK, NEW s \in Statements, IngestInv(s),
         \/ Prepare(s) \/ (\E api \in {"execute", "update"} : ExecuteBound(s, api) \/ ExecutePlain(s, api))
         \/ CreatePrepared(s) \/ BoundRows(s) \/ RunBatch(s) \/ BatchDone(s) \/ RunPlain(s) \/ IngestRejected(s)
  PROVE  OwnMove(s) /\ UNCHANGED <<options, tableVars>>
<1>0. pc[s] # "idle" => result[s].kind = "none"
  BY DEF IngestInv
<1>1. NoResult.kind = "none"
  BY DEF NoResult
<1>2. CASE Prepare(s)
  <2>1. pc'[s] = "prepare" /\ result'[s] = NoResult /\ OthersCalls(s) /\ UNCHANGED <<options, tableVars>>
    BY <1>2 DEF Prepare, stmtVars, Enter, TypeOK, OthersCalls
  <2> QED BY <1>1, <2>1 DEF OwnMove
<1>3. ASSUME NEW api \in {"execute", "update"}, ExecuteBound(s, api)
      PROVE  OwnMove(s) /\ UNCHANGED <<options, tableVars>>
  <2>1. /\ pc'[s] \in {"prepare", "bound_rows"} /\ result'[s] = NoResult /\ OthersCalls(s)
        /\ UNCHANGED <<options, tableVars>>
    BY <1>3 DEF ExecuteBound, Enter, TypeOK, OthersCalls
  <2> QED BY <1>1, <2>1 DEF OwnMove
<1>4. ASSUME NEW api \in {"execute", "update"}, ExecutePlain(s, api)
      PROVE  OwnMove(s) /\ UNCHANGED <<options, tableVars>>
  <2>1. pc'[s] = "plain" /\ result'[s] = NoResult /\ OthersCalls(s) /\ UNCHANGED <<options, tableVars>>
    BY <1>4 DEF ExecutePlain, stmtVars, Enter, TypeOK, OthersCalls
  <2> QED BY <1>1, <2>1 DEF OwnMove
<1>5. CASE CreatePrepared(s)
  <2>1. pc[s] = "prepare" /\ UNCHANGED <<options, tableVars>>
    BY <1>5 DEF CreatePrepared
  <2>2. (\E kind : Finish(s, kind, 0)) \/ (pc'[s] = "bound_rows" /\ result'[s] = result[s] /\ OthersCalls(s))
    BY <1>5 DEF CreatePrepared, Goto, TypeOK, OthersCalls
  <2> QED BY <1>0, <2>1, <2>2, FinishMoves DEF OwnMove
<1>6. CASE BoundRows(s)
  <2>1. pc[s] = "bound_rows" /\ UNCHANGED <<options, tableVars>>
    BY <1>6 DEF BoundRows, stmtVars
  <2>2. (\E kind : Finish(s, kind, 0)) \/ (pc'[s] = "lock" /\ result'[s] = result[s] /\ OthersCalls(s))
    BY <1>6 DEF BoundRows, Goto, TypeOK, OthersCalls
  <2> QED BY <1>0, <2>1, <2>2, FinishMoves DEF OwnMove
<1>7. CASE RunBatch(s)
  <2>1. /\ pc[s] = "lock" /\ pc'[s] = "running" /\ result'[s] = result[s] /\ OthersCalls(s)
        /\ UNCHANGED <<options, tableVars>>
    BY <1>7 DEF RunBatch, stmtVars, Goto, TypeOK, OthersCalls
  <2> QED BY <1>0, <2>1 DEF OwnMove
<1>8. CASE BatchDone(s)
  <2>1. (\E kind, count : Finish(s, kind, count)) /\ UNCHANGED <<options, tableVars>>
    BY <1>8 DEF BatchDone, stmtVars
  <2> QED BY <2>1, FinishMoves DEF OwnMove
<1>9. CASE RunPlain(s)
  <2>1. (\E kind : Finish(s, kind, 0)) /\ UNCHANGED <<options, tableVars>>
    BY <1>9 DEF RunPlain, stmtVars
  <2> QED BY <2>1, FinishMoves DEF OwnMove
<1>10. CASE IngestRejected(s)
  <2>1. Finish(s, "err", 0) /\ UNCHANGED <<options, tableVars>>
    BY <1>10 DEF IngestRejected, stmtVars
  <2> QED BY <2>1, FinishMoves DEF OwnMove
<1> QED BY <1>2, <1>3, <1>4, <1>5, <1>6, <1>7, <1>8, <1>9, <1>10

\* An ingest that begins knows the table.
LEMMA ExecuteIngestKnows ==
  ASSUME TypeOK, \A o \in Statements : IngestInv(o), NEW s \in Statements, NEW o \in IngestOptions,
         SetOptions(s, o), ExecuteIngest(s, o)
  PROVE  \A q \in Statements : IngestInv(q)'
<1>1. /\ options' = [options EXCEPT ![s] = o] /\ before' = [before EXCEPT ![s] = table]
      /\ shared' = [shared EXCEPT ![s] = "no"] /\ table' = table
  BY DEF SetOptions, ExecuteIngest
<1>2. /\ options'[s] = o /\ before'[s] = table
      /\ \A q \in Statements \ {s} :
           options'[q] = options[q] /\ before'[q] = before[q] /\ shared'[q] = shared[q]
  BY <1>1 DEF TypeOK
<1>3. /\ pc'[s] = "rejected" \/ (pc'[s] = "ddl" /\ OptionsAccepted(o))
      /\ result'[s] = NoResult
  BY DEF ExecuteIngest, Enter, TypeOK
<1>4. OthersCalls(s)
  BY DEF ExecuteIngest, Enter, TypeOK, OthersCalls
<1>5. IngestInv(s)'
  <2>1. o.target = "set"
    BY FfiStatementAssumption
  <2> QED BY <1>1, <1>2, <1>3, <1>4, <2>1 DEF IngestInv, IsBulkIngest, NoResult
<1>6. ASSUME NEW q \in Statements \ {s} PROVE IngestInv(q)'
  <2>1. CallSame(q)
    BY <1>2, <1>4 DEF CallSame, OthersCalls
  <2> QED BY <1>1, <1>2, <2>1, IngestSame
<1> QED BY <1>5, <1>6

\* Whoever writes the table tells the other ingests.
LEMMA WriteTableTells ==
  ASSUME TypeOK, \A o \in Statements : IngestInv(o), NEW s \in Statements, NEW t, WriteTable(s, t),
         \A o \in Statements \ {s} : CallSame(o)
  PROVE  /\ table' = t /\ shared'[s] = shared[s]
         /\ \A o \in Statements \ {s} : IngestInv(o)'
<1>1. /\ table' = t
      /\ \A o \in Statements :
           shared'[o] = IF o # s /\ t # table /\ pc[o] \in {"ddl", "import"} THEN "yes" ELSE shared[o]
  BY DEF WriteTable
<1>2. ASSUME NEW o \in Statements \ {s} PROVE IngestInv(o)'
  <2>1. CASE t = table
    BY <1>1, <2>1, IngestSame
  <2>2. CASE t # table /\ pc[o] \in {"ddl", "import"}
    BY <1>1, <2>2, IngestSame
  <2>3. CASE pc[o] \notin {"ddl", "import"}
    BY <2>3, IngestSame
  <2> QED BY <2>1, <2>2, <2>3
<1> QED BY <1>1, <1>2

\* The DDL makes of the table what its mode says.
LEMMA IngestDdlKnows ==
  ASSUME TypeOK, \A o \in Statements : IngestInv(o), NEW s \in Statements, IngestDdl(s)
  PROVE  \A o \in Statements : IngestInv(o)'
<1> DEFINE m == IngestMode(options[s])
<1>1. pc[s] = "ddl" /\ options' = options /\ IngestInv(s)
  BY DEF IngestDdl, stmtVars
<1>2. CASE m = "append"
  <2>1. Goto(s, "import") /\ UNCHANGED <<before, shared, table>>
    BY <1>2 DEF IngestDdl, tableVars
  <2>2. /\ pc'[s] = "import" /\ result'[s] = result[s]
        /\ \A o \in Statements \ {s} : CallSame(o)
    BY <1>1, <2>1, FinishMoves, GotoMoves DEF CallSame, OthersCalls
  <2>3. IngestInv(s)'
    BY <1>1, <1>2, <2>1, <2>2 DEF IngestInv, Made, IsBulkIngest
  <2> QED BY <2>1, <2>2, <2>3, IngestSame
<1>3. CASE m # "append"
  <2>1. PICK answer \in Answers, i \in DOMAIN DdlSteps(s) :
          /\ answer = "ok" => i = Len(DdlSteps(s)) /\ (m = "create" => table = Absent)
          /\ WriteTable(s, DdlSteps(s)[i])
          /\ UNCHANGED before
          /\ IF answer = "ok" THEN Goto(s, "import") ELSE Finish(s, "err", 0)
    BY <1>3 DEF IngestDdl
  <2>2. /\ \A o \in Statements \ {s} : CallSame(o)
        /\ answer = "ok" => pc'[s] = "import" /\ result'[s] = result[s]
        /\ answer # "ok" => pc'[s] = "idle"
    BY <1>1, <2>1, FinishMoves, GotoMoves DEF CallSame, OthersCalls
  <2>3. PICK t : t = DdlSteps(s)[i]
    OBVIOUS
  <2>4. /\ table' = t /\ shared'[s] = shared[s]
        /\ \A o \in Statements \ {s} : IngestInv(o)'
    BY <2>1, <2>2, <2>3, WriteTableTells
  <2>5. IngestInv(s)'
    <3>1. CASE answer # "ok"
      BY <2>2, <3>1 DEF IngestInv
    <3>2. CASE answer = "ok" /\ shared[s] = "no"
      <4>1. table = before[s] /\ OptionsAccepted(options[s]) /\ IsBulkIngest(s) /\ result[s].kind = "none"
        BY <1>1, <3>2 DEF IngestInv
      <4>2. t = DdlSteps(s)[Len(DdlSteps(s))]
        BY <2>1, <2>3, <3>2
      <4>3. m \in {"create", "create_append", "replace"}
        BY <1>3, <4>1 DEF OptionsAccepted
      <4>4. m = "create" => table = Absent /\ t = Table({})
        BY <2>1, <3>2, <4>2 DEF DdlSteps
      <4>5. m = "create_append" => t = IF table = Absent THEN Table({}) ELSE table
        BY <4>2 DEF DdlSteps
      <4>6. m = "replace" => t = Table({})
        BY <4>2 DEF DdlSteps
      <4>7. Made(s)'
        BY <1>1, <1>3, <2>1, <2>4, <4>1, <4>3, <4>4, <4>5, <4>6 DEF Made
      <4> QED BY <1>1, <2>2, <3>2, <4>1, <4>7 DEF IngestInv, IsBulkIngest
    <3>3. CASE answer = "ok" /\ shared[s] # "no"
      BY <1>1, <2>2, <2>4, <3>3 DEF IngestInv, IsBulkIngest
    <3> QED BY <3>1, <3>2, <3>3
  <2> QED BY <2>4, <2>5
<1> QED BY <1>2, <1>3

\* The import ends the ingest.
LEMMA IngestImportKnows ==
  ASSUME TypeOK, \A o \in Statements : IngestInv(o), NEW s \in Statements, IngestImport(s)
  PROVE  \A o \in Statements : IngestInv(o)'
<1>1. options' = options
  BY DEF IngestImport, stmtVars
<1>2. PICK t, kind, count : /\ WriteTable(s, t) /\ before' = [before EXCEPT ![s] = Absent]
                            /\ Finish(s, kind, count)
  BY DEF IngestImport
<1>3. pc'[s] = "idle" /\ \A o \in Statements \ {s} : CallSame(o)
  BY <1>1, <1>2, FinishMoves, GotoMoves DEF CallSame, OthersCalls, TypeOK
<1>4. \A o \in Statements \ {s} : IngestInv(o)'
  BY <1>2, <1>3, WriteTableTells
<1>5. IngestInv(s)'
  BY <1>3 DEF IngestInv
<1> QED BY <1>4, <1>5

\* Every step keeps what the ingests know.
LEMMA IngestInductive ==
  IInv /\ (\A o \in Statements : IngestInv(o)) /\ [Next]_vars => (\A o \in Statements : IngestInv(o)')
<1> SUFFICES ASSUME IInv, \A o \in Statements : IngestInv(o), [Next]_vars
             PROVE  \A o \in Statements : IngestInv(o)'
  OBVIOUS
<1>1. TypeOK
  BY DEF IInv
<1>2. CASE UNCHANGED vars
  BY <1>2, QuietKeeps DEF vars, stmtVars
<1>3. CASE BatchStep /\ UNCHANGED <<stmtVars, callVars, tableVars, calls>>
  BY <1>3, QuietKeeps DEF stmtVars
<1>4. ASSUME NEW s \in Statements,
             \/ \E t \in uses[s].texts : SetSqlQuery(s, t)
             \/ \E b \in uses[s].batches : Bind(s, b)
             \/ BindEmptyStream(s)
      PROVE  \A o \in Statements : IngestInv(o)'
  <2>1. UNCHANGED <<options, callVars, tableVars>>
    BY <1>4 DEF SetSqlQuery, Bind, BindEmptyStream
  <2> QED BY <2>1, QuietKeeps
<1>5. ASSUME NEW s \in Statements,
             \/ Prepare(s) \/ (\E api \in {"execute", "update"} : ExecuteBound(s, api) \/ ExecutePlain(s, api))
             \/ CreatePrepared(s) \/ BoundRows(s) \/ RunBatch(s) \/ BatchDone(s) \/ RunPlain(s) \/ IngestRejected(s)
      PROVE  \A o \in Statements : IngestInv(o)'
  BY <1>1, <1>5, TextCallsMove, OwnMoveKeeps
<1>6. ASSUME NEW s \in Statements, \E o \in uses[s].options : SetOptions(s, o) /\ ExecuteIngest(s, o)
      PROVE  \A o \in Statements : IngestInv(o)'
  <2>1. uses[s].options \subseteq IngestOptions
    BY <1>1, FfiStatementAssumption DEF TypeOK
  <2> QED BY <1>1, <1>6, <2>1, ExecuteIngestKnows
<1>7. ASSUME NEW s \in Statements, IngestDdl(s) \/ IngestImport(s)
      PROVE  \A o \in Statements : IngestInv(o)'
  BY <1>1, <1>7, IngestDdlKnows, IngestImportKnows
<1> QED BY <1>2, <1>3, <1>4, <1>5, <1>6, <1>7 DEF Next, Step

\* A call that was at its import and now has a result has taken the import's step.
LEMMA OnlyImportReturns ==
  ASSUME IInv, [Next]_vars, NEW s \in Statements, pc[s] = "import", IngestInv(s), result'[s].kind = "ok"
  PROVE  IngestImport(s)
<1>1. TypeOK /\ result[s].kind = "none"
  BY DEF IInv, IngestInv
<1>2. result'[s] # result[s]
  BY <1>1
<1>3. ~ UNCHANGED result
  BY <1>2
<1>4. PICK o \in Statements :
        \/ Prepare(o) \/ (\E api \in {"execute", "update"} : ExecuteBound(o, api) \/ ExecutePlain(o, api))
        \/ (\E q \in uses[o].options : SetOptions(o, q) /\ ExecuteIngest(o, q))
        \/ CreatePrepared(o) \/ BoundRows(o) \/ RunBatch(o) \/ BatchDone(o) \/ RunPlain(o) \/ IngestRejected(o)
        \/ IngestDdl(o) \/ IngestImport(o)
  BY <1>3 DEF Next, Step, vars, callVars, SetSqlQuery, Bind, BindEmptyStream
<1>5. CASE o = s
  BY <1>4, <1>5 DEF Prepare, ExecuteBound, ExecutePlain, ExecuteIngest, Enter, CreatePrepared, BoundRows, RunBatch,
                    BatchDone, RunPlain, IngestRejected, IngestDdl
<1>6. CASE o # s
  <2>1. result' = [result EXCEPT ![o] = result'[o]]
    <3>1. CASE \/ Prepare(o) \/ (\E api \in {"execute", "update"} : ExecuteBound(o, api) \/ ExecutePlain(o, api))
               \/ (\E q \in uses[o].options : SetOptions(o, q) /\ ExecuteIngest(o, q))
      BY <1>1, <3>1 DEF Prepare, ExecuteBound, ExecutePlain, ExecuteIngest, Enter, TypeOK
    <3>2. CASE CreatePrepared(o) \/ BoundRows(o) \/ RunBatch(o) \/ BatchDone(o)
      BY <1>1, <3>2 DEF CreatePrepared, BoundRows, RunBatch, BatchDone, Finish, Goto, TypeOK
    <3>3. CASE RunPlain(o) \/ IngestRejected(o) \/ IngestDdl(o) \/ IngestImport(o)
      BY <1>1, <3>3 DEF RunPlain, IngestRejected, IngestDdl, IngestImport, Finish, Goto, TypeOK
    <3> QED BY <1>4, <3>1, <3>2, <3>3
  <2> QED BY <1>1, <1>2, <1>6, <2>1 DEF TypeOK
<1> QED BY <1>5, <1>6

\* An ingest that succeeds undisturbed leaves what its mode says.
LEMMA IngestStepMeans ==
  IInv /\ (\A o \in Statements : IngestInv(o)) /\ [Next]_vars => IngestMeansMode
<1> SUFFICES ASSUME IInv, \A o \in Statements : IngestInv(o), [Next]_vars,
                    NEW s \in Statements, pc[s] = "import", result'[s].kind = "ok", shared[s] = "no"
             PROVE  /\ table' = IngestLeaves(s, call[s].bind)
                    /\ IngestMode(options[s]) = "create" => before[s] = Absent
                    /\ IngestMode(options[s]) = "append" => before[s] # Absent
  BY DEF IngestMeansMode
<1>1. TypeOK /\ IngestInv(s) /\ IngestImport(s)
  BY OnlyImportReturns DEF IInv
<1>2. Made(s) /\ OptionsAccepted(options[s])
  BY <1>1 DEF IngestInv
<1>3. PICK answer \in Answers, done \in {"yes", "no"} :
        /\ answer = "ok" => done = "yes"
        /\ table = Absent => done = "no"
        /\ WriteTable(s, IF done = "yes" THEN Table(table.rows \cup {call[s].bind}) ELSE table)
        /\ IF answer = "ok" THEN Finish(s, "ok", Rows(binds[call[s].bind])) ELSE Finish(s, "err", 0)
  BY <1>1 DEF IngestImport
<1>4. answer = "ok"
  <2>1. answer # "ok" => result'[s].kind = "err"
    BY <1>1, <1>3 DEF Finish, TypeOK
  <2> QED BY <2>1
<1>5. table # Absent /\ table' = Table(table.rows \cup {call[s].bind})
  BY <1>3, <1>4 DEF WriteTable
<1>6. IngestMode(options[s]) \in {"create", "append", "create_append", "replace"}
  BY <1>2 DEF OptionsAccepted
<1>7. Absent.rows = {} /\ Table({}).rows = {}
  BY DEF Absent, Table
<1>8. CASE IngestMode(options[s]) = "replace"
  BY <1>2, <1>5, <1>7, <1>8 DEF Made, IngestLeaves
<1>9. CASE IngestMode(options[s]) # "replace"
  <2>1. table.rows = before[s].rows
    BY <1>2, <1>6, <1>7, <1>9 DEF Made
  <2>2. table' = IngestLeaves(s, call[s].bind)
    BY <1>5, <1>9, <2>1 DEF IngestLeaves
  <2> QED BY <1>2, <1>5, <2>2 DEF Made
<1> QED BY <1>8, <1>9

-----------------------------------------------------------------------------
(* Which text is executed                                                  *)

\* A prepared statement belongs to the text of its statement.
TextInv(s) == prepared[s] # 0 => handles[prepared[s]] = sql[s]

\* The connection is locked exactly for the statement whose batch runs.
HolderInv(s) ==
  /\ pc[s] = "running" <=> (phase # "free" /\ job.stmt = s)
  /\ pc[s] = "running" => job.bind = call[s].bind /\ job.handle = prepared[s]

\* A step of s outside its batch.
OwnStep(s) ==
  /\ \A o \in Statements \ {s} :
       pc'[o] = pc[o] /\ call'[o] = call[o] /\ sql'[o] = sql[o] /\ prepared'[o] = prepared[o]
  /\ pc[s] # "running" /\ pc'[s] # "running"
  /\ UNCHANGED <<phase, job>>
  /\ \A i \in 1 .. Len(handles) : handles'[i] = handles[i]

\* Such a step keeps the texts and the holder of the connection.
LEMMA OwnStepKeeps ==
  ASSUME IInv, \A o \in Statements : TextInv(o) /\ HolderInv(o), NEW s \in Statements, OwnStep(s), TextInv(s)'
  PROVE  \A o \in Statements : TextInv(o)' /\ HolderInv(o)'
<1>1. TypeOK
  BY DEF IInv
<1>2. HolderInv(s)'
  BY DEF OwnStep, HolderInv
<1>3. ASSUME NEW o \in Statements \ {s} PROVE TextInv(o)' /\ HolderInv(o)'
  <2>1. prepared[o] \in 0 .. Len(handles) /\ Len(handles) \in Nat
    BY <1>1 DEF TypeOK, BatchTypeOK, ServerTypeOK
  <2>2. TextInv(o)'
    BY <2>1 DEF OwnStep, TextInv
  <2>3. HolderInv(o)'
    BY DEF OwnStep, HolderInv
  <2> QED BY <2>2, <2>3
<1> QED BY <1>2, <1>3

\* The steps that change neither a text nor a prepared statement.
LEMMA PlainStepsOwn ==
  ASSUME IInv, NEW s \in Statements, TextInv(s),
         \/ (\E b \in uses[s].batches : Bind(s, b)) \/ BindEmptyStream(s) \/ Prepare(s)
         \/ (\E api \in {"execute", "update"} : ExecuteBound(s, api) \/ ExecutePlain(s, api))
         \/ (\E o \in uses[s].options : SetOptions(s, o) /\ ExecuteIngest(s, o))
         \/ BoundRows(s) \/ RunPlain(s) \/ IngestRejected(s) \/ IngestDdl(s) \/ IngestImport(s)
  PROVE  OwnStep(s) /\ TextInv(s)'
<1>1. UNCHANGED <<sql, prepared, handles, phase, job>>
  BY DEF Bind, BindEmptyStream, Prepare, ExecuteBound, ExecutePlain, ExecuteIngest, BoundRows, RunPlain,
         IngestRejected, IngestDdl, IngestImport, stmtVars, batchVars
<1>2. TextInv(s)'
  BY <1>1 DEF TextInv
<1>3. TypeOK
  BY DEF IInv
<1>4. /\ \A o \in Statements \ {s} : pc'[o] = pc[o] /\ call'[o] = call[o]
      /\ pc[s] # "running" /\ pc'[s] # "running"
  <2>1. CASE (\E b \in uses[s].batches : Bind(s, b)) \/ BindEmptyStream(s)
    BY <2>1 DEF Bind, BindEmptyStream, callVars
  <2>2. CASE \/ Prepare(s) \/ (\E api \in {"execute", "update"} : ExecuteBound(s, api) \/ ExecutePlain(s, api))
             \/ (\E o \in uses[s].options : SetOptions(s, o) /\ ExecuteIngest(s, o))
    BY <1>3, <2>2 DEF Prepare, ExecuteBound, ExecutePlain, ExecuteIngest, Enter, TypeOK
  <2>3. CASE BoundRows(s) \/ RunPlain(s) \/ IngestRejected(s)
    BY <1>3, <2>3 DEF BoundRows, RunPlain, IngestRejected, Finish, Goto, TypeOK
  <2>4. CASE IngestDdl(s) \/ IngestImport(s)
    BY <1>3, <2>4 DEF IngestDdl, IngestImport, Finish, Goto, TypeOK
  <2> QED BY <2>1, <2>2, <2>3, <2>4
<1>5. OwnStep(s)
  BY <1>1, <1>4 DEF OwnStep
<1> QED BY <1>2, <1>5

\* set_sql_query drops the prepared statement of another text.
LEMMA SetSqlQueryOwn ==
  ASSUME IInv, NEW s \in Statements, TextInv(s), NEW t, SetSqlQuery(s, t)
  PROVE  OwnStep(s) /\ TextInv(s)'
<1>1. TypeOK
  BY DEF IInv
<1>2. OwnStep(s)
  BY <1>1 DEF SetSqlQuery, callVars, batchVars, OwnStep, TypeOK
<1>3. TextInv(s)'
  BY <1>1 DEF SetSqlQuery, TextInv, TypeOK
<1> QED BY <1>2, <1>3

\* A prepared statement is made for the text of its statement.
LEMMA CreatePreparedOwn ==
  ASSUME IInv, NEW s \in Statements, TextInv(s), CreatePrepared(s)
  PROVE  OwnStep(s) /\ TextInv(s)'
<1>1. TypeOK /\ handles \in Seq(Texts) /\ Len(handles) \in Nat
  BY DEF IInv, TypeOK, BatchTypeOK, ServerTypeOK
<1>2. /\ \/ handles' = Append(handles, sql[s]) /\ prepared' = [prepared EXCEPT ![s] = Len(handles) + 1]
         \/ UNCHANGED <<handles, prepared>>
      /\ UNCHANGED <<sql, phase, job>> /\ pc[s] = "prepare"
  BY DEF CreatePrepared, batchVars
<1>3. pc'[s] # "running" /\ \A o \in Statements \ {s} : pc'[o] = pc[o] /\ call'[o] = call[o]
  BY <1>1 DEF CreatePrepared, Finish, Goto, TypeOK
<1>4. CASE UNCHANGED <<handles, prepared>>
  BY <1>2, <1>3, <1>4 DEF OwnStep, TextInv
<1>5. CASE handles' = Append(handles, sql[s]) /\ prepared' = [prepared EXCEPT ![s] = Len(handles) + 1]
  <2>1. sql[s] \in Texts
    BY <1>2 DEF IInv, CallInv
  <2>2. handles'[Len(handles) + 1] = sql[s] /\ \A i \in 1 .. Len(handles) : handles'[i] = handles[i]
    BY <1>1, <1>5, <2>1
  <2>3. prepared'[s] = Len(handles) + 1 /\ \A o \in Statements \ {s} : prepared'[o] = prepared[o]
    BY <1>1, <1>5 DEF TypeOK
  <2> QED BY <1>2, <1>3, <2>2, <2>3 DEF OwnStep, TextInv
<1> QED BY <1>2, <1>4, <1>5

\* A batch that begins holds the connection for its statement.
LEMMA RunBatchHolds ==
  ASSUME IInv, \A o \in Statements : TextInv(o) /\ HolderInv(o), NEW s \in Statements, RunBatch(s)
  PROVE  \A o \in Statements : TextInv(o)' /\ HolderInv(o)'
<1>1. TypeOK
  BY DEF IInv
<1>2. /\ phase = "free" /\ phase' \in {"rows", "split", "done"}
      /\ job' = [stmt |-> s, bind |-> call[s].bind, handle |-> prepared[s], api |-> call[s].api]
      /\ UNCHANGED <<sql, prepared, handles, call>>
  BY DEF RunBatch, BeginBatch, Return, Goto, stmtVars
<1>3. pc'[s] = "running" /\ \A o \in Statements \ {s} : pc'[o] = pc[o]
  BY <1>1 DEF RunBatch, Goto, TypeOK
<1>4. job'.stmt = s /\ job'.bind = call[s].bind /\ job'.handle = prepared[s]
  BY <1>2
<1>5. HolderInv(s)'
  BY <1>2, <1>3, <1>4 DEF HolderInv
<1>6. ASSUME NEW o \in Statements \ {s} PROVE HolderInv(o)'
  BY <1>2, <1>3, <1>4 DEF HolderInv
<1>7. \A o \in Statements : TextInv(o)'
  BY <1>2 DEF TextInv
<1> QED BY <1>5, <1>6, <1>7

\* A batch that is over gives the connection back.
LEMMA BatchDoneHolds ==
  ASSUME IInv, \A o \in Statements : TextInv(o) /\ HolderInv(o), NEW s \in Statements, BatchDone(s)
  PROVE  \A o \in Statements : TextInv(o)' /\ HolderInv(o)'
<1>1. TypeOK
  BY DEF IInv
<1>2. pc[s] = "running" /\ phase' = "free" /\ UNCHANGED <<sql, prepared, handles>>
  BY DEF BatchDone, ReleaseBatch, stmtVars
<1>3. pc'[s] = "idle" /\ \A o \in Statements \ {s} : pc'[o] = pc[o]
  BY <1>1 DEF BatchDone, Finish, TypeOK
<1>4. job.stmt = s
  BY <1>2 DEF HolderInv
<1>5. ASSUME NEW o \in Statements PROVE HolderInv(o)'
  <2>1. pc'[o] # "running"
    BY <1>3, <1>4 DEF HolderInv
  <2> QED BY <1>2, <2>1 DEF HolderInv
<1>6. \A o \in Statements : TextInv(o)'
  BY <1>2 DEF TextInv
<1> QED BY <1>5, <1>6

\* A batch that runs keeps the connection.
LEMMA BatchStepHolds ==
  ASSUME \A o \in Statements : TextInv(o) /\ HolderInv(o), BatchStep, UNCHANGED <<stmtVars, callVars>>
  PROVE  \A o \in Statements : TextInv(o)' /\ HolderInv(o)'
<1>1. phase # "free" /\ phase' # "free" /\ UNCHANGED <<handles, job>>
  BY DEF BatchStep, SplitRow, SplitDone, SendRange, RunRow, Return
<1>2. UNCHANGED <<sql, prepared, pc, call>>
  BY DEF stmtVars, callVars
<1> QED BY <1>1, <1>2 DEF TextInv, HolderInv

\* Every step keeps the texts and the holder of the connection.
LEMMA TextInductive ==
  IInv /\ (\A o \in Statements : TextInv(o) /\ HolderInv(o)) /\ [Next]_vars
    => (\A o \in Statements : TextInv(o)' /\ HolderInv(o)')
<1> SUFFICES ASSUME IInv, \A o \in Statements : TextInv(o) /\ HolderInv(o), [Next]_vars
             PROVE  \A o \in Statements : TextInv(o)' /\ HolderInv(o)'
  OBVIOUS
<1>1. CASE UNCHANGED vars
  BY <1>1 DEF vars, stmtVars, callVars, batchVars, TextInv, HolderInv
<1>2. CASE BatchStep /\ UNCHANGED <<stmtVars, callVars, tableVars, calls>>
  BY <1>2, BatchStepHolds
<1>3. ASSUME NEW s \in Statements, \E t \in uses[s].texts : SetSqlQuery(s, t)
      PROVE  \A o \in Statements : TextInv(o)' /\ HolderInv(o)'
  BY <1>3, SetSqlQueryOwn, OwnStepKeeps
<1>4. ASSUME NEW s \in Statements,
             \/ (\E b \in uses[s].batches : Bind(s, b)) \/ BindEmptyStream(s) \/ Prepare(s)
             \/ (\E api \in {"execute", "update"} : ExecuteBound(s, api) \/ ExecutePlain(s, api))
             \/ (\E o \in uses[s].options : SetOptions(s, o) /\ ExecuteIngest(s, o))
             \/ BoundRows(s) \/ RunPlain(s) \/ IngestRejected(s) \/ IngestDdl(s) \/ IngestImport(s)
      PROVE  \A o \in Statements : TextInv(o)' /\ HolderInv(o)'
  BY <1>4, PlainStepsOwn, OwnStepKeeps
<1>5. ASSUME NEW s \in Statements, CreatePrepared(s)
      PROVE  \A o \in Statements : TextInv(o)' /\ HolderInv(o)'
  BY <1>5, CreatePreparedOwn, OwnStepKeeps
<1>6. ASSUME NEW s \in Statements, RunBatch(s) \/ BatchDone(s)
      PROVE  \A o \in Statements : TextInv(o)' /\ HolderInv(o)'
  BY <1>6, RunBatchHolds, BatchDoneHolds
<1> QED BY <1>1, <1>2, <1>3, <1>4, <1>5, <1>6 DEF Next, Step

\* A request is made for the statement that holds the connection, with its text.
LEMMA TextStepMeans ==
  IInv /\ (\A o \in Statements : TextInv(o) /\ HolderInv(o)) /\ [Next]_vars => ExecutesSql
<1> SUFFICES ASSUME IInv, \A o \in Statements : TextInv(o) /\ HolderInv(o), [Next]_vars, Len(log') > Len(log)
             PROVE  log'[Len(log')].text = sql[log'[Len(log')].stmt]
  BY DEF ExecutesSql
<1>1. log \in Seq(Requests) /\ Len(log) \in Nat
  BY DEF IInv, TypeOK, BatchTypeOK, ServerTypeOK
<1>2. ~ UNCHANGED log
  BY <1>1
<1>3. SendRange \/ RunRow \/ \E s \in Statements : RunPlain(s)
  BY <1>2 DEF Next, Step, BatchStep, vars, serverVars, SplitRow, SplitDone, SetSqlQuery, Bind, BindEmptyStream,
              Prepare, ExecuteBound, ExecutePlain, ExecuteIngest, CreatePrepared, BoundRows, RunBatch, BatchDone,
              IngestRejected, IngestDdl, IngestImport
<1>4. ASSUME NEW e, log' = Append(log, e), e.text = sql[e.stmt]
      PROVE  log'[Len(log')].text = sql[log'[Len(log')].stmt]
  <2>1. log'[Len(log')] = e
    BY <1>1, <1>4
  <2> QED BY <1>4, <2>1
<1>5. ASSUME NEW s \in Statements, RunPlain(s) PROVE log'[Len(log')].text = sql[log'[Len(log')].stmt]
  <2>1. PICK a, d : log' = Append(log, [stmt |-> s, bind |-> 0, text |-> sql[s], first |-> 0, last |-> 0,
                                        answer |-> a, done |-> d])
    BY <1>5 DEF RunPlain
  <2>2. PICK e : e = [stmt |-> s, bind |-> 0, text |-> sql[s], first |-> 0, last |-> 0, answer |-> a, done |-> d]
    OBVIOUS
  <2>3. log' = Append(log, e) /\ e.text = sql[e.stmt]
    BY <2>1, <2>2
  <2> QED BY <1>4, <2>3
<1>6. ASSUME SendRange \/ RunRow PROVE log'[Len(log')].text = sql[log'[Len(log')].stmt]
  <2>1. phase # "free" /\ job.stmt \in Statements /\ job.handle # 0
    BY <1>6 DEF SendRange, RunRow, IInv, JobInv
  <2>2. job.handle = prepared[job.stmt] /\ handles[prepared[job.stmt]] = sql[job.stmt]
    BY <2>1 DEF TextInv, HolderInv
  <2>3. PICK f, l, a : Request(f, l, a)
    BY <1>2, <1>6 DEF SendRange, RunRow
  <2>4. PICK d \in {"yes", "no"} :
          log' = Append(log, [stmt |-> job.stmt, bind |-> job.bind, text |-> text, first |-> f,
                              last |-> l, answer |-> a, done |-> d])
    BY <2>3 DEF Request
  <2>5. PICK e : e = [stmt |-> job.stmt, bind |-> job.bind, text |-> text, first |-> f, last |-> l,
                      answer |-> a, done |-> d]
    OBVIOUS
  <2>6. e.text = text /\ e.stmt = job.stmt /\ log' = Append(log, e)
    BY <2>4, <2>5
  <2>7. e.text = sql[e.stmt]
    BY <2>2, <2>6 DEF text
  <2> QED BY <1>4, <2>6, <2>7
<1> QED BY <1>3, <1>5, <1>6

\* The invariants so far.
Known == IInv /\ \A s \in Statements : IngestInv(s) /\ TextInv(s) /\ HolderInv(s)

\* They hold in every state.
LEMMA KnownAlways == Spec => []Known
<1>1. Init => Known
  <2> SUFFICES ASSUME Init PROVE Known
    OBVIOUS
  <2>1. IInv
    BY InitInv
  <2>2. \A s \in Statements : IngestInv(s)
    BY DEF Init, BatchInit, IngestInv, NoResult
  <2>3. \A s \in Statements : TextInv(s) /\ HolderInv(s)
    BY DEF Init, BatchInit, TextInv, HolderInv
  <2> QED BY <2>1, <2>2, <2>3 DEF Known
<1>2. Known /\ [Next]_vars => Known'
  BY Inductive, IngestInductive, TextInductive DEF Known
<1> QED BY <1>1, <1>2, PTL DEF Spec

\* A call does what its statement was set up for (set_sql_query, set_option): the text
\* that is executed is the one the statement has, and an ingest that nobody disturbs
\* leaves what its mode says, for any number of statements, texts, binds and calls.
THEOREM CallsDoAsSetUp == Spec => CallsAsSetUp
<1>1. Known /\ [Next]_vars => [ExecutesSql /\ IngestMeansMode]_vars
  BY IngestStepMeans, TextStepMeans DEF Known
<1> QED BY <1>1, KnownAlways, PTL DEF Spec, CallsAsSetUp

-----------------------------------------------------------------------------
(* A bound batch is executed as one                                        *)

\* Nothing was requested for bind b.
NotYet(b) == \A i \in 1 .. Len(log) : log[i].bind # b

\* The last request executed rows of bind b, up to row n.
LastIs(b, n) ==
  /\ Len(log) > 0
  /\ log[Len(log)].bind = b /\ log[Len(log)].last = n /\ log[Len(log)].answer = "ok"

\* The first n rows of bind b were executed, and no other.
Upto(b, n) == IF n = 0 THEN NotYet(b) ELSE LastIs(b, n)

\* A bind belongs to one statement or call, and nothing is requested for it before its
\* batch runs.
FreshInv(s) ==
  /\ bound[s] # 0 =>
       /\ NotYet(bound[s])
       /\ \A o \in Statements : bound[s] # call[o].bind /\ (s # o => bound[s] # bound[o])
  /\ call[s].bind # 0 =>
       /\ pc[s] \notin {"idle", "plain"}
       /\ pc[s] # "running" => NotYet(call[s].bind)
       /\ \A o \in Statements \ {s} : call[s].bind # call[o].bind
  /\ pc[s] = "prepare" /\ call[s].api = "prepare" => call[s].bind = 0

\* A batch that is run has rows, and all its values were converted.
CanSend(b) == Rows(b) > 0 /\ (b.bad # 0 => b.stage = "encode")
ReadyInv(s) == pc[s] \in {"lock", "running"} => CanSend(binds[call[s].bind])

\* What OkMeansEveryRow says of one statement.
OkHere(s) ==
  result[s].kind = "ok" /\ result[s].bind # 0 /\ ~IsBulkIngest(s) /\ Rows(binds[result[s].bind]) > 0 =>
    /\ result[s].count = Rows(binds[result[s].bind])
    /\ \E i \in 1 .. Len(log) :
         log[i].bind = result[s].bind /\ log[i].last = result[s].count /\ log[i].answer = "ok"

\* The ranges are consecutive, from the first row.
End(n) == IF n = 0 THEN 0 ELSE ranges[n].last
Chain == \A i \in 1 .. Len(ranges) : ranges[i].first = End(i - 1) /\ ranges[i].first < ranges[i].last

\* How far the batch that runs has come.
RowsProgress == phase = "rows" => row < Rows(data) /\ affected = row /\ Upto(job.bind, row)
SplitProgress ==
  phase = "split" =>
    /\ NotYet(job.bind) /\ affected = 0
    /\ Chain /\ first_row = End(Len(ranges)) /\ (row # 0 => first_row < row)
    /\ data.bad # 0 => row < data.bad
SendProgress ==
  phase = "send" =>
    /\ Chain /\ End(Len(ranges)) = Rows(data) /\ data.bad = 0
    /\ affected = End(sent) /\ Upto(job.bind, affected)
DoneProgress ==
  phase = "done" /\ outcome.kind = "ok" => LastIs(job.bind, Rows(data)) /\ outcome.count = Rows(data)
ProgressInv ==
  /\ phase = "free" => affected = 0
  /\ phase \in {"rows", "split", "send"} => data.cols = text.params
  /\ RowsProgress /\ SplitProgress /\ SendProgress /\ DoneProgress

\* What the log shows.
LogExact == RowsInOrder /\ BatchContiguous /\ RejectedSendsNothing

\* The inductive invariant behind BatchesExact, beside those above.
ExactInv ==
  /\ \A s \in Statements : FreshInv(s) /\ ReadyInv(s) /\ OkHere(s)
  /\ ProgressInv
  /\ LogExact

\* No request for a bound batch is added.
QuietLog ==
  /\ Len(log') >= Len(log) /\ \A i \in 1 .. Len(log) : log'[i] = log[i]
  /\ \A i \in 1 .. Len(log') : log'[i].bind = 0 \/ \E j \in 1 .. Len(log) : log'[i].bind = log[j].bind

\* A step of the call of s outside its batch.
Moves(s) ==
  /\ \A o \in Statements \ {s} :
       /\ pc'[o] = pc[o] /\ call'[o] = call[o] /\ result'[o] = result[o] /\ bound'[o] = bound[o]
       /\ options'[o] = options[o]
  /\ bound'[s] \in {0, bound[s]}
  /\ call'[s].bind \in {0, call[s].bind} \/ (call'[s].bind = bound[s] /\ bound'[s] = 0)
  /\ call'[s].bind # 0 => pc'[s] \notin {"idle", "plain"}
  /\ pc[s] # "running" /\ pc'[s] # "running"
  /\ pc'[s] = "prepare" /\ call'[s].api = "prepare" => call'[s].bind = 0

\* It leaves every bind with one owner.
LEMMA MovesFresh ==
  ASSUME \A o \in Statements : FreshInv(o), NEW s \in Statements, Moves(s), QuietLog
  PROVE  \A o \in Statements : FreshInv(o)'
<1>1. \A b : b # 0 /\ NotYet(b) => \A i \in 1 .. Len(log') : log'[i].bind # b
  BY DEF QuietLog, NotYet
<1>2. ASSUME NEW o \in Statements, bound'[o] # 0
      PROVE  /\ NotYet(bound[o])'
             /\ \A q \in Statements : bound'[o] # call'[q].bind /\ (o # q => bound'[o] # bound'[q])
  <2>1. bound'[o] = bound[o]
    BY <1>2 DEF Moves
  <2>2. NotYet(bound[o]) /\ bound[o] # 0
    BY <1>2, <2>1 DEF FreshInv
  <2>3. NotYet(bound[o])'
    BY <1>1, <2>1, <2>2 DEF NotYet
  <2>4. ASSUME NEW q \in Statements PROVE bound'[o] # call'[q].bind
    <3>1. bound[o] # call[q].bind /\ (o # q => bound[o] # bound[q])
      BY <2>2 DEF FreshInv
    <3>2. CASE q # s
      BY <2>1, <3>1, <3>2 DEF Moves
    <3>3. CASE q = s
      BY <1>2, <2>1, <3>1, <3>3 DEF Moves
    <3> QED BY <3>2, <3>3
  <2>5. ASSUME NEW q \in Statements, o # q PROVE bound'[o] # bound'[q]
    <3>1. bound[o] # bound[q]
      BY <2>2, <2>5 DEF FreshInv
    <3> QED BY <1>2, <2>1, <3>1 DEF Moves
  <2> QED BY <2>3, <2>4, <2>5
<1>3. ASSUME NEW o \in Statements, call'[o].bind # 0
      PROVE  /\ pc'[o] \notin {"idle", "plain"}
             /\ pc'[o] # "running" => NotYet(call[o].bind)'
             /\ \A q \in Statements \ {o} : call'[o].bind # call'[q].bind
  <2>1. ASSUME pc'[o] # "running" PROVE NotYet(call[o].bind)'
    <3>1. NotYet(call'[o].bind)
      BY <1>3, <2>1 DEF Moves, FreshInv
    <3> QED BY <1>1, <1>3, <3>1 DEF NotYet
  <2>2. ASSUME NEW q \in Statements \ {o} PROVE call'[o].bind # call'[q].bind
    <3>1. CASE o # s /\ q # s
      BY <1>3, <3>1 DEF Moves, FreshInv
    <3>2. CASE o = s
      BY <1>3, <3>2 DEF Moves, FreshInv
    <3>3. CASE q = s
      BY <1>3, <3>3 DEF Moves, FreshInv
    <3> QED BY <3>1, <3>2, <3>3
  <2>3. pc'[o] \notin {"idle", "plain"}
    BY <1>3 DEF Moves, FreshInv
  <2> QED BY <2>1, <2>2, <2>3
<1>4. ASSUME NEW o \in Statements, pc'[o] = "prepare", call'[o].api = "prepare"
      PROVE  call'[o].bind = 0
  BY <1>4 DEF Moves, FreshInv
<1> QED BY <1>2, <1>3, <1>4 DEF FreshInv

\* A call that returned keeps what it reported.
LEMMA OkSame ==
  ASSUME TypeOK, TypeOK', NEW o \in Statements, OkHere(o), result'[o] = result[o], IsBulkIngest(o) => IsBulkIngest(o)',
         Len(log') >= Len(log), \A i \in 1 .. Len(log) : log'[i] = log[i],
         \A i \in 1 .. Len(binds) : binds'[i] = binds[i]
  PROVE  OkHere(o)'
<1>1. Len(log) \in Nat /\ Len(log') \in Nat /\ Len(binds) \in Nat /\ result[o].bind \in 0 .. Len(binds)
  BY DEF TypeOK, BatchTypeOK, ServerTypeOK, Binds
<1> SUFFICES ASSUME result'[o].kind = "ok", result'[o].bind # 0, ~IsBulkIngest(o)', Rows(binds'[result'[o].bind]) > 0
             PROVE  /\ result'[o].count = Rows(binds'[result'[o].bind])
                    /\ \E i \in 1 .. Len(log') :
                         /\ log'[i].bind = result'[o].bind
                         /\ log'[i].last = result'[o].count /\ log'[i].answer = "ok"
  BY DEF OkHere, Rows
<1>2. binds'[result'[o].bind] = binds[result[o].bind] /\ result[o].bind # 0
  BY <1>1
<1>3. /\ result[o].count = Rows(binds[result[o].bind])
      /\ \E i \in 1 .. Len(log) :
           log[i].bind = result[o].bind /\ log[i].last = result[o].count /\ log[i].answer = "ok"
  <2>1. result[o].kind = "ok" /\ ~IsBulkIngest(o) /\ Rows(binds[result[o].bind]) > 0
    BY <1>2
  <2> QED BY <1>2, <2>1 DEF OkHere
<1>4. PICK i \in 1 .. Len(log) :
        log[i].bind = result[o].bind /\ log[i].last = result[o].count /\ log[i].answer = "ok"
  BY <1>3
<1>5. i \in 1 .. Len(log') /\ log'[i] = log[i]
  BY <1>1
<1> QED BY <1>2, <1>3, <1>4, <1>5

\* The log shows the same while it and the binds do not change.
LEMMA LogExactSame ==
  ASSUME LogExact, UNCHANGED <<binds, log>>
  PROVE  LogExact'
<1>1. log' = log /\ binds' = binds
  OBVIOUS
<1>2. RowsInOrder'
  BY <1>1 DEF LogExact, RowsInOrder
<1>3. BatchContiguous'
  BY <1>1 DEF LogExact, BatchContiguous
<1>4. RejectedSendsNothing'
  BY <1>1 DEF LogExact, RejectedSendsNothing
<1> QED BY <1>2, <1>3, <1>4 DEF LogExact

\* The batch that runs has come as far as it had.
LEMMA ProgressSame ==
  ASSUME ProgressInv, UNCHANGED <<binds, batchVars, log>>, handles' = handles \/ phase = "free"
  PROVE  ProgressInv'
<1>1. UNCHANGED <<phase, job, row, first_row, ranges, sent, affected, outcome, log, binds>>
  BY DEF batchVars
<1>2. CASE phase = "free"
  BY <1>1, <1>2 DEF ProgressInv, RowsProgress, SplitProgress, SendProgress, DoneProgress
<1>3. CASE handles' = handles
  BY <1>1, <1>3 DEF ProgressInv, RowsProgress, SplitProgress, SendProgress, DoneProgress, data, text, Upto, NotYet,
                    LastIs, Chain, End, Rows
<1> QED BY <1>2, <1>3

\* A step of a call outside its batch, that requests nothing, keeps the invariant.
LEMMA MovesKeep ==
  ASSUME Known, TypeOK', ExactInv, NEW s \in Statements, Moves(s), UNCHANGED <<binds, batchVars, log>>,
         handles' = handles \/ phase = "free", ReadyInv(s)', OkHere(s)'
  PROVE  ExactInv'
<1>1. TypeOK /\ log \in Seq(Requests) /\ Len(log) \in Nat
  BY DEF Known, IInv, TypeOK, BatchTypeOK, ServerTypeOK
<1>2. QuietLog
  BY <1>1 DEF QuietLog
<1>3. \A o \in Statements : FreshInv(o)'
  BY <1>2, MovesFresh DEF ExactInv
<1>4. ASSUME NEW o \in Statements \ {s} PROVE ReadyInv(o)' /\ OkHere(o)'
  <2>1. ReadyInv(o)'
    BY DEF ExactInv, ReadyInv, Moves
  <2>2. result'[o] = result[o] /\ (IsBulkIngest(o) => IsBulkIngest(o)')
    BY DEF Moves, IsBulkIngest
  <2>3. OkHere(o)'
    BY <1>1, <1>2, <2>2, OkSame DEF ExactInv, QuietLog
  <2> QED BY <2>1, <2>3
<1>5. ProgressInv' /\ LogExact'
  BY ProgressSame, LogExactSame DEF ExactInv
<1> QED BY <1>3, <1>4, <1>5 DEF ExactInv

\* The statement's own operations.
LEMMA OwnStateExact ==
  ASSUME Known, TypeOK', ExactInv, NEW s \in Statements, (\E t \in uses[s].texts : SetSqlQuery(s, t)) \/ BindEmptyStream(s)
  PROVE  ExactInv'
<1>1. TypeOK /\ FreshInv(s) /\ ReadyInv(s) /\ OkHere(s)
  BY DEF Known, IInv, ExactInv
<1>2. /\ UNCHANGED <<pc, call, result, options, binds, handles, batchVars, log>> /\ pc[s] = "idle"
      /\ bound' = bound \/ bound' = [bound EXCEPT ![s] = 0]
  BY DEF SetSqlQuery, BindEmptyStream, callVars, serverVars
<1>3. Moves(s)
  BY <1>1, <1>2 DEF Moves, FreshInv, TypeOK
<1>4. ReadyInv(s)'
  BY <1>2 DEF ReadyInv
<1>5. OkHere(s)'
  BY <1>1, <1>2 DEF OkHere, IsBulkIngest
<1> QED BY <1>2, <1>3, <1>4, <1>5, MovesKeep

\* A call that begins has no result yet, and takes the bind that was bound.
LEMMA EnterExact ==
  ASSUME Known, TypeOK', ExactInv, NEW s \in Statements,
         \/ Prepare(s) \/ (\E api \in {"execute", "update"} : ExecuteBound(s, api) \/ ExecutePlain(s, api))
         \/ (\E o \in uses[s].options : SetOptions(s, o) /\ ExecuteIngest(s, o))
  PROVE  ExactInv'
<1>1. TypeOK
  BY DEF Known, IInv
<1>2. UNCHANGED <<binds, handles, batchVars, log>>
  BY DEF Prepare, ExecuteBound, ExecutePlain, ExecuteIngest, serverVars
<1>3. /\ pc[s] = "idle" /\ pc'[s] \in {"prepare", "bound_rows", "plain", "ddl", "rejected"} /\ result'[s] = NoResult
      /\ bound'[s] \in {0, bound[s]}
      /\ call'[s].bind = 0 \/ (call'[s].bind = bound[s] /\ bound'[s] = 0)
      /\ call'[s].bind # 0 => pc'[s] # "plain"
      /\ pc'[s] = "prepare" /\ call'[s].api = "prepare" => call'[s].bind = 0
  <2>1. CASE Prepare(s)
    BY <1>1, <2>1 DEF Prepare, Enter, stmtVars, TypeOK
  <2>2. ASSUME NEW api \in {"execute", "update"}, ExecuteBound(s, api) \/ ExecutePlain(s, api)
        PROVE  <1>3!:
    BY <1>1, <2>2 DEF ExecuteBound, ExecutePlain, Enter, TakeBound, stmtVars, TypeOK
  <2>3. ASSUME NEW o \in uses[s].options, SetOptions(s, o) /\ ExecuteIngest(s, o)
        PROVE  <1>3!:
    BY <1>1, <2>3 DEF ExecuteIngest, Enter, TakeBound, TypeOK
  <2> QED BY <2>1, <2>2, <2>3
<1>4. \A o \in Statements \ {s} :
        /\ pc'[o] = pc[o] /\ call'[o] = call[o] /\ result'[o] = result[o] /\ bound'[o] = bound[o]
        /\ options'[o] = options[o]
  <2>1. OthersCalls(s)
    BY <1>1 DEF Prepare, ExecuteBound, ExecutePlain, ExecuteIngest, Enter, TypeOK, OthersCalls
  <2>2. bound' = bound \/ bound' = [bound EXCEPT ![s] = 0]
    BY DEF Prepare, ExecuteBound, ExecutePlain, ExecuteIngest, TakeBound, stmtVars
  <2>3. options' = options \/ \E o : options' = [options EXCEPT ![s] = o]
    BY DEF Prepare, ExecuteBound, ExecutePlain, SetOptions, stmtVars
  <2> QED BY <1>1, <2>1, <2>2, <2>3 DEF OthersCalls, TypeOK
<1>5. Moves(s)
  BY <1>3, <1>4 DEF Moves
<1>6. ReadyInv(s)' /\ OkHere(s)'
  BY <1>3 DEF ReadyInv, OkHere, NoResult
<1> QED BY <1>2, <1>5, <1>6, MovesKeep

\* The steps of a call between its begin and its batch, and of an ingest.
LEMMA CallStepsExact ==
  ASSUME Known, TypeOK', ExactInv, NEW s \in Statements,
         CreatePrepared(s) \/ BoundRows(s) \/ IngestRejected(s) \/ IngestDdl(s) \/ IngestImport(s)
  PROVE  ExactInv'
<1>1. TypeOK /\ FreshInv(s) /\ ReadyInv(s) /\ IngestInv(s)
  BY DEF Known, IInv, ExactInv
<1>2. UNCHANGED <<binds, batchVars, log, bound, options>> /\ (handles' = handles \/ phase = "free")
  BY DEF CreatePrepared, BoundRows, IngestRejected, IngestDdl, IngestImport, stmtVars, serverVars
<1>3. /\ pc[s] \in {"prepare", "bound_rows", "ddl", "import", "rejected"}
      /\ OthersCalls(s)
      /\ \/ pc'[s] = "idle" /\ call'[s] = NoCall
         \/ pc'[s] \in {"bound_rows", "lock", "import"} /\ call'[s] = call[s] /\ result'[s] = result[s]
      /\ pc'[s] = "lock" => BoundRows(s)
  <2>1. CASE CreatePrepared(s)
    <3>1. pc[s] = "prepare"
      BY <2>1 DEF CreatePrepared
    <3>2. \/ \E kind, count : Finish(s, kind, count)
          \/ pc' = [pc EXCEPT ![s] = "bound_rows"] /\ UNCHANGED <<call, result>>
      BY <2>1 DEF CreatePrepared, Goto
    <3>3. CASE \E kind, count : Finish(s, kind, count)
      <4>1. pc'[s] = "idle" /\ call'[s] = NoCall /\ OthersCalls(s)
        BY <1>1, <3>3, FinishMoves
      <4> QED BY <3>1, <4>1
    <3>4. CASE pc' = [pc EXCEPT ![s] = "bound_rows"] /\ UNCHANGED <<call, result>>
      <4>1. pc'[s] = "bound_rows" /\ call'[s] = call[s] /\ result'[s] = result[s] /\ OthersCalls(s)
        BY <1>1, <3>4 DEF OthersCalls, TypeOK
      <4> QED BY <3>1, <4>1
    <3> QED BY <3>2, <3>3, <3>4
  <2>2. CASE BoundRows(s)
    BY <1>1, <2>2 DEF BoundRows, Finish, Goto, OthersCalls, TypeOK
  <2>3. CASE IngestRejected(s) \/ IngestImport(s)
    <3>1. pc[s] \in {"import", "rejected"} /\ \E kind, count : Finish(s, kind, count)
      BY <2>3 DEF IngestRejected, IngestImport
    <3> QED BY <1>1, <3>1, FinishMoves
  <2>4. CASE IngestDdl(s)
    <3>1. /\ pc[s] = "ddl"
          /\ \/ pc' = [pc EXCEPT ![s] = "import"] /\ UNCHANGED <<call, result>>
             \/ \E kind, count : Finish(s, kind, count)
      BY <2>4 DEF IngestDdl, Goto
    <3>2. CASE pc' = [pc EXCEPT ![s] = "import"] /\ UNCHANGED <<call, result>>
      BY <1>1, <2>4, <3>1, <3>2 DEF OthersCalls, TypeOK
    <3> QED BY <1>1, <3>1, <3>2, FinishMoves
  <2> QED BY <2>1, <2>2, <2>3, <2>4
<1>4. Moves(s)
  BY <1>1, <1>2, <1>3 DEF Moves, FreshInv, OthersCalls, NoCall
<1>5. ReadyInv(s)'
  <2>1. ASSUME pc'[s] = "lock" PROVE CanSend(binds[call[s].bind]) /\ call'[s] = call[s]
    <3>1. BoundRows(s) /\ pc'[s] # "idle" /\ call'[s] = call[s]
      BY <1>3, <2>1
    <3>2. PICK b : b = binds[call[s].bind]
      OBVIOUS
    <3>3. b.bad # 0 => b.stage # "convert"
      BY <1>1, <3>1, <3>2 DEF BoundRows, Finish, TypeOK
    <3>4. Rows(b) # 0
      BY <1>1, <3>1, <3>2 DEF BoundRows, Finish, TypeOK
    <3>5. b \in Batches
      <4>1. call[s].bind # 0 /\ call[s].bind \in 0 .. Len(binds) /\ binds \in Seq(Batches) /\ Len(binds) \in Nat
        BY <3>1 DEF BoundRows, Known, IInv, CallInv, TypeOK, BatchTypeOK, ServerTypeOK, Binds
      <4>2. call[s].bind \in 1 .. Len(binds)
        BY <4>1
      <4> QED BY <3>2, <4>1, <4>2, ElementOf
    <3>6. b.stage \in {"convert", "encode"} /\ Len(b.ends) \in Nat
      BY <3>5, PreparedBatchAssumption
    <3> QED BY <3>1, <3>2, <3>3, <3>4, <3>6 DEF CanSend, Rows
  <2> QED BY <1>2, <1>3, <2>1 DEF ReadyInv
<1>6. OkHere(s)'
  <2>1. CASE pc'[s] # "idle"
    BY <1>1, <1>3, <2>1 DEF OkHere, IngestInv
  <2>2. CASE pc'[s] = "idle" /\ pc[s] \in {"ddl", "import", "rejected"}
    BY <1>1, <1>2, <2>2 DEF OkHere, IngestInv, IsBulkIngest
  <2>3. CASE pc'[s] = "idle" /\ CreatePrepared(s)
    <3>1. result'[s].kind = "err" \/ (result'[s].bind = call[s].bind /\ call[s].api = "prepare")
      BY <1>1, <2>3 DEF CreatePrepared, Finish, Goto, TypeOK
    <3>2. result'[s].kind = "ok" => result'[s].bind = 0
      BY <1>1, <2>3, <3>1 DEF CreatePrepared, FreshInv
    <3> QED BY <3>2 DEF OkHere
  <2>4. CASE pc'[s] = "idle" /\ BoundRows(s)
    <3>1. result'[s].kind = "err" \/ (result'[s].bind = call[s].bind /\ Rows(binds[call[s].bind]) = 0)
      BY <1>1, <2>4 DEF BoundRows, Finish, Goto, TypeOK
    <3>2. binds' = binds
      BY <1>2
    <3> QED BY <3>1, <3>2 DEF OkHere, Rows
  <2> QED BY <2>1, <2>2, <2>3, <2>4 DEF IngestRejected, IngestDdl, IngestImport
<1> QED BY <1>2, <1>4, <1>5, <1>6, MovesKeep

\* A request, if it is one for a batch, goes on where the requests of the batch ended.
LEMMA LogExactAppend ==
  ASSUME log \in Seq(Requests), LogExact, binds' = binds, NEW e \in Requests, log' = Append(log, e),
         e.bind # 0 =>
           /\ Upto(e.bind, e.first) /\ e.first < e.last
           /\ binds[e.bind].cols = e.text.params
           /\ binds[e.bind].bad # 0 => binds[e.bind].stage = "encode" /\ e.text.result = "set"
  PROVE  LogExact'
<1>1. PICK n \in Nat : n = Len(log)
  OBVIOUS
<1>2. /\ Len(log') = n + 1 /\ log'[n + 1] = e
      /\ \A i \in 1 .. n : log'[i] = log[i]
  BY <1>1
<1>3. \A i \in 1 .. (n + 1) : i \in 1 .. n \/ i = n + 1
  OBVIOUS
<1>4. RejectedSendsNothing'
  BY <1>1, <1>2, <1>3 DEF LogExact, RejectedSendsNothing
<1>5. RowsInOrder'
  <2>1. ASSUME NEW i \in 1 .. n, log'[i].bind # 0
        PROVE  /\ log'[i].first = IF i > 1 /\ log'[i - 1].bind = log'[i].bind THEN log'[i - 1].last ELSE 0
               /\ log'[i].first < log'[i].last
               /\ i > 1 /\ log'[i - 1].bind = log'[i].bind => log'[i - 1].answer = "ok"
    <3>1. log'[i] = log[i] /\ (i > 1 => log'[i - 1] = log[i - 1])
      BY <1>2
    <3> QED BY <1>1, <2>1, <3>1 DEF LogExact, RowsInOrder
  <2>2. ASSUME e.bind # 0
        PROVE  /\ e.first = IF n + 1 > 1 /\ log'[n].bind = e.bind THEN log'[n].last ELSE 0
               /\ e.first < e.last
               /\ n + 1 > 1 /\ log'[n].bind = e.bind => log'[n].answer = "ok"
    <3>1. n > 0 => log'[n] = log[n] /\ n \in 1 .. n
      BY <1>2
    <3>2. CASE e.first = 0
      <4>1. NotYet(e.bind)
        BY <2>2, <3>2 DEF Upto
      <4>2. n > 0 => log[n].bind # e.bind
        BY <1>1, <3>1, <4>1 DEF NotYet
      <4>3. ~(n + 1 > 1 /\ log'[n].bind = e.bind)
        <5>1. n + 1 > 1 => n > 0
          OBVIOUS
        <5>2. n > 0 => log'[n].bind # e.bind
          BY <3>1, <4>2
        <5> QED BY <5>1, <5>2
      <4> QED BY <2>2, <3>2, <4>3
    <3>3. CASE e.first # 0
      <4>1. LastIs(e.bind, e.first)
        BY <2>2, <3>3 DEF Upto
      <4> QED BY <1>1, <2>2, <3>1, <4>1 DEF LastIs
    <3> QED BY <3>2, <3>3
  <2>3. (n + 1) - 1 = n
    OBVIOUS
  <2> QED BY <1>2, <1>3, <2>1, <2>2, <2>3 DEF RowsInOrder
<1>6. BatchContiguous'
  <2> SUFFICES ASSUME NEW i \in 1 .. Len(log'), NEW k \in 1 .. Len(log'),
                      i < k /\ log'[i].bind = log'[k].bind /\ log'[i].bind # 0, NEW j \in i .. k
               PROVE  log'[j].bind = log'[i].bind
    BY DEF BatchContiguous
  <2>0. i \in 1 .. (n + 1) /\ k \in 1 .. (n + 1)
    BY <1>2
  <2>1. i \in 1 .. n /\ log'[i] = log[i]
    BY <1>2, <2>0
  <2>2. CASE k \in 1 .. n
    <3>1. j \in 1 .. n /\ log'[j] = log[j] /\ log'[k] = log[k]
      BY <1>2, <2>2
    <3> QED BY <1>1, <2>1, <2>2, <3>1 DEF LogExact, BatchContiguous
  <2>3. CASE k = n + 1
    <3>1. e.bind = log[i].bind /\ e.bind # 0
      BY <1>2, <2>1, <2>3
    <3>2. ~NotYet(e.bind)
      BY <1>1, <2>1, <3>1 DEF NotYet
    <3>3. LastIs(e.bind, e.first)
      BY <3>1, <3>2 DEF Upto
    <3>4. n > 0 /\ log[n].bind = e.bind
      BY <1>1, <3>3 DEF LastIs
    <3>5. CASE j = n + 1
      BY <1>2, <2>1, <3>1, <3>5
    <3>6. CASE j \in i .. n
      <4>1. log'[j] = log[j] /\ j \in 1 .. n /\ n \in 1 .. n
        BY <1>2, <2>1, <3>4, <3>6
      <4>2. CASE i = n
        <5>1. j = i
          BY <3>6, <4>2
        <5> QED BY <5>1
      <4>3. CASE i < n
        <5>1. log[j].bind = log[i].bind
          BY <1>1, <2>1, <3>1, <3>4, <3>6, <4>1, <4>3 DEF LogExact, BatchContiguous
        <5> QED BY <2>1, <4>1, <5>1
      <4>4. i = n \/ i < n
        BY <2>1
      <4> QED BY <4>2, <4>3, <4>4
    <3>7. j = n + 1 \/ j \in i .. n
      BY <2>1, <2>3
    <3> QED BY <3>5, <3>6, <3>7
  <2> QED BY <1>3, <2>0, <2>2, <2>3
<1> QED BY <1>4, <1>5, <1>6 DEF LogExact

\* A text that runs without parameters runs between batches.
LEMMA RunPlainExact ==
  ASSUME Known, TypeOK', ExactInv, NEW s \in Statements, RunPlain(s)
  PROVE  ExactInv'
<1>1. TypeOK /\ FreshInv(s) /\ log \in Seq(Requests) /\ Len(log) \in Nat
  BY DEF Known, IInv, ExactInv, TypeOK, BatchTypeOK, ServerTypeOK
<1>2. pc[s] = "plain" /\ phase = "free" /\ UNCHANGED <<binds, handles, batchVars, bound, options>>
  BY DEF RunPlain, stmtVars
<1>3. PICK answer \in Answers, done \in {"yes", "no"} :
        log' = Append(log, [stmt |-> s, bind |-> 0, text |-> sql[s], first |-> 0, last |-> 0,
                            answer |-> answer, done |-> done])
  BY DEF RunPlain
<1>4. PICK e : e = [stmt |-> s, bind |-> 0, text |-> sql[s], first |-> 0, last |-> 0,
                    answer |-> answer, done |-> done]
  OBVIOUS
<1>5. e \in Requests /\ e.bind = 0 /\ log' = Append(log, e)
  <2>1. sql[s] \in Texts
    BY <1>2 DEF Known, IInv, CallInv
  <2> QED BY <1>3, <1>4, <2>1 DEF Requests
<1>6. LogExact'
  BY <1>1, <1>2, <1>5, LogExactAppend DEF ExactInv
<1>7. /\ Len(log') = Len(log) + 1 /\ log'[Len(log) + 1] = e /\ \A i \in 1 .. Len(log) : log'[i] = log[i]
  BY <1>1, <1>5
<1>8. QuietLog
  BY <1>1, <1>5, <1>7 DEF QuietLog
<1>9. (\E kind, count : Finish(s, kind, count))
  BY DEF RunPlain
<1>10. pc'[s] = "idle" /\ call'[s] = NoCall /\ result'[s].bind = call[s].bind /\ OthersCalls(s)
  <2>1. PICK kind, count : Finish(s, kind, count)
    BY <1>9
  <2>2. /\ pc'[s] = "idle" /\ call'[s] = NoCall /\ OthersCalls(s)
        /\ result'[s] = [kind |-> kind, bind |-> call[s].bind, count |-> count]
    BY <1>1, <2>1, FinishMoves
  <2> QED BY <2>2
<1>11. Moves(s)
  BY <1>2, <1>10 DEF Moves, OthersCalls, NoCall
<1>12. \A o \in Statements : FreshInv(o)'
  BY <1>8, <1>11, MovesFresh DEF ExactInv
<1>13. ReadyInv(s)' /\ OkHere(s)'
  BY <1>1, <1>2, <1>10 DEF ReadyInv, OkHere, FreshInv
<1>14. ASSUME NEW o \in Statements \ {s} PROVE ReadyInv(o)' /\ OkHere(o)'
  <2>1. ReadyInv(o)'
    BY <1>2, <1>11 DEF ExactInv, ReadyInv, Moves
  <2>2. result'[o] = result[o] /\ (IsBulkIngest(o) => IsBulkIngest(o)')
    BY <1>11 DEF Moves, IsBulkIngest
  <2>3. OkHere(o)'
    BY <1>1, <1>2, <1>8, <2>2, OkSame DEF ExactInv, QuietLog
  <2> QED BY <2>1, <2>3
<1>15. ProgressInv'
  BY <1>2 DEF ExactInv, ProgressInv, RowsProgress, SplitProgress, SendProgress, DoneProgress, batchVars
<1> QED BY <1>6, <1>12, <1>13, <1>14, <1>15 DEF ExactInv

\* A new bind belongs to nobody else.
LEMMA BindExact ==
  ASSUME Known, TypeOK', ExactInv, NEW s \in Statements, NEW b \in Batches, Bind(s, b)
  PROVE  ExactInv'
<1>1. /\ TypeOK /\ JobInv /\ binds \in Seq(Batches) /\ Len(binds) \in Nat /\ log \in Seq(Requests) /\ Len(log) \in Nat
      /\ \A i \in 1 .. Len(log) : log[i].bind <= Len(binds) /\ log[i].bind \in Nat
  <2>1. TypeOK /\ JobInv /\ ServerTypeOK
    BY DEF Known, IInv, TypeOK, BatchTypeOK
  <2>2. \A i \in 1 .. Len(log) : log[i] \in Requests
    BY <2>1, ElementOf DEF ServerTypeOK
  <2> QED BY <2>1, <2>2 DEF ServerTypeOK, Requests
<1>2. /\ binds' = Append(binds, b) /\ bound' = [bound EXCEPT ![s] = Len(binds) + 1]
      /\ UNCHANGED <<handles, phase, job, row, first_row, ranges, sent, affected, outcome, log, pc, call, result,
                     options>>
  BY DEF Bind, batchVars, serverVars, callVars
<1>3. \A i \in 1 .. Len(binds) : binds'[i] = binds[i]
  BY <1>1, <1>2
<1>4. /\ bound'[s] = Len(binds) + 1 /\ \A o \in Statements \ {s} : bound'[o] = bound[o]
      /\ \A o \in Statements : bound[o] \in 0 .. Len(binds) /\ call[o].bind \in 0 .. Len(binds)
  BY <1>1, <1>2 DEF TypeOK, Binds
<1>5. ASSUME NEW o \in Statements PROVE FreshInv(o)'
  <2>1. CASE o = s
    <3>1. NotYet(bound[s])'
      BY <1>1, <1>2, <1>4 DEF NotYet
    <3>2. \A q \in Statements : bound'[s] # call'[q].bind /\ (s # q => bound'[s] # bound'[q])
      BY <1>1, <1>2, <1>4
    <3> QED BY <1>2, <2>1, <3>1, <3>2 DEF ExactInv, FreshInv, NotYet
  <2>2. CASE o # s
    <3>1. bound'[o] # bound'[s]
      BY <1>1, <1>4, <2>2
    <3>2. bound'[o] = bound[o] /\ FreshInv(o)
      BY <1>4, <2>2 DEF ExactInv
    <3>3. bound'[o] # 0 =>
            /\ NotYet(bound[o])'
            /\ \A q \in Statements : bound'[o] # call'[q].bind /\ (o # q => bound'[o] # bound'[q])
      BY <1>2, <1>4, <3>1, <3>2 DEF FreshInv, NotYet
    <3> QED BY <1>2, <3>2, <3>3 DEF FreshInv, NotYet
  <2> QED BY <2>1, <2>2
<1>6. ASSUME NEW o \in Statements PROVE ReadyInv(o)' /\ OkHere(o)'
  <2>1. ReadyInv(o)'
    <3>1. ASSUME pc[o] \in {"lock", "running"} PROVE binds'[call[o].bind] = binds[call[o].bind]
      <4>1. call[o].bind # 0
        BY <3>1 DEF Known, IInv, CallInv
      <4> QED BY <1>1, <1>3, <1>4, <4>1
    <3> QED BY <1>2, <3>1 DEF ExactInv, ReadyInv
  <2>2. IsBulkIngest(o) => IsBulkIngest(o)'
    BY <1>2 DEF IsBulkIngest
  <2>3. OkHere(o)'
    BY <1>1, <1>2, <1>3, <2>2, OkSame DEF ExactInv
  <2> QED BY <2>1, <2>3
<1>7. LogExact'
  <2>1. ASSUME NEW i \in 1 .. Len(log), log[i].bind # 0 PROVE binds'[log[i].bind] = binds[log[i].bind]
    BY <1>1, <1>3, <2>1
  <2>2. RowsInOrder' /\ BatchContiguous'
    BY <1>2 DEF ExactInv, LogExact, RowsInOrder, BatchContiguous
  <2>3. RejectedSendsNothing'
    <3>1. RejectedSendsNothing /\ log' = log
      BY <1>2 DEF ExactInv, LogExact
    <3> QED BY <2>1, <3>1 DEF RejectedSendsNothing
  <2> QED BY <2>2, <2>3 DEF LogExact
<1>8. ProgressInv'
  <2>1. ASSUME phase # "free" PROVE data' = data
    <3>1. job.bind \in 1 .. Len(binds)
      BY <1>1, <2>1, JobData DEF TypeOK
    <3> QED BY <1>2, <1>3, <3>1 DEF data
  <2>2. text' = text
    BY <1>2 DEF text
  <2> QED BY <1>2, <2>1, <2>2 DEF ExactInv, ProgressInv, RowsProgress, SplitProgress, SendProgress, DoneProgress, Upto,
                                  NotYet, LastIs, Chain, End, Rows
<1> QED BY <1>5, <1>6, <1>7, <1>8 DEF ExactInv

\* A batch that begins has requested nothing, and a batch that is refused at once fails.
LEMMA RunBatchExact ==
  ASSUME Known, TypeOK', ExactInv, NEW s \in Statements, RunBatch(s)
  PROVE  ExactInv'
<1>1. TypeOK /\ JobInv /\ CallInv /\ FreshInv(s) /\ ReadyInv(s) /\ log \in Seq(Requests) /\ Len(log) \in Nat
  BY DEF Known, IInv, ExactInv, TypeOK, BatchTypeOK, ServerTypeOK
<1>2. /\ pc[s] = "lock" /\ phase = "free"
      /\ job' = [stmt |-> s, bind |-> call[s].bind, handle |-> prepared[s], api |-> call[s].api]
      /\ UNCHANGED <<binds, handles, log, call, result, bound, options, row, first_row, ranges, sent, affected>>
  BY DEF RunBatch, BeginBatch, Goto, stmtVars, serverVars
<1>3. pc'[s] = "running" /\ \A o \in Statements \ {s} : pc'[o] = pc[o]
  BY <1>1 DEF RunBatch, Goto, TypeOK
<1>4. \A o \in Statements : FreshInv(o)'
  BY <1>1, <1>2, <1>3 DEF ExactInv, FreshInv, NotYet
<1>5. ASSUME NEW o \in Statements PROVE ReadyInv(o)' /\ OkHere(o)'
  <2>1. ReadyInv(o)'
    BY <1>1, <1>2, <1>3 DEF ExactInv, ReadyInv
  <2>2. OkHere(o)'
    BY <1>2 DEF ExactInv, OkHere, IsBulkIngest
  <2> QED BY <2>1, <2>2
<1>6. LogExact'
  BY <1>2, LogExactSame DEF ExactInv
<1>7. row = 0 /\ first_row = 0 /\ ranges = <<>> /\ sent = 0 /\ affected = 0 /\ call[s].bind # 0
  BY <1>1, <1>2 DEF JobInv, CallInv, ExactInv, ProgressInv
<1>8. /\ data' = binds[call[s].bind] /\ text' = handles[prepared[s]] /\ job'.bind = call[s].bind
      /\ NotYet(call[s].bind) /\ CanSend(binds[call[s].bind])
  BY <1>1, <1>2, <1>7 DEF data, text, FreshInv, ReadyInv
<1>9. \/ phase' = "done" /\ outcome'.kind = "err"
      \/ phase' \in {"rows", "split"} /\ binds[call[s].bind].cols = handles[prepared[s]].params
  BY DEF RunBatch, BeginBatch, Return
<1>10. NotYet(job.bind)'
  BY <1>2, <1>8 DEF NotYet
<1>11. binds[call[s].bind].bad \in Nat
  <2>1. call[s].bind \in 1 .. Len(binds) /\ binds \in Seq(Batches)
    <3>1. binds \in Seq(Batches) /\ call \in [Statements -> [api : Apis, bind : Binds]]
      BY <1>1 DEF TypeOK, BatchTypeOK, ServerTypeOK
    <3>2. call[s].bind \in Binds
      BY <3>1
    <3> QED BY <1>7, <3>1, <3>2 DEF Binds
  <2>2. binds[call[s].bind] \in Batches
    BY <2>1, ElementOf
  <2>3. binds[call[s].bind].bad \in 0 .. Len(binds[call[s].bind].ends) /\ binds[call[s].bind].ends \in Seq(Nat)
    BY <2>2, PreparedBatchAssumption
  <2> QED BY <2>3
<1>12. RowsProgress'
  BY <1>2, <1>7, <1>8, <1>10 DEF RowsProgress, Upto, CanSend, Rows
<1>13. SplitProgress'
  <2>1. Chain' /\ (End(Len(ranges)))' = 0
    BY <1>2, <1>7 DEF Chain, End
  <2> QED BY <1>2, <1>7, <1>8, <1>10, <1>11, <2>1 DEF SplitProgress
<1>14. ProgressInv'
  BY <1>8, <1>9, <1>12, <1>13 DEF ProgressInv, SendProgress, DoneProgress
<1> QED BY <1>4, <1>5, <1>6, <1>14 DEF ExactInv

\* A batch that is over returns what it reached.
LEMMA BatchDoneExact ==
  ASSUME Known, TypeOK', ExactInv, NEW s \in Statements, BatchDone(s)
  PROVE  ExactInv'
<1>1. TypeOK /\ FreshInv(s) /\ HolderInv(s) /\ log \in Seq(Requests) /\ Len(log) \in Nat
  BY DEF Known, IInv, ExactInv, TypeOK, BatchTypeOK, ServerTypeOK
<1>2. /\ pc[s] = "running" /\ phase = "done" /\ phase' = "free" /\ affected' = 0
      /\ UNCHANGED <<binds, handles, log, bound, options>>
  BY DEF BatchDone, ReleaseBatch, stmtVars, serverVars
<1>3. /\ pc'[s] = "idle" /\ call'[s] = NoCall /\ OthersCalls(s)
      /\ result'[s] = [kind |-> outcome.kind, bind |-> call[s].bind, count |-> outcome.count]
  BY <1>1 DEF BatchDone, Finish, TypeOK, OthersCalls
<1>4. ASSUME NEW o \in Statements PROVE FreshInv(o)'
  <2>1. ASSUME NEW q \in Statements PROVE call'[q].bind \in {0, call[q].bind} /\ bound'[q] = bound[q]
    BY <1>2, <1>3 DEF OthersCalls, NoCall
  <2>2. CASE o = s
    BY <1>2, <1>3, <2>1, <2>2 DEF ExactInv, FreshInv, NoCall, NotYet
  <2>3. CASE o # s
    <3>1. pc'[o] = pc[o] /\ call'[o] = call[o] /\ FreshInv(o)
      BY <1>3, <2>3 DEF OthersCalls, ExactInv
    <3> QED BY <1>2, <2>1, <3>1 DEF FreshInv, NotYet
  <2> QED BY <2>2, <2>3
<1>5. ASSUME NEW o \in Statements \ {s} PROVE ReadyInv(o)' /\ OkHere(o)'
  BY <1>2, <1>3 DEF ExactInv, ReadyInv, OkHere, IsBulkIngest, OthersCalls
<1>6. ReadyInv(s)'
  BY <1>3 DEF ReadyInv
<1>7. OkHere(s)'
  <2>1. job.bind = call[s].bind
    BY <1>1, <1>2 DEF HolderInv
  <2>2. ASSUME outcome.kind = "ok"
        PROVE  LastIs(call[s].bind, Rows(binds[call[s].bind])) /\ outcome.count = Rows(binds[call[s].bind])
    BY <1>2, <2>1, <2>2 DEF ExactInv, ProgressInv, DoneProgress, data
  <2>3. /\ result'[s].kind = outcome.kind /\ result'[s].bind = call[s].bind /\ result'[s].count = outcome.count
    BY <1>3
  <2>4. ASSUME outcome.kind = "ok"
        PROVE  \E i \in 1 .. Len(log') : /\ log'[i].bind = result'[s].bind /\ log'[i].last = result'[s].count
                                         /\ log'[i].answer = "ok"
    <3>1. Len(log) \in 1 .. Len(log')
      BY <1>1, <1>2, <2>2, <2>4 DEF LastIs
    <3>2. /\ log[Len(log)].bind = call[s].bind /\ log[Len(log)].last = outcome.count
          /\ log[Len(log)].answer = "ok"
      BY <2>2, <2>4 DEF LastIs
    <3> QED BY <1>2, <2>3, <3>1, <3>2
  <2> QED BY <1>2, <2>2, <2>3, <2>4 DEF OkHere
<1>8. LogExact'
  BY <1>2, LogExactSame DEF ExactInv
<1>9. ProgressInv'
  BY <1>2 DEF ProgressInv, RowsProgress, SplitProgress, SendProgress, DoneProgress
<1> QED BY <1>4, <1>5, <1>6, <1>7, <1>8, <1>9 DEF ExactInv

\* What the steps of a batch change: the statements and their calls are as they were.
BatchOnly == UNCHANGED <<stmtVars, callVars, tableVars, calls, uses>>

\* The batch that runs belongs to a statement that may send it.
LEMMA BatchFacts ==
  ASSUME Known, ExactInv, phase # "free"
  PROVE  /\ data \in Batches /\ text \in Texts /\ Rows(data) \in Nat /\ data.bad \in 0 .. Rows(data)
         /\ data.cols = 0 => data.bad = 0
         /\ job.stmt \in Statements /\ job.bind \in 1 .. Len(binds) /\ job.bind # 0
         /\ job.bind = call[job.stmt].bind /\ pc[job.stmt] = "running" /\ CanSend(data)
         /\ \A s \in Statements : pc[s] = "running" => s = job.stmt
<1>1. BatchTypeOK /\ JobInv
  BY DEF Known, IInv, TypeOK
<1>2. /\ data \in Batches /\ text \in Texts /\ Rows(data) \in Nat /\ job.stmt \in Statements
      /\ job.bind \in 1 .. Len(binds) /\ job.bind # 0
  BY <1>1, JobData DEF JobInv
<1>3. HolderInv(job.stmt) /\ ReadyInv(job.stmt)
  BY <1>2 DEF Known, ExactInv
<1>4. pc[job.stmt] = "running" /\ job.bind = call[job.stmt].bind /\ CanSend(data)
  BY <1>3 DEF HolderInv, ReadyInv, data
<1>5. data.bad \in 0 .. Rows(data) /\ (data.cols = 0 => data.bad = 0)
  BY <1>2, PreparedBatchAssumption DEF Rows
<1>6. \A s \in Statements : pc[s] = "running" => s = job.stmt
  BY DEF Known, HolderInv
<1> QED BY <1>2, <1>4, <1>5, <1>6

\* A step of a batch that requests nothing leaves the statements as they were.
LEMMA QuietBatchKeeps ==
  ASSUME ExactInv, BatchOnly, UNCHANGED <<binds, log>>, ProgressInv'
  PROVE  ExactInv'
<1>1. UNCHANGED <<bound, options, pc, call, result>>
  BY DEF BatchOnly, stmtVars, callVars
<1>2. \A s \in Statements : FreshInv(s)'
  BY <1>1 DEF ExactInv, FreshInv, NotYet
<1>3. \A s \in Statements : ReadyInv(s)' /\ OkHere(s)'
  BY <1>1 DEF ExactInv, ReadyInv, OkHere, IsBulkIngest
<1>4. LogExact'
  BY LogExactSame DEF ExactInv
<1> QED BY <1>2, <1>3, <1>4 DEF ExactInv

\* A request of the batch goes on where the batch was.
LEMMA RequestKeeps ==
  ASSUME Known, TypeOK', ExactInv, BatchOnly, UNCHANGED <<binds, handles, job>>, phase # "free",
         NEW f \in Nat, NEW l \in Nat, NEW a \in Answers, Request(f, l, a),
         Upto(job.bind, f), f < l, data.cols = text.params, data.bad # 0 => text.result = "set",
         ProgressInv'
  PROVE  ExactInv'
<1>1. TypeOK /\ log \in Seq(Requests) /\ Len(log) \in Nat
  BY DEF Known, IInv, TypeOK, BatchTypeOK, ServerTypeOK
<1>2. UNCHANGED <<bound, options, pc, call, result>>
  BY DEF BatchOnly, stmtVars, callVars
<1>3. /\ text \in Texts /\ job.stmt \in Statements /\ job.bind \in 1 .. Len(binds) /\ job.bind # 0
      /\ job.bind = call[job.stmt].bind /\ pc[job.stmt] = "running" /\ CanSend(data)
      /\ \A s \in Statements : pc[s] = "running" => s = job.stmt
  BY BatchFacts
<1>4. PICK d \in {"yes", "no"} :
        log' = Append(log, [stmt |-> job.stmt, bind |-> job.bind, text |-> text, first |-> f, last |-> l,
                            answer |-> a, done |-> d])
  BY DEF Request
<1>5. PICK e : e = [stmt |-> job.stmt, bind |-> job.bind, text |-> text, first |-> f, last |-> l,
                    answer |-> a, done |-> d]
  OBVIOUS
<1>6. /\ e \in Requests /\ log' = Append(log, e)
      /\ e.bind = job.bind /\ e.first = f /\ e.last = l /\ e.text = text /\ e.answer = a
  <2>1. job.bind \in Nat
    BY <1>3
  <2> QED BY <1>3, <1>4, <1>5, <2>1 DEF Requests
<1>7. LogExact'
  <2>1. binds[e.bind] = data
    BY <1>6 DEF data
  <2>2. /\ Upto(e.bind, e.first) /\ e.first < e.last
        /\ binds[e.bind].cols = e.text.params
        /\ binds[e.bind].bad # 0 => binds[e.bind].stage = "encode" /\ e.text.result = "set"
    BY <1>3, <1>6, <2>1 DEF CanSend
  <2> QED BY <1>1, <1>6, <2>2, LogExactAppend DEF ExactInv
<1>8. /\ Len(log') = Len(log) + 1 /\ log'[Len(log) + 1] = e /\ \A i \in 1 .. Len(log) : log'[i] = log[i]
  BY <1>1, <1>6
<1>9. \A b : b # job.bind /\ NotYet(b) => \A i \in 1 .. Len(log') : log'[i].bind # b
  BY <1>1, <1>6, <1>8 DEF NotYet
<1>10. ASSUME NEW s \in Statements PROVE FreshInv(s)'
  <2>1. FreshInv(s) /\ FreshInv(job.stmt)
    BY <1>3 DEF ExactInv
  <2>2. bound[s] # 0 => bound[s] # job.bind
    BY <1>3, <2>1 DEF FreshInv
  <2>3. call[s].bind # 0 /\ pc[s] # "running" => call[s].bind # job.bind
    BY <1>3, <2>1 DEF FreshInv
  <2>4. bound[s] # 0 => NotYet(bound[s])'
    BY <1>2, <1>9, <2>1, <2>2 DEF FreshInv, NotYet
  <2>5. call[s].bind # 0 /\ pc[s] # "running" => NotYet(call[s].bind)'
    BY <1>2, <1>9, <2>1, <2>3 DEF FreshInv, NotYet
  <2> QED BY <1>2, <2>1, <2>4, <2>5 DEF FreshInv
<1>11. ASSUME NEW s \in Statements PROVE ReadyInv(s)' /\ OkHere(s)'
  <2>1. ReadyInv(s)' /\ (IsBulkIngest(s) => IsBulkIngest(s)')
    BY <1>2 DEF ExactInv, ReadyInv, IsBulkIngest
  <2>2. Len(log') >= Len(log) /\ result'[s] = result[s]
    BY <1>1, <1>2, <1>8
  <2>3. OkHere(s)'
    BY <1>1, <1>8, <2>1, <2>2, OkSame DEF ExactInv
  <2> QED BY <2>1, <2>3
<1> QED BY <1>7, <1>10, <1>11 DEF ExactInv

\* After a request that succeeded the batch has come to its last row.
LEMMA RequestReaches ==
  ASSUME Known, NEW f, NEW l, NEW a, Request(f, l, a), a = "ok", job' = job
  PROVE  LastIs(job.bind, l)'
<1>1. log \in Seq(Requests) /\ Len(log) \in Nat
  BY DEF Known, IInv, TypeOK, BatchTypeOK, ServerTypeOK
<1>2. PICK d \in {"yes", "no"} :
        log' = Append(log, [stmt |-> job.stmt, bind |-> job.bind, text |-> text, first |-> f, last |-> l,
                            answer |-> a, done |-> d])
  BY DEF Request
<1>3. PICK e : e = [stmt |-> job.stmt, bind |-> job.bind, text |-> text, first |-> f, last |-> l,
                    answer |-> a, done |-> d]
  OBVIOUS
<1>4. log' = Append(log, e) /\ e.bind = job.bind /\ e.last = l /\ e.answer = "ok"
  BY <1>2, <1>3
<1>5. Len(log') = Len(log) + 1 /\ log'[Len(log')] = e
  BY <1>1, <1>4
<1> QED BY <1>1, <1>4, <1>5 DEF LastIs

\* The ranges with one more that goes on where they end.
LEMMA ChainGrows ==
  ASSUME ranges \in Seq([first : Nat, last : Nat]), Chain, NEW f \in Nat, NEW l \in Nat, f = End(Len(ranges)), f < l,
         ranges' = Append(ranges, [first |-> f, last |-> l])
  PROVE  Chain' /\ (End(Len(ranges)))' = l
<1>1. PICK n \in Nat : n = Len(ranges)
  OBVIOUS
<1>2. PICK r \in [first : Nat, last : Nat] : r = [first |-> f, last |-> l]
  OBVIOUS
<1>3. /\ Len(ranges') = n + 1 /\ ranges'[n + 1] = r
      /\ \A i \in 1 .. n : ranges'[i] = ranges[i]
  BY <1>1, <1>2
<1>4. r.first = f /\ r.last = l
  BY <1>2
<1>5. (End(Len(ranges)))' = l
  BY <1>3, <1>4 DEF End
<1>6. ASSUME NEW i \in 1 .. (n + 1)
      PROVE  /\ ranges'[i].first = IF i - 1 = 0 THEN 0 ELSE ranges'[i - 1].last
             /\ ranges'[i].first < ranges'[i].last
  <2>1. CASE i \in 1 .. n
    <3>1. ranges'[i] = ranges[i] /\ (i - 1 # 0 => ranges'[i - 1] = ranges[i - 1])
      BY <1>3, <2>1
    <3> QED BY <1>1, <2>1, <3>1 DEF Chain, End
  <2>2. CASE i = n + 1
    <3>1. i - 1 = n /\ ranges'[i] = r /\ (n # 0 => ranges'[n] = ranges[n])
      BY <1>3, <2>2
    <3>2. f = IF n = 0 THEN 0 ELSE ranges[n].last
      BY <1>1 DEF End
    <3> QED BY <1>4, <3>1, <3>2
  <2>3. i \in 1 .. n \/ i = n + 1
    OBVIOUS
  <2> QED BY <2>1, <2>2, <2>3
<1>7. Chain'
  BY <1>3, <1>6 DEF Chain, End
<1> QED BY <1>5, <1>7

\* A row is encoded: it joins the range, or closes it, or fails the batch.
LEMMA SplitRowExact ==
  ASSUME Known, TypeOK', ExactInv, BatchOnly, SplitRow
  PROVE  ExactInv'
<1>1. /\ phase = "split" /\ row < Rows(data) /\ UNCHANGED <<binds, handles, job, sent, affected, log>>
  BY DEF SplitRow
<1>2. data' = data /\ text' = text
  BY <1>1 DEF data, text
<1>3. /\ data.bad \in 0 .. Rows(data) /\ Rows(data) \in Nat /\ data.cols = text.params
      /\ row \in Nat /\ first_row \in Nat /\ ranges \in Seq([first : Nat, last : Nat]) /\ first_row <= row
  BY <1>1, BatchFacts DEF ExactInv, ProgressInv, Known, IInv, TypeOK, BatchTypeOK, JobTypeOK, JobInv
<1>4. /\ NotYet(job.bind) /\ affected = 0
      /\ Chain /\ first_row = End(Len(ranges)) /\ (row # 0 => first_row < row)
      /\ data.bad # 0 => row < data.bad
  BY <1>1 DEF ExactInv, ProgressInv, SplitProgress
<1>5. CASE data.bad = row + 1
  <2>1. phase' = "done" /\ outcome'.kind = "err"
    BY <1>1, <1>5 DEF SplitRow, Return
  <2>2. ProgressInv'
    BY <2>1 DEF ProgressInv, RowsProgress, SplitProgress, SendProgress, DoneProgress
  <2> QED BY <1>1, <2>2, QuietBatchKeeps
<1>6. CASE data.bad # row + 1
  <2>1. /\ row' = row + 1 /\ phase' = phase
        /\ IF Overflows THEN CloseRange ELSE UNCHANGED <<first_row, ranges>>
    BY <1>1, <1>6 DEF SplitRow
  <2>2. Chain' /\ first_row' = (End(Len(ranges)))' /\ first_row' < row'
    <3>1. CASE Overflows
      <4>1. ranges' = Append(ranges, [first |-> first_row, last |-> row]) /\ first_row' = row /\ first_row < row
        BY <1>3, <2>1, <3>1 DEF CloseRange, Overflows
      <4>2. PICK f \in Nat, l \in Nat : f = first_row /\ l = row
        BY <1>3
      <4>3. Chain' /\ (End(Len(ranges)))' = l
        BY <1>3, <1>4, <4>1, <4>2, ChainGrows
      <4> QED BY <1>3, <2>1, <4>1, <4>2, <4>3
    <3>2. CASE ~Overflows
      <4>1. ranges' = ranges /\ first_row' = first_row
        BY <2>1, <3>2
      <4>2. first_row' < row'
        BY <1>3, <2>1, <4>1
      <4> QED BY <1>4, <4>1, <4>2 DEF Chain, End
    <3> QED BY <3>1, <3>2
  <2>3. data.bad # 0 => row' < data.bad
    <3>1. data.bad \in Nat
      BY <1>3
    <3> QED BY <1>3, <1>4, <1>6, <2>1, <3>1
  <2>4. NotYet(job.bind)'
    BY <1>1, <1>4 DEF NotYet
  <2>5. SplitProgress'
    BY <1>1, <1>2, <1>4, <2>2, <2>3, <2>4 DEF SplitProgress
  <2>6. ProgressInv'
    BY <1>1, <1>2, <1>3, <2>1, <2>5 DEF ProgressInv, RowsProgress, SendProgress, DoneProgress
  <2> QED BY <1>1, <2>6, QuietBatchKeeps
<1> QED BY <1>5, <1>6

\* The last range closes the batch, in which every value was encoded.
LEMMA SplitDoneExact ==
  ASSUME Known, TypeOK', ExactInv, BatchOnly, SplitDone
  PROVE  ExactInv'
<1>1. /\ phase = "split" /\ row = Rows(data) /\ phase' = "send"
      /\ ranges' = Append(ranges, [first |-> first_row, last |-> row])
      /\ UNCHANGED <<binds, handles, job, sent, affected, log>>
  BY DEF SplitDone
<1>2. data' = data /\ text' = text
  BY <1>1 DEF data, text
<1>3. /\ data.bad \in 0 .. Rows(data) /\ Rows(data) \in Nat /\ data.cols = text.params /\ CanSend(data)
      /\ row \in Nat /\ first_row \in Nat /\ ranges \in Seq([first : Nat, last : Nat]) /\ sent = 0
  BY <1>1, BatchFacts DEF ExactInv, ProgressInv, Known, IInv, TypeOK, BatchTypeOK, JobTypeOK, JobInv
<1>4. /\ NotYet(job.bind) /\ affected = 0
      /\ Chain /\ first_row = End(Len(ranges)) /\ (row # 0 => first_row < row)
      /\ data.bad # 0 => row < data.bad
  BY <1>1 DEF ExactInv, ProgressInv, SplitProgress
<1>5. PICK f \in Nat, l \in Nat : f = first_row /\ l = row
  BY <1>3
<1>6. f < l
  BY <1>1, <1>3, <1>4, <1>5 DEF CanSend
<1>7. Chain' /\ (End(Len(ranges)))' = l
  BY <1>1, <1>3, <1>4, <1>5, <1>6, ChainGrows
<1>8. data.bad = 0
  BY <1>1, <1>3, <1>4
<1>9. affected' = (End(sent))' /\ (Upto(job.bind, affected))'
  BY <1>1, <1>3, <1>4 DEF End, Upto, NotYet
<1>10. SendProgress'
  BY <1>1, <1>2, <1>5, <1>7, <1>8, <1>9 DEF SendProgress, Rows
<1>11. ProgressInv'
  BY <1>1, <1>2, <1>3, <1>10 DEF ProgressInv, RowsProgress, SplitProgress, DoneProgress
<1> QED BY <1>1, <1>11, QuietBatchKeeps

\* The next range: its rows follow those that were executed, and are counted.
LEMMA SendRangeExact ==
  ASSUME Known, TypeOK', ExactInv, BatchOnly, SendRange
  PROVE  ExactInv'
<1>1. phase = "send" /\ UNCHANGED <<binds, handles, job, row, first_row, ranges>>
  BY DEF SendRange
<1>2. data' = data /\ text' = text
  BY <1>1 DEF data, text
<1>3. /\ Rows(data) \in Nat /\ data.cols = text.params
      /\ ranges \in Seq([first : Nat, last : Nat]) /\ sent \in Nat /\ affected \in Nat /\ sent < Len(ranges)
  BY <1>1, BatchFacts DEF ExactInv, ProgressInv, Known, IInv, TypeOK, BatchTypeOK, JobTypeOK, JobInv
<1>4. /\ Chain /\ End(Len(ranges)) = Rows(data) /\ data.bad = 0
      /\ affected = End(sent) /\ Upto(job.bind, affected)
  BY <1>1 DEF ExactInv, ProgressInv, SendProgress
<1>5. sent + 1 \in 1 .. Len(ranges)
  BY <1>3
<1>6. PICK f \in Nat, l \in Nat : f = ranges[sent + 1].first /\ l = ranges[sent + 1].last
  <2>1. ranges[sent + 1] \in [first : Nat, last : Nat]
    BY <1>3, <1>5, ElementOf
  <2> QED BY <2>1
<1>7. f = affected /\ f < l
  <2>1. ranges[sent + 1].first = End((sent + 1) - 1) /\ ranges[sent + 1].first < ranges[sent + 1].last
    BY <1>4, <1>5 DEF Chain
  <2>2. (sent + 1) - 1 = sent
    BY <1>3
  <2> QED BY <1>4, <1>6, <2>1, <2>2
<1>8. End(sent + 1) = l /\ affected + (l - f) = l
  <2>1. sent + 1 # 0
    BY <1>3
  <2>2. End(sent + 1) = l
    BY <1>6, <2>1 DEF End
  <2>3. affected + (l - f) = l
    BY <1>7
  <2> QED BY <2>2, <2>3
<1>9. PICK a \in Answers :
        /\ Request(f, l, a)
        /\ \/ /\ a = "ok" /\ sent' = sent + 1 /\ affected' = l
              /\ \/ sent + 1 = Len(ranges) /\ phase' = "done" /\ outcome' = [kind |-> "ok", count |-> l]
                 \/ phase' = phase
           \/ phase' = "done" /\ outcome' = [kind |-> "err", count |-> 0]
  <2>1. PICK a \in Answers :
          /\ Request(ranges[sent + 1].first, ranges[sent + 1].last, a)
          /\ IF a = "ok"
               THEN /\ sent' = sent + 1
                    /\ affected' = affected + (ranges[sent + 1].last - ranges[sent + 1].first)
                    /\ IF sent + 1 = Len(ranges)
                         THEN Return("ok", affected + (ranges[sent + 1].last - ranges[sent + 1].first))
                         ELSE UNCHANGED <<phase, outcome>>
               ELSE Return("err", 0) /\ UNCHANGED <<sent, affected>>
    BY DEF SendRange
  <2>2. Request(f, l, a)
    BY <1>6, <2>1 DEF Request
  <2>3. affected + (ranges[sent + 1].last - ranges[sent + 1].first) = l
    BY <1>6, <1>8
  <2> QED BY <2>1, <2>2, <2>3 DEF Return
<1>10. Upto(job.bind, f)
  BY <1>4, <1>7
<1>11. ProgressInv'
  <2>1. CASE phase' = "done" /\ outcome' = [kind |-> "err", count |-> 0]
    BY <2>1 DEF ProgressInv, RowsProgress, SplitProgress, SendProgress, DoneProgress
  <2>2. CASE a = "ok" /\ sent + 1 = Len(ranges) /\ phase' = "done" /\ outcome' = [kind |-> "ok", count |-> l]
    <3>1. LastIs(job.bind, l)'
      BY <1>1, <1>9, <2>2, RequestReaches
    <3>2. l = Rows(data)
      BY <1>4, <1>8, <2>2
    <3>3. LastIs(job.bind, Rows(data))'
      BY <1>2, <3>1, <3>2 DEF LastIs, Rows
    <3>4. DoneProgress'
      BY <1>2, <2>2, <3>2, <3>3 DEF DoneProgress, Rows
    <3> QED BY <2>2, <3>4 DEF ProgressInv, RowsProgress, SplitProgress, SendProgress
  <2>3. CASE a = "ok" /\ sent' = sent + 1 /\ affected' = l /\ phase' = phase
    <3>1. LastIs(job.bind, l)' /\ l # 0
      BY <1>1, <1>7, <1>9, <2>3, RequestReaches
    <3>2. (Upto(job.bind, affected))'
      BY <2>3, <3>1 DEF Upto, LastIs
    <3>3. Chain' /\ (End(Len(ranges)))' = Rows(data) /\ (End(sent))' = l
      BY <1>1, <1>4, <1>8, <2>3 DEF Chain, End
    <3>4. SendProgress'
      BY <1>2, <1>4, <2>3, <3>2, <3>3 DEF SendProgress, Rows
    <3> QED BY <1>1, <1>2, <1>3, <2>3, <3>4 DEF ProgressInv, RowsProgress, SplitProgress, DoneProgress
  <2> QED BY <1>9, <2>1, <2>2, <2>3
<1> QED BY <1>1, <1>3, <1>4, <1>7, <1>9, <1>10, <1>11, RequestKeeps

\* The next row of a statement that runs once per row.
LEMMA RunRowExact ==
  ASSUME Known, TypeOK', ExactInv, BatchOnly, RunRow
  PROVE  ExactInv'
<1>1. phase = "rows" /\ UNCHANGED <<binds, handles, job, first_row, ranges, sent>>
  BY DEF RunRow
<1>2. data' = data /\ text' = text
  BY <1>1 DEF data, text
<1>3. /\ Rows(data) \in Nat /\ data.cols = text.params /\ row \in Nat /\ RunsPerRow(text, data)
      /\ data.cols = 0 => data.bad = 0
  BY <1>1, BatchFacts DEF ExactInv, ProgressInv, Known, IInv, TypeOK, BatchTypeOK, JobTypeOK, JobInv
<1>4. row < Rows(data) /\ affected = row /\ Upto(job.bind, row)
  BY <1>1 DEF ExactInv, ProgressInv, RowsProgress
<1>5. CASE data.bad = row + 1
  <2>1. phase' = "done" /\ outcome'.kind = "err" /\ log' = log
    BY <1>1, <1>5 DEF RunRow, Return
  <2>2. ProgressInv'
    BY <2>1 DEF ProgressInv, RowsProgress, SplitProgress, SendProgress, DoneProgress
  <2> QED BY <1>1, <2>1, <2>2, QuietBatchKeeps
<1>6. CASE data.bad # row + 1
  <2>1. PICK f \in Nat, l \in Nat : f = row /\ l = row + 1
    BY <1>3
  <2>2. PICK a \in Answers :
          /\ Request(f, l, a)
          /\ \/ phase' = "done" /\ outcome' = [kind |-> "err", count |-> 0]
             \/ /\ a = "ok" /\ row' = l /\ affected' = l
                /\ \/ l = Rows(data) /\ phase' = "done" /\ outcome' = [kind |-> "ok", count |-> l]
                   \/ l # Rows(data) /\ phase' = phase
    <3>1. PICK a \in Answers, fetch \in {"ok", "failed"} :
            LET good == a = "ok" /\ (text.result = "set" => job.api = "execute" /\ fetch = "ok")
            IN /\ Request(row, row + 1, a)
               /\ row' = IF good THEN row + 1 ELSE row
               /\ affected' = IF good THEN affected + 1 ELSE affected
               /\ IF ~good THEN Return("err", 0)
                  ELSE IF row + 1 = Rows(data) THEN Return("ok", affected + 1)
                  ELSE UNCHANGED <<phase, outcome>>
      BY <1>1, <1>6 DEF RunRow
    <3>2. Request(f, l, a)
      BY <2>1, <3>1 DEF Request
    <3>3. affected + 1 = l /\ row + 1 = l
      BY <1>4, <2>1
    <3> QED BY <3>1, <3>2, <3>3 DEF Return
  <2>3. f < l /\ Upto(job.bind, f) /\ l # 0 /\ (data.bad # 0 => text.result = "set")
    BY <1>3, <1>4, <2>1 DEF RunsPerRow
  <2>4. ProgressInv'
    <3>1. CASE phase' = "done" /\ outcome' = [kind |-> "err", count |-> 0]
      BY <3>1 DEF ProgressInv, RowsProgress, SplitProgress, SendProgress, DoneProgress
    <3>2. CASE a = "ok" /\ l = Rows(data) /\ phase' = "done" /\ outcome' = [kind |-> "ok", count |-> l]
      <4>1. LastIs(job.bind, l)'
        BY <1>1, <2>2, <3>2, RequestReaches
      <4>2. LastIs(job.bind, Rows(data))'
        BY <1>2, <3>2, <4>1 DEF LastIs, Rows
      <4>3. DoneProgress'
        BY <1>2, <3>2, <4>2 DEF DoneProgress, Rows
      <4> QED BY <3>2, <4>3 DEF ProgressInv, RowsProgress, SplitProgress, SendProgress
    <3>3. CASE a = "ok" /\ row' = l /\ affected' = l /\ l # Rows(data) /\ phase' = phase
      <4>1. LastIs(job.bind, l)'
        BY <1>1, <2>2, <3>3, RequestReaches
      <4>2. (Upto(job.bind, row))'
        BY <2>3, <3>3, <4>1 DEF Upto, LastIs
      <4>3. l < Rows(data)
        BY <1>3, <1>4, <2>1, <3>3
      <4>4. RowsProgress'
        BY <1>2, <3>3, <4>2, <4>3 DEF RowsProgress, Rows
      <4> QED BY <1>1, <1>2, <1>3, <3>3, <4>4 DEF ProgressInv, SplitProgress, SendProgress, DoneProgress
    <3> QED BY <2>2, <3>1, <3>2, <3>3
  <2> QED BY <1>1, <1>3, <2>2, <2>3, <2>4, RequestKeeps
<1> QED BY <1>5, <1>6

\* Every step keeps the invariant.
LEMMA ExactInductive == Known /\ TypeOK' /\ ExactInv /\ [Next]_vars => ExactInv'
<1> SUFFICES ASSUME Known, TypeOK', ExactInv, [Next]_vars PROVE ExactInv'
  OBVIOUS
<1>1. CASE UNCHANGED vars
  <2>1. BatchOnly /\ UNCHANGED <<binds, handles, batchVars, log>>
    BY <1>1 DEF vars, BatchOnly, serverVars
  <2>2. ProgressInv'
    BY <2>1, ProgressSame DEF ExactInv
  <2> QED BY <2>1, <2>2, QuietBatchKeeps
<1>2. CASE BatchStep /\ UNCHANGED <<stmtVars, callVars, tableVars, calls>> /\ UNCHANGED uses
  BY <1>2, SplitRowExact, SplitDoneExact, SendRangeExact, RunRowExact DEF BatchStep, BatchOnly
<1>3. ASSUME NEW s \in Statements, (\E t \in uses[s].texts : SetSqlQuery(s, t)) \/ BindEmptyStream(s)
      PROVE  ExactInv'
  BY <1>3, OwnStateExact
<1>4. ASSUME NEW s \in Statements, \E b \in uses[s].batches : Bind(s, b)
      PROVE  ExactInv'
  <2>1. uses[s].batches \subseteq Batches
    BY FfiStatementAssumption DEF Known, IInv, TypeOK
  <2> QED BY <1>4, <2>1, BindExact
<1>5. ASSUME NEW s \in Statements,
             \/ Prepare(s) \/ (\E api \in {"execute", "update"} : ExecuteBound(s, api) \/ ExecutePlain(s, api))
             \/ (\E o \in uses[s].options : SetOptions(s, o) /\ ExecuteIngest(s, o))
      PROVE  ExactInv'
  BY <1>5, EnterExact
<1>6. ASSUME NEW s \in Statements,
             CreatePrepared(s) \/ BoundRows(s) \/ IngestRejected(s) \/ IngestDdl(s) \/ IngestImport(s)
      PROVE  ExactInv'
  BY <1>6, CallStepsExact
<1>7. ASSUME NEW s \in Statements, RunBatch(s) \/ BatchDone(s) \/ RunPlain(s)
      PROVE  ExactInv'
  BY <1>7, RunBatchExact, BatchDoneExact, RunPlainExact
<1> QED BY <1>1, <1>2, <1>3, <1>4, <1>5, <1>6, <1>7 DEF Next, Step

\* Nothing is requested, bound or running at first.
LEMMA ExactInit == Init => ExactInv
<1> SUFFICES ASSUME Init PROVE ExactInv
  OBVIOUS
<1> USE DEF Init, BatchInit
<1>1. \A s \in Statements : FreshInv(s) /\ ReadyInv(s) /\ OkHere(s)
  BY DEF FreshInv, ReadyInv, OkHere, NoCall, NoResult
<1>2. ProgressInv
  BY DEF ProgressInv, RowsProgress, SplitProgress, SendProgress, DoneProgress
<1>3. LogExact
  BY DEF LogExact, RowsInOrder, BatchContiguous, RejectedSendsNothing
<1> QED BY <1>1, <1>2, <1>3 DEF ExactInv

\* A bound batch is executed as one (execute_bound_batch, execute_prepared_statement):
\* checked before the first row goes out, in order, whole if the call succeeded, and with
\* no other statement's executions in between, for any number of statements and binds.
THEOREM BatchesAreExact == Spec => []BatchesExact
<1>1. Known /\ Known' /\ ExactInv /\ [Next]_vars => ExactInv'
  BY ExactInductive DEF Known, IInv
<1>2. ExactInv => BatchesExact
  <2>1. (\A s \in Statements : OkHere(s)) => OkMeansEveryRow
    BY DEF OkHere, OkMeansEveryRow
  <2> QED BY <2>1 DEF ExactInv, LogExact, BatchesExact
<1> QED BY <1>1, <1>2, ExactInit, KnownAlways, PTL DEF Spec
=============================================================================
