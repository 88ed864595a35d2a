----------------------------- MODULE ResultSet -----------------------------
(***************************************************************************)
(* What a result set promises its reader, whichever way it is read: rows   *)
(* arrive in order and at most once, a row is passed over only together    *)
(* with an error, and an end without an error comes only after the rows    *)
(* that were announced.                                                    *)
(***************************************************************************)
EXTENDS Naturals, Sequences

CONSTANT Cursors   \* result sets of one connection

VARIABLES
  size,    \* rows the server has for the result set
  total,   \* the row count it reported, 0: unknown
  out,     \* rows the reader was given
  passed,  \* rows given or passed over so far
  end      \* "open", "ended" or "failed"

vars == <<size, total, out, passed, end>>

\* Rows first .. last of result set c.
Rows(c, first, last) == [i \in 1 .. (last + 1 - first) |-> [of |-> c, n |-> first + i - 1]]

\* The next k rows of c.
NextRows(c, k) == Rows(c, passed[c] + 1, passed[c] + k)

Give(c, k) ==
  /\ out' = [out EXCEPT ![c] = @ \o NextRows(c, k)]
  /\ passed' = [passed EXCEPT ![c] = @ + k]

Deliver(c) ==
  /\ end[c] = "open"
  /\ \E k \in 1 .. (size[c] - passed[c]) : Give(c, k)
  /\ UNCHANGED <<size, total, end>>

\* An error is reported and rows are skipped.
Lose(c) ==
  /\ end[c] = "open"
  /\ \E k \in 1 .. (size[c] - passed[c]) : passed' = [passed EXCEPT ![c] = @ + k]
  /\ UNCHANGED <<size, total, out, end>>

\* The end, possibly with the last rows.
End(c) ==
  /\ end[c] = "open"
  /\ \E k \in 0 .. (size[c] - passed[c]) : Give(c, k)
  /\ IF total[c] > 0 THEN Len(out'[c]) = total[c] ELSE passed'[c] = size[c]
  /\ end' = [end EXCEPT ![c] = "ended"]
  /\ UNCHANGED <<size, total>>

Fail(c) ==
  /\ end[c] = "open"
  /\ end' = [end EXCEPT ![c] = "failed"]
  /\ UNCHANGED <<size, total, out, passed>>

Init ==
  /\ size \in [Cursors -> Nat]
  /\ total \in [Cursors -> Nat]
  /\ out = [c \in Cursors |-> <<>>]
  /\ passed = [c \in Cursors |-> 0]
  /\ end = [c \in Cursors |-> "open"]

Next == \E c \in Cursors : Deliver(c) \/ Lose(c) \/ End(c) \/ Fail(c)

Spec == Init /\ [][Next]_vars
=============================================================================
