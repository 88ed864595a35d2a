-------------------------- MODULE ResultFetchProofs -------------------------
(***************************************************************************)
(* Reading result sets, for any number of them, of handles, of rows and of *)
(* rows in a page: they do not disturb each other (CursorsApart), and what *)
(* a reader is given implements module ResultSet.                          *)
(*                                                                         *)
(* HandleInv ties a handle, the position kept under it and the result set  *)
(* that reads with it; OwnerInv says who may still be behind a handle of   *)
(* the server; RowsInv which rows were received and given; CountInv when   *)
(* they are all that was announced.                                        *)
(***************************************************************************)
EXTENDS ResultFetch, SequenceTheorems, TLAPS

Row     == [of : Cursors, n : Nat]
Modes   == {"new", "set", "iter", "all", "closing", "fetched", "closed", "dropped", "panicked"}
Reading == {"set", "iter", "all"}

\* What the variables may hold.
TypeOK ==
  /\ size \in [Cursors -> Nat] /\ total \in [Cursors -> Nat]
  /\ owner \in [Handles -> Cursors \cup {NoOwner}]
  /\ fetch_positions \in [Handles -> Nat]
  /\ mode \in [Cursors -> Modes]
  /\ caller \in [Cursors -> {"task", "blocking", "outside"}]
  /\ handle \in [Cursors -> Handles \cup {NoHandle}]
  /\ batches \in [Cursors -> Seq(Row)]
  /\ unread \in [Cursors -> {"yes", "no"}] /\ complete \in [Cursors -> {"yes", "no"}]
  /\ pagination \in [Cursors -> {"none", "ok", "err"}]
  /\ given \in [Cursors -> Seq(Row)]
  /\ lost \in [Cursors -> Nat]
  /\ outcome \in [Cursors -> {"open", "ended", "failed"}]
  /\ asked \in SUBSET Cursors

\* A handle that is held belongs to its holder, and the next fetch starts after what
\* was received.
HandleInv(c) ==
  /\ handle[c] # NoHandle => owner[handle[c]] = c
  /\ mode[c] \in {"new", "fetched", "closed"} => handle[c] = NoHandle
  /\ (mode[c] \in Reading /\ complete[c] = "no") =>
       handle[c] # NoHandle /\ fetch_positions[handle[c]] = Len(batches[c]) + lost[c]

\* A result set that the server still keeps is held, or was asked to go, or was dropped.
OwnerInv(h) ==
  owner[h] \in Cursors =>
    /\ mode[owner[h]] # "new"
    /\ handle[owner[h]] = h \/ owner[h] \in asked \/ mode[owner[h]] = "dropped"

\* The rows that were received, given and lost.
RowsInv(c) ==
  /\ lost[c] = 0 => batches[c] = Rows(c, 1, Len(batches[c]))
  /\ Len(batches[c]) + lost[c] <= size[c]
  /\ (mode[c] \in {"new", "set", "all", "closing"} \/ (mode[c] = "iter" /\ unread[c] = "yes")) =>
       given[c] = <<>> /\ lost[c] = 0 /\ outcome[c] = "open"
  /\ mode[c] \in {"new", "set"} => unread[c] = "yes"
  /\ (mode[c] = "iter" /\ unread[c] = "no") => given[c] = batches[c]
  /\ (mode[c] = "iter" /\ complete[c] = "no") => outcome[c] = "open"
  /\ mode[c] = "all" => complete[c] = "no"

\* Every row that was announced was received.
Full(c) ==
  /\ total[c] > 0 => Len(batches[c]) = total[c]
  /\ total[c] = 0 => Len(batches[c]) + lost[c] = size[c]

\* A reader that is told the end has every row that was announced.
CountInv(c) ==
  /\ (mode[c] \in Reading \cup {"closing"} /\ total[c] > 0) => Len(batches[c]) <= total[c]
  /\ (mode[c] \in {"set", "iter"} /\ complete[c] = "yes" /\ outcome[c] = "open") => Full(c)
  /\ (mode[c] = "closing" /\ pagination[c] = "ok") => Full(c)

\* The inductive invariant.
FetchInv ==
  /\ TypeOK
  /\ \A c \in Cursors : HandleInv(c) /\ RowsInv(c) /\ (FirstResponseFits => CountInv(c))
  /\ \A h \in Handles : OwnerInv(h)

-----------------------------------------------------------------------------
(* Rows                                                                    *)

\* A run of k rows of result set c is a sequence of k rows.
LEMMA RowsFacts ==
  ASSUME NEW c \in Cursors, NEW p \in Nat, NEW k \in Nat
  PROVE  /\ Rows(c, p + 1, p + k) \in Seq(Row) /\ Len(Rows(c, p + 1, p + k)) = k
         /\ \A i \in 1 .. k : Rows(c, p + 1, p + k)[i] = [of |-> c, n |-> p + i]
<1>. DEFINE r == [i \in 1 .. k |-> [of |-> c, n |-> p + i]]
<1>1. Rows(c, p + 1, p + k) = r
  <2>1. (p + k) + 1 - (p + 1) = k
    OBVIOUS
  <2>2. \A i \in 1 .. k : (p + 1) + i - 1 = p + i
    OBVIOUS
  <2>. QED BY <2>1, <2>2 DEF Rows
<1>2. r \in Seq(Row) /\ Len(r) = k
  BY DEF Row
<1>. QED BY <1>1, <1>2

\* So are the first n rows.
LEMMA FirstRows ==
  ASSUME NEW c \in Cursors, NEW n \in Nat
  PROVE  Rows(c, 1, n) \in Seq(Row) /\ Len(Rows(c, 1, n)) = n
<1>1. Rows(c, 0 + 1, 0 + n) \in Seq(Row) /\ Len(Rows(c, 0 + 1, 0 + n)) = n
  BY RowsFacts
<1>2. 0 + 1 = 1 /\ 0 + n = n
  OBVIOUS
<1>. QED BY <1>1, <1>2

\* The first n rows and the k that follow are the first n + k.
LEMMA RowsConcat ==
  ASSUME NEW c \in Cursors, NEW n \in Nat, NEW k \in Nat
  PROVE  Rows(c, 1, n) \o Rows(c, n + 1, n + k) = Rows(c, 1, n + k)
<1>. DEFINE a == Rows(c, 0 + 1, 0 + n)
            b == Rows(c, n + 1, n + k)
            w == Rows(c, 0 + 1, 0 + (n + k))
<1>1. n + k \in Nat /\ 0 \in Nat
  OBVIOUS
<1>2. a \in Seq(Row) /\ Len(a) = n /\ \A i \in 1 .. n : a[i] = [of |-> c, n |-> i]
  BY <1>1, RowsFacts
<1>3. b \in Seq(Row) /\ Len(b) = k /\ \A i \in 1 .. k : b[i] = [of |-> c, n |-> n + i]
  BY <1>1, RowsFacts
<1>4. w \in Seq(Row) /\ Len(w) = n + k /\ \A i \in 1 .. (n + k) : w[i] = [of |-> c, n |-> i]
  BY <1>1, RowsFacts
<1>5. a = Rows(c, 1, n) /\ w = Rows(c, 1, n + k)
  OBVIOUS
<1>. HIDE DEF a, b, w
<1>6. /\ a \o b \in Seq(Row) /\ Len(a \o b) = n + k
      /\ \A i \in 1 .. (n + k) : (a \o b)[i] = IF i <= n THEN a[i] ELSE b[i - n]
  <2>1. /\ a \o b \in Seq(Row) /\ Len(a \o b) = Len(a) + Len(b)
        /\ \A i \in 1 .. Len(a) + Len(b) : (a \o b)[i] = IF i <= Len(a) THEN a[i] ELSE b[i - Len(a)]
    <3>1. a \in Seq(Row) /\ b \in Seq(Row)
      BY <1>2, <1>3
    <3>. QED BY <3>1, ConcatProperties
  <2>2. Len(a) = n /\ Len(b) = k
    BY <1>2, <1>3
  <2>. QED BY <2>1, <2>2
<1>. DEFINE q == a \o b
<1>7. /\ q \in Seq(Row) /\ Len(q) = n + k
      /\ \A i \in 1 .. (n + k) : q[i] = IF i <= n THEN a[i] ELSE b[i - n]
  BY <1>6
<1>. HIDE DEF q
<1>8. ASSUME NEW i \in 1 .. (n + k) PROVE q[i] = w[i]
  <2>0. w[i] = [of |-> c, n |-> i]
    BY <1>4
  <2>1. CASE i <= n
    <3>1. q[i] = a[i] /\ i \in 1 .. n
      BY <1>7, <2>1
    <3>2. a[i] = [of |-> c, n |-> i]
      BY <1>2, <3>1
    <3>. QED BY <2>0, <3>1, <3>2
  <2>2. CASE i > n
    <3>1. i - n \in 1 .. k /\ n + (i - n) = i /\ ~(i <= n)
      BY <2>2
    <3>2. b[i - n] = [of |-> c, n |-> n + (i - n)]
      BY <1>3, <3>1
    <3>3. q[i] = b[i - n]
      BY <1>7, <3>1
    <3>. QED BY <2>0, <3>1, <3>2, <3>3
  <2>. QED BY <2>1, <2>2
<1>9. q = w
  BY <1>4, <1>7, <1>8, SeqEqual
<1>. QED BY <1>5, <1>9 DEF b, q

-----------------------------------------------------------------------------
(* What a step on one result set leaves of the others                      *)

Same(d) ==
  /\ mode'[d] = mode[d] /\ handle'[d] = handle[d] /\ batches'[d] = batches[d] /\ unread'[d] = unread[d]
  /\ complete'[d] = complete[d] /\ pagination'[d] = pagination[d] /\ given'[d] = given[d]
  /\ lost'[d] = lost[d] /\ outcome'[d] = outcome[d]
  /\ handle[d] # NoHandle => /\ fetch_positions'[handle[d]] = fetch_positions[handle[d]]
                             /\ owner'[handle[d]] = owner[handle[d]]

Own(c) == HandleInv(c) /\ RowsInv(c) /\ (FirstResponseFits => CountInv(c))

\* A result set that the step leaves alone keeps its part of the invariant.
LEMMA SameKeeps ==
  ASSUME NEW d \in Cursors, Own(d), Same(d), UNCHANGED <<size, total>>
  PROVE  Own(d)'
<1>1. HandleInv(d)'
  BY DEF HandleInv, Same, Own
<1>2. RowsInv(d)'
  BY DEF RowsInv, Same, Own
<1>3. FirstResponseFits => CountInv(d)'
  BY DEF CountInv, Same, Own, Full
<1>. QED BY <1>1, <1>2, <1>3 DEF Own

\* The parts of the invariant make it up.
LEMMA FetchInvParts ==
  ASSUME FetchInv, NEW c \in Cursors, TypeOK', Own(c)', \A d \in Cursors \ {c} : Same(d),
         UNCHANGED <<size, total>>, \A h \in Handles : OwnerInv(h)'
  PROVE  FetchInv'
<1>1. ASSUME NEW d \in Cursors PROVE Own(d)'
  <2>1. CASE d = c
    BY <2>1
  <2>2. CASE d # c
    <3>1. Own(d) /\ Same(d)
      BY <2>2 DEF FetchInv, Own
    <3>. QED BY <3>1, SameKeeps
  <2>. QED BY <2>1, <2>2
<1>. QED BY <1>1 DEF FetchInv, Own

\* Two result sets never hold the same handle.
LEMMA HandlesApart ==
  ASSUME FetchInv, NEW c \in Cursors, NEW d \in Cursors, c # d, handle[c] # NoHandle
  PROVE  handle[d] # handle[c]
  BY DEF FetchInv, HandleInv

\* A step that leaves the handles alone keeps what the server still keeps.
LEMMA OwnersKeep ==
  ASSUME FetchInv, UNCHANGED <<owner, handle, asked>>,
         \A d \in Cursors : /\ mode[d] # "new" => mode'[d] # "new"
                            /\ mode[d] = "dropped" => mode'[d] = "dropped"
  PROVE  \A h \in Handles : OwnerInv(h)'
  BY DEF FetchInv, OwnerInv

-----------------------------------------------------------------------------
(* The steps                                                               *)

\* IntoIterator keeps the invariant.
LEMMA IntoIteratorKeeps ==
  ASSUME FetchInv, NEW c \in Cursors, IntoIterator(c)
  PROVE  FetchInv'
<1>1. /\ mode[c] = "set" /\ mode' = [mode EXCEPT ![c] = "iter"]
      /\ \E w \in {"task", "blocking", "outside"} : caller' = [caller EXCEPT ![c] = w]
      /\ UNCHANGED <<size, total, owner, fetch_positions, handle, batches, unread, complete, pagination, given,
                     lost, outcome, asked>>
  BY DEF IntoIterator, Set, server, delivered
<1>2. TypeOK'
  BY <1>1 DEF FetchInv, TypeOK, Modes
<1>3. mode'[c] = "iter" /\ \A d \in Cursors \ {c} : mode'[d] = mode[d]
  BY <1>1 DEF FetchInv, TypeOK
<1>4. \A d \in Cursors \ {c} : Same(d)
  BY <1>1, <1>3 DEF Same
<1>5. Own(c)'
  <2>1. Own(c)
    BY DEF FetchInv, Own
  <2>. QED BY <1>1, <1>3, <2>1 DEF Own, HandleInv, RowsInv, CountInv, Full, Reading
<1>6. \A h \in Handles : OwnerInv(h)'
  BY <1>1, <1>3, OwnersKeep
<1>. QED BY <1>1, <1>2, <1>4, <1>5, <1>6, FetchInvParts

\* NextBuffered keeps the invariant.
LEMMA NextBufferedKeeps ==
  ASSUME FetchInv, NEW c \in Cursors, NextBuffered(c)
  PROVE  FetchInv'
<1>1. /\ mode[c] = "iter" /\ unread[c] = "yes" /\ unread' = [unread EXCEPT ![c] = "no"]
      /\ given' = [given EXCEPT ![c] = batches[c]]
      /\ UNCHANGED <<size, total, owner, fetch_positions, mode, caller, handle, batches, complete, pagination,
                     lost, outcome, asked>>
  BY DEF NextBuffered, Set, server
<1>2. TypeOK'
  BY <1>1 DEF FetchInv, TypeOK
<1>3. /\ unread'[c] = "no" /\ given'[c] = batches[c]
      /\ \A d \in Cursors \ {c} : unread'[d] = unread[d] /\ given'[d] = given[d]
  BY <1>1 DEF FetchInv, TypeOK
<1>4. \A d \in Cursors \ {c} : Same(d)
  BY <1>1, <1>3 DEF Same
<1>5. Own(c)'
  <2>1. Own(c)
    BY DEF FetchInv, Own
  <2>. QED BY <1>1, <1>3, <2>1 DEF Own, HandleInv, RowsInv, CountInv, Full, Reading
<1>6. \A h \in Handles : OwnerInv(h)'
  BY <1>1, OwnersKeep
<1>. QED BY <1>1, <1>2, <1>4, <1>5, <1>6, FetchInvParts
\* NextAtEnd keeps the invariant.
LEMMA NextAtEndKeeps ==
  ASSUME FetchInv, NEW c \in Cursors, NextAtEnd(c)
  PROVE  FetchInv'
<1>1. /\ mode[c] = "iter" /\ unread[c] = "no" /\ complete' = [complete EXCEPT ![c] = "yes"]
      /\ outcome' = [outcome EXCEPT ![c] = IF outcome[c] = "open" THEN "ended" ELSE outcome[c]]
      /\ UNCHANGED <<size, total, owner, fetch_positions, mode, caller, handle, batches, unread, pagination, given, lost,
                     asked>>
  BY DEF NextAtEnd, Set, Ends, server
<1>2. TypeOK'
  BY <1>1 DEF FetchInv, TypeOK, Modes
<1>3. /\ complete'[c] = "yes" /\ outcome'[c] # "open"
      /\ \A d \in Cursors \ {c} : complete'[d] = complete[d] /\ outcome'[d] = outcome[d]
  BY <1>1 DEF FetchInv, TypeOK
<1>4. \A d \in Cursors \ {c} : Same(d)
  BY <1>1, <1>3 DEF Same
<1>5. Own(c)'
  <2>1. Own(c)
    BY DEF FetchInv, Own
  <2>. QED BY <1>1, <1>3, <2>1 DEF Own, HandleInv, RowsInv, CountInv, Full, Reading
<1>6. \A h \in Handles : OwnerInv(h)'
  BY <1>1, <1>3, OwnersKeep
<1>. QED BY <1>1, <1>2, <1>4, <1>5, <1>6, FetchInvParts

\* NextPanics keeps the invariant.
LEMMA NextPanicsKeeps ==
  ASSUME FetchInv, NEW c \in Cursors, NextPanics(c)
  PROVE  FetchInv'
<1>1. /\ mode[c] = "iter" /\ mode' = [mode EXCEPT ![c] = "panicked"]
      /\ UNCHANGED <<size, total, owner, fetch_positions, caller, handle, batches, unread, complete, pagination, given,
                     lost, outcome, asked>>
  BY DEF NextPanics, Set, NextNeedsPage, server, delivered
<1>2. TypeOK'
  BY <1>1 DEF FetchInv, TypeOK, Modes
<1>3. mode'[c] = "panicked" /\ \A d \in Cursors \ {c} : mode'[d] = mode[d]
  BY <1>1 DEF FetchInv, TypeOK
<1>4. \A d \in Cursors \ {c} : Same(d)
  BY <1>1, <1>3 DEF Same
<1>5. Own(c)'
  <2>1. Own(c)
    BY DEF FetchInv, Own
  <2>. QED BY <1>1, <1>3, <2>1 DEF Own, HandleInv, RowsInv, CountInv, Full, Reading
<1>6. \A h \in Handles : OwnerInv(h)'
  BY <1>1, <1>3, OwnersKeep
<1>. QED BY <1>1, <1>2, <1>4, <1>5, <1>6, FetchInvParts

\* DropReader keeps the invariant.
LEMMA DropReaderKeeps ==
  ASSUME FetchInv, NEW c \in Cursors, DropReader(c)
  PROVE  FetchInv'
<1>1. /\ mode[c] \in {"set", "iter"} /\ mode' = [mode EXCEPT ![c] = "dropped"]
      /\ UNCHANGED <<size, total, owner, fetch_positions, caller, handle, batches, unread, complete, pagination, given,
                     lost, outcome, asked>>
  BY DEF DropReader, Set, server, delivered
<1>2. TypeOK'
  BY <1>1 DEF FetchInv, TypeOK, Modes
<1>3. mode'[c] = "dropped" /\ \A d \in Cursors \ {c} : mode'[d] = mode[d]
  BY <1>1 DEF FetchInv, TypeOK
<1>4. \A d \in Cursors \ {c} : Same(d)
  BY <1>1, <1>3 DEF Same
<1>5. Own(c)'
  <2>1. Own(c)
    BY DEF FetchInv, Own
  <2>. QED BY <1>1, <1>3, <2>1 DEF Own, HandleInv, RowsInv, CountInv, Full, Reading
<1>6. \A h \in Handles : OwnerInv(h)'
  BY <1>1, <1>3, OwnersKeep
<1>. QED BY <1>1, <1>2, <1>4, <1>5, <1>6, FetchInvParts

\* The end of the pagination keeps the invariant: its success is one with every row.
LEMMA PaginatedKeeps ==
  ASSUME FetchInv, NEW c \in Cursors, mode[c] \in {"set", "all"}, NEW r \in {"ok", "err"}, Paginated(c, r),
         (FirstResponseFits /\ r = "ok") => Full(c),
         UNCHANGED <<size, total, owner, caller, handle, batches, unread, complete, given, lost, outcome, asked>>,
         fetch_positions' \in [Handles -> Nat],
         \A d \in Cursors \ {c} : handle[d] # NoHandle => fetch_positions'[handle[d]] = fetch_positions[handle[d]]
  PROVE  FetchInv'
<1>1. mode' = [mode EXCEPT ![c] = "closing"] /\ pagination' = [pagination EXCEPT ![c] = r]
  BY DEF Paginated, Set
<1>2. TypeOK'
  BY <1>1 DEF FetchInv, TypeOK, Modes
<1>3. /\ mode'[c] = "closing" /\ pagination'[c] = r
      /\ \A d \in Cursors \ {c} : mode'[d] = mode[d] /\ pagination'[d] = pagination[d]
  BY <1>1 DEF FetchInv, TypeOK
<1>4. \A d \in Cursors \ {c} : Same(d)
  BY <1>3 DEF Same
<1>5. Own(c)'
  <2>1. Own(c)
    BY DEF FetchInv, Own
  <2>2. HandleInv(c)' /\ RowsInv(c)'
    BY <1>3, <2>1 DEF Own, HandleInv, RowsInv, Reading
  <2>3. FirstResponseFits => CountInv(c)'
    BY <1>3, <2>1 DEF Own, CountInv, Full, Reading
  <2>. QED BY <2>2, <2>3 DEF Own
<1>6. \A h \in Handles : OwnerInv(h)'
  BY <1>3, OwnersKeep
<1>. QED BY <1>2, <1>4, <1>5, <1>6, FetchInvParts

\* The way of BeginFetchAll into paginate_remaining.
ToAll(c) ==
  /\ mode[c] = "set" /\ handle[c] # NoHandle /\ complete[c] = "no"
  /\ mode' = Set(mode, c, "all")
  /\ UNCHANGED <<size, total, owner, fetch_positions, caller, handle, batches, unread, complete, pagination, given,
                 lost, outcome, asked>>

\* It keeps the invariant.
LEMMA ToAllKeeps ==
  ASSUME FetchInv, NEW c \in Cursors, ToAll(c)
  PROVE  FetchInv'
<1>1. /\ mode[c] = "set" /\ handle[c] # NoHandle /\ complete[c] = "no" /\ mode' = [mode EXCEPT ![c] = "all"]
      /\ UNCHANGED <<size, total, owner, fetch_positions, caller, handle, batches, unread, complete, pagination, given,
                     lost, outcome, asked>>
  BY DEF ToAll, Set
<1>2. TypeOK'
  BY <1>1 DEF FetchInv, TypeOK, Modes
<1>3. mode'[c] = "all" /\ \A d \in Cursors \ {c} : mode'[d] = mode[d]
  BY <1>1 DEF FetchInv, TypeOK
<1>4. \A d \in Cursors \ {c} : Same(d)
  BY <1>1, <1>3 DEF Same
<1>5. Own(c)'
  <2>1. Own(c)
    BY DEF FetchInv, Own
  <2>. QED BY <1>1, <1>3, <2>1 DEF Own, HandleInv, RowsInv, CountInv, Full, Reading
<1>6. \A h \in Handles : OwnerInv(h)'
  BY <1>1, <1>3, OwnersKeep
<1>. QED BY <1>1, <1>2, <1>4, <1>5, <1>6, FetchInvParts

\* BeginFetchAll keeps the invariant.
LEMMA BeginFetchAllKeeps ==
  ASSUME FetchInv, NEW c \in Cursors, BeginFetchAll(c)
  PROVE  FetchInv'
<1>1. /\ mode[c] = "set"
      /\ UNCHANGED <<size, total, owner, fetch_positions, caller, handle, batches, unread, complete, given, lost,
                     outcome, asked>>
  BY DEF BeginFetchAll, server, delivered
<1>2. CASE handle[c] # NoHandle /\ complete[c] = "no"
  <2>1. ToAll(c)
    BY <1>1, <1>2 DEF BeginFetchAll, ToAll
  <2>. QED BY <2>1, ToAllKeeps
<1>3. CASE ~(handle[c] # NoHandle /\ complete[c] = "no")
  <2>. DEFINE r == IF BufferedRowsMatch(c) THEN "ok" ELSE "err"
  <2>1. r \in {"ok", "err"} /\ Paginated(c, r)
    BY <1>3 DEF BeginFetchAll
  <2>2. Own(c)
    BY DEF FetchInv, Own
  <2>3. complete[c] = "yes" /\ outcome[c] = "open"
    BY <1>1, <1>3, <2>2 DEF FetchInv, TypeOK, Own, HandleInv, RowsInv, Reading
  <2>4. FirstResponseFits => Full(c)
    BY <1>1, <2>2, <2>3 DEF Own, CountInv
  <2>5. fetch_positions' \in [Handles -> Nat]
    BY <1>1 DEF FetchInv, TypeOK
  <2>. HIDE DEF r
  <2>. QED BY <1>1, <2>1, <2>4, <2>5, PaginatedKeeps
<1>. QED BY <1>2, <1>3

\* AllAtTotal and AllFails keep the invariant.
LEMMA AllEndsKeeps ==
  ASSUME FetchInv, NEW c \in Cursors, AllAtTotal(c) \/ AllFails(c)
  PROVE  FetchInv'
<1>1. /\ mode[c] = "all"
      /\ UNCHANGED <<size, total, owner, fetch_positions, caller, handle, batches, unread, complete, given, lost,
                     outcome, asked>>
  BY DEF AllAtTotal, AllFails, server, delivered
<1>2. fetch_positions' \in [Handles -> Nat]
  BY <1>1 DEF FetchInv, TypeOK
<1>3. CASE AllFails(c)
  <2>1. Paginated(c, "err")
    BY <1>3 DEF AllFails
  <2>. QED BY <1>1, <1>2, <2>1, PaginatedKeeps
<1>4. CASE AllAtTotal(c)
  <2>1. Paginated(c, "ok") /\ AtTotal(c)
    BY <1>4 DEF AllAtTotal
  <2>2. FirstResponseFits => CountInv(c)
    BY DEF FetchInv
  <2>3. Len(batches[c]) \in Nat /\ total[c] \in Nat
    BY DEF FetchInv, TypeOK
  <2>4. FirstResponseFits => Full(c)
    BY <1>1, <2>1, <2>2, <2>3 DEF CountInv, Full, AtTotal, Reading
  <2>. QED BY <1>1, <1>2, <2>1, <2>4, PaginatedKeeps
<1>. QED BY <1>3, <1>4
\* A page of a result set that is being read holds the rows that follow those received.
LEMMA PageFacts ==
  ASSUME FetchInv, NEW c \in Cursors, mode[c] \in Reading, complete[c] = "no", NEW k \in PageSizes(c), Advance(c, k)
  PROVE  /\ k \in Nat /\ Len(batches[c]) \in Nat /\ lost[c] \in Nat /\ total[c] \in Nat /\ size[c] \in Nat
         /\ handle[c] \in Handles /\ handle[c] # NoHandle
         /\ Len(batches[c]) + lost[c] + k <= size[c]
         /\ k = 0 => Len(batches[c]) + lost[c] = size[c]
         /\ Page(c, k) = Rows(c, Len(batches[c]) + lost[c] + 1, Len(batches[c]) + lost[c] + k)
         /\ Page(c, k) \in Seq(Row) /\ Len(Page(c, k)) = k
         /\ batches[c] \o Page(c, k) \in Seq(Row) /\ Len(batches[c] \o Page(c, k)) = Len(batches[c]) + k
         /\ fetch_positions' \in [Handles -> Nat]
         /\ fetch_positions'[handle[c]] = Len(batches[c]) + lost[c] + k
         /\ \A d \in Cursors \ {c} :
              handle[d] # NoHandle => fetch_positions'[handle[d]] = fetch_positions[handle[d]]
<1>1. HandleInv(c) /\ RowsInv(c) /\ TypeOK
  BY DEF FetchInv
<1>2. handle[c] \in Handles /\ handle[c] # NoHandle /\ owner[handle[c]] = c
  BY <1>1 DEF HandleInv, TypeOK
<1>3. /\ Len(batches[c]) \in Nat /\ lost[c] \in Nat /\ total[c] \in Nat /\ size[c] \in Nat
      /\ batches[c] \in Seq(Row)
  BY <1>1 DEF TypeOK
<1>. DEFINE p == Len(batches[c]) + lost[c]
<1>4. p \in Nat /\ p <= size[c] /\ fetch_positions[handle[c]] = p
  BY <1>1, <1>3 DEF HandleInv, RowsInv
<1>. HIDE DEF p
<1>5. k \in Nat /\ p + k <= size[c] /\ (k = 0 => p = size[c])
  <2>1. k \in IF p >= size[c] THEN {0} ELSE {j \in 1 .. PageRows : p + j <= size[c]}
    BY <1>2, <1>4, ResultFetchAssumption DEF PageSizes
  <2>2. PageRows \in Nat
    BY ResultFetchAssumption
  <2>. QED BY <1>3, <1>4, <2>1, <2>2
<1>6. Page(c, k) = Rows(c, p + 1, p + k)
  BY <1>2, <1>4 DEF Page
<1>7. Page(c, k) \in Seq(Row) /\ Len(Page(c, k)) = k
  <2>1. Rows(c, p + 1, p + k) \in Seq(Row) /\ Len(Rows(c, p + 1, p + k)) = k
    <3>1. p \in Nat /\ k \in Nat
      BY <1>4, <1>5
    <3>. QED BY <3>1, RowsFacts
  <2>. QED BY <1>6, <2>1
<1>8. batches[c] \o Page(c, k) \in Seq(Row) /\ Len(batches[c] \o Page(c, k)) = Len(batches[c]) + k
  <2>. DEFINE b == batches[c]
              g == Page(c, k)
  <2>1. b \in Seq(Row) /\ g \in Seq(Row) /\ Len(g) = k
    BY <1>3, <1>7
  <2>. HIDE DEF b, g
  <2>2. b \o g \in Seq(Row) /\ Len(b \o g) = Len(b) + Len(g)
    BY <2>1, ConcatProperties
  <2>. QED BY <2>1, <2>2 DEF b, g
<1>9. fetch_positions' = [fetch_positions EXCEPT ![handle[c]] = p + k]
  BY <1>4 DEF Advance, Set
<1>10. fetch_positions' \in [Handles -> Nat] /\ fetch_positions'[handle[c]] = p + k
  BY <1>1, <1>2, <1>4, <1>5, <1>9 DEF TypeOK
<1>11. ASSUME NEW d \in Cursors \ {c}, handle[d] # NoHandle
       PROVE  fetch_positions'[handle[d]] = fetch_positions[handle[d]]
  <2>1. handle[d] # handle[c] /\ handle[d] \in Handles
    BY <1>1, <1>2, <1>11, HandlesApart DEF TypeOK
  <2>. QED BY <1>1, <1>9, <2>1 DEF TypeOK
<1>. QED BY <1>2, <1>3, <1>5, <1>6, <1>7, <1>8, <1>10, <1>11 DEF p

\* A page appended to the first rows gives the first rows.
LEMMA PageAppended ==
  ASSUME FetchInv, NEW c \in Cursors, mode[c] \in Reading, complete[c] = "no", NEW k \in PageSizes(c), Advance(c, k),
         lost[c] = 0
  PROVE  batches[c] \o Page(c, k) = Rows(c, 1, Len(batches[c] \o Page(c, k)))
<1>. DEFINE n == Len(batches[c])
<1>1. /\ k \in Nat /\ n \in Nat /\ Len(batches[c] \o Page(c, k)) = n + k
      /\ Page(c, k) = Rows(c, n + lost[c] + 1, n + lost[c] + k)
  BY PageFacts
<1>2. batches[c] = Rows(c, 1, n)
  BY DEF FetchInv, RowsInv
<1>3. n + lost[c] = n
  BY <1>1
<1>4. Page(c, k) = Rows(c, n + 1, n + k)
  BY <1>1, <1>3
<1>5. Rows(c, 1, n) \o Rows(c, n + 1, n + k) = Rows(c, 1, n + k)
  BY <1>1, RowsConcat
<1>. HIDE DEF n
<1>. QED BY <1>1, <1>2, <1>4, <1>5

\* AllFetched keeps the invariant.
LEMMA AllFetchedKeeps ==
  ASSUME FetchInv, NEW c \in Cursors, AllFetched(c)
  PROVE  FetchInv'
<1>1. /\ mode[c] = "all" /\ ~AtTotal(c)
      /\ UNCHANGED <<size, total, owner, caller, handle, unread, complete, given, lost, outcome, asked>>
  BY DEF AllFetched, server, delivered
<1>2. Own(c) /\ TypeOK
  BY DEF FetchInv, Own
<1>3. mode[c] \in Reading /\ complete[c] = "no" /\ lost[c] = 0 /\ given[c] = <<>> /\ outcome[c] = "open"
  BY <1>1, <1>2 DEF Own, RowsInv, Reading
<1>4. PICK k \in PageSizes(c) :
        /\ Advance(c, k)
        /\ \/ k = 0 /\ total[c] = 0 /\ Paginated(c, "ok") /\ UNCHANGED batches
           \/ (k > 0 \/ Mismatch(c, k)) /\ Paginated(c, "err") /\ UNCHANGED batches
           \/ /\ k > 0
              /\ ~Mismatch(c, k)
              /\ batches' = Set(batches, c, batches[c] \o Page(c, k))
              /\ UNCHANGED <<mode, pagination>>
  BY DEF AllFetched
<1>5. /\ k \in Nat /\ Len(batches[c]) \in Nat /\ total[c] \in Nat /\ size[c] \in Nat
      /\ handle[c] # NoHandle
      /\ Len(batches[c]) + lost[c] + k <= size[c]
      /\ k = 0 => Len(batches[c]) + lost[c] = size[c]
      /\ batches[c] \o Page(c, k) \in Seq(Row) /\ Len(batches[c] \o Page(c, k)) = Len(batches[c]) + k
      /\ fetch_positions' \in [Handles -> Nat]
      /\ fetch_positions'[handle[c]] = Len(batches[c]) + lost[c] + k
      /\ \A d \in Cursors \ {c} :
           handle[d] # NoHandle => fetch_positions'[handle[d]] = fetch_positions[handle[d]]
  BY <1>3, <1>4, PageFacts
<1>6. CASE k = 0 /\ total[c] = 0 /\ Paginated(c, "ok") /\ UNCHANGED batches
  <2>1. Full(c)
    BY <1>5, <1>6 DEF Full
  <2>. QED BY <1>1, <1>5, <1>6, <2>1, PaginatedKeeps
<1>7. CASE Paginated(c, "err") /\ UNCHANGED batches
  BY <1>1, <1>5, <1>7, PaginatedKeeps
<1>8. CASE /\ k > 0 /\ ~Mismatch(c, k)
           /\ batches' = Set(batches, c, batches[c] \o Page(c, k))
           /\ UNCHANGED <<mode, pagination>>
  <2>1. TypeOK'
    BY <1>1, <1>2, <1>5, <1>8 DEF TypeOK, Set
  <2>2. /\ batches'[c] = batches[c] \o Page(c, k)
        /\ \A d \in Cursors \ {c} : batches'[d] = batches[d]
    BY <1>2, <1>8 DEF TypeOK, Set
  <2>3. \A d \in Cursors \ {c} : Same(d)
    BY <1>1, <1>5, <1>8, <2>2 DEF Same
  <2>4. Len(batches'[c]) = Len(batches[c]) + k /\ batches'[c] = Rows(c, 1, Len(batches'[c]))
    BY <1>3, <1>4, <1>5, <2>2, PageAppended
  <2>5. HandleInv(c)'
    BY <1>1, <1>2, <1>3, <1>5, <1>8, <2>4 DEF Own, HandleInv
  <2>6. RowsInv(c)'
    BY <1>1, <1>2, <1>3, <1>5, <1>8, <2>4 DEF Own, RowsInv
  <2>7. CountInv(c)'
    BY <1>1, <1>5, <1>8, <2>4 DEF CountInv, Mismatch
  <2>8. \A h \in Handles : OwnerInv(h)'
    BY <1>1, <1>8, OwnersKeep
  <2>. QED BY <1>1, <2>1, <2>3, <2>5, <2>6, <2>7, <2>8, FetchInvParts DEF Own
<1>. QED BY <1>4, <1>6, <1>7, <1>8

\* NextFetched keeps the invariant.
LEMMA NextFetchedKeeps ==
  ASSUME FetchInv, NEW c \in Cursors, NextFetched(c)
  PROVE  FetchInv'
<1>1. /\ mode[c] = "iter" /\ unread[c] = "no" /\ complete[c] = "no" /\ mode[c] \in Reading
      /\ UNCHANGED <<size, total, owner, mode, caller, handle, unread, pagination, asked>>
  BY DEF NextFetched, NextNeedsPage, server, Reading
<1>2. Own(c) /\ TypeOK
  BY DEF FetchInv, Own
<1>3. given[c] = batches[c] /\ outcome[c] = "open"
  BY <1>1, <1>2 DEF Own, RowsInv
<1>4. PICK k \in PageSizes(c) :
        /\ Advance(c, k)
        /\ \/ k = 0 /\ total[c] = 0 /\ Ends(c) /\ UNCHANGED <<batches, given, lost>>
           \/ /\ Mismatch(c, k)
              /\ complete' = Set(complete, c, "yes")
              /\ outcome' = Set(outcome, c, "failed")
              /\ UNCHANGED <<batches, given, lost>>
           \/ /\ k > 0
              /\ lost' = Set(lost, c, lost[c] + k)
              /\ UNCHANGED <<batches, given, complete, outcome>>
           \/ /\ k > 0
              /\ ~Mismatch(c, k)
              /\ batches' = Set(batches, c, batches[c] \o Page(c, k))
              /\ given' = Set(given, c, given[c] \o Page(c, k))
              /\ UNCHANGED <<lost, complete, outcome>>
  BY DEF NextFetched
<1>5. /\ k \in Nat /\ Len(batches[c]) \in Nat /\ lost[c] \in Nat /\ total[c] \in Nat /\ size[c] \in Nat
      /\ handle[c] # NoHandle
      /\ Len(batches[c]) + lost[c] + k <= size[c]
      /\ batches[c] \o Page(c, k) \in Seq(Row) /\ Len(batches[c] \o Page(c, k)) = Len(batches[c]) + k
      /\ fetch_positions' \in [Handles -> Nat]
      /\ fetch_positions'[handle[c]] = Len(batches[c]) + lost[c] + k
      /\ \A d \in Cursors \ {c} :
           handle[d] # NoHandle => fetch_positions'[handle[d]] = fetch_positions[handle[d]]
  BY <1>1, <1>4, PageFacts
<1>6. \A h \in Handles : OwnerInv(h)'
  BY <1>1, OwnersKeep
<1>7. ASSUME NEW e \in {"ended", "failed"}, complete' = Set(complete, c, "yes"), outcome' = Set(outcome, c, e),
             UNCHANGED <<batches, given, lost>>
      PROVE  FetchInv'
  <2>1. TypeOK'
    BY <1>1, <1>2, <1>5, <1>7 DEF TypeOK, Set
  <2>2. /\ complete'[c] = "yes" /\ outcome'[c] = e
        /\ \A d \in Cursors \ {c} : complete'[d] = complete[d] /\ outcome'[d] = outcome[d]
    BY <1>2, <1>7 DEF TypeOK, Set
  <2>3. \A d \in Cursors \ {c} : Same(d)
    BY <1>1, <1>5, <1>7, <2>2 DEF Same
  <2>4. Own(c)'
    BY <1>1, <1>2, <1>7, <2>2 DEF Own, HandleInv, RowsInv, CountInv, Reading
  <2>. QED BY <1>1, <1>6, <2>1, <2>3, <2>4, FetchInvParts
<1>8. CASE k > 0 /\ lost' = Set(lost, c, lost[c] + k) /\ UNCHANGED <<batches, given, complete, outcome>>
  <2>0. lost[c] + k \in Nat
    BY <1>5
  <2>1. TypeOK'
    BY <1>1, <1>2, <1>5, <1>8, <2>0 DEF TypeOK, Set
  <2>2. lost'[c] = lost[c] + k /\ \A d \in Cursors \ {c} : lost'[d] = lost[d]
    BY <1>2, <1>8 DEF TypeOK, Set
  <2>3. \A d \in Cursors \ {c} : Same(d)
    BY <1>1, <1>5, <1>8, <2>2 DEF Same
  <2>4. HandleInv(c)'
    BY <1>1, <1>2, <1>5, <1>8, <2>2 DEF Own, HandleInv
  <2>5. RowsInv(c)'
    BY <1>1, <1>2, <1>3, <1>5, <1>8, <2>2 DEF Own, RowsInv
  <2>6. FirstResponseFits => CountInv(c)'
    BY <1>1, <1>2, <1>8 DEF Own, CountInv
  <2>. QED BY <1>1, <1>6, <2>1, <2>3, <2>4, <2>5, <2>6, FetchInvParts DEF Own
<1>9. CASE /\ k > 0 /\ ~Mismatch(c, k)
           /\ batches' = Set(batches, c, batches[c] \o Page(c, k))
           /\ given' = Set(given, c, given[c] \o Page(c, k))
           /\ UNCHANGED <<lost, complete, outcome>>
  <2>1. TypeOK'
    BY <1>1, <1>2, <1>3, <1>5, <1>9 DEF TypeOK, Set
  <2>2. /\ batches'[c] = batches[c] \o Page(c, k) /\ given'[c] = batches[c] \o Page(c, k)
        /\ \A d \in Cursors \ {c} : batches'[d] = batches[d] /\ given'[d] = given[d]
    BY <1>2, <1>3, <1>9 DEF TypeOK, Set
  <2>3. \A d \in Cursors \ {c} : Same(d)
    BY <1>1, <1>5, <1>9, <2>2 DEF Same
  <2>4. Len(batches'[c]) = Len(batches[c]) + k /\ (lost[c] = 0 => batches'[c] = Rows(c, 1, Len(batches'[c])))
    BY <1>1, <1>4, <1>5, <2>2, PageAppended
  <2>5. HandleInv(c)'
    BY <1>1, <1>2, <1>5, <1>9, <2>4 DEF Own, HandleInv
  <2>6. RowsInv(c)'
    BY <1>1, <1>3, <1>5, <1>9, <2>2, <2>4 DEF RowsInv
  <2>7. CountInv(c)'
    BY <1>1, <1>5, <1>9, <2>4 DEF CountInv, Mismatch
  <2>. QED BY <1>1, <1>6, <2>1, <2>3, <2>5, <2>6, <2>7, FetchInvParts DEF Own
<1>. QED BY <1>3, <1>4, <1>7, <1>8, <1>9 DEF Ends
\* Execute keeps the invariant.
LEMMA ExecuteKeeps ==
  ASSUME FetchInv, NEW c \in Cursors, Execute(c)
  PROVE  FetchInv'
<1>1. mode[c] = "new" /\ UNCHANGED <<size, total, caller, unread, pagination, given, lost, asked>>
  BY DEF Execute
<1>2. Own(c) /\ TypeOK
  BY DEF FetchInv, Own
<1>3. PICK n \in 0 .. size[c], h \in {NoHandle} \cup {g \in Handles : owner[g] = NoOwner} :
        /\ FirstResponse(c, n, h)
        /\ owner' = IF h = NoHandle THEN owner ELSE Set(owner, h, c)
        /\ StartPosition(h, n)
        /\ \/ /\ mode' = Set(mode, c, "set")
              /\ handle' = Set(handle, c, h)
              /\ batches' = Set(batches, c, Rows(c, 1, n))
              /\ complete' = Set(complete, c, IF h = NoHandle \/ total[c] = n THEN "yes" ELSE "no")
              /\ UNCHANGED outcome
           \/ /\ mode' = Set(mode, c, "dropped")
              /\ outcome' = Set(outcome, c, "failed")
              /\ UNCHANGED <<handle, batches, complete>>
  BY DEF Execute
<1>4. /\ size[c] \in Nat /\ total[c] \in Nat /\ n \in Nat /\ n <= size[c]
      /\ h \in Handles \cup {NoHandle} /\ NoOwner \notin Cursors /\ NoHandle \notin Handles
      /\ h # NoHandle => h \in Handles /\ owner[h] = NoOwner
      /\ lost[c] = 0 /\ given[c] = <<>> /\ outcome[c] = "open" /\ unread[c] = "yes" /\ handle[c] = NoHandle
  BY <1>1, <1>2, ResultFetchAssumption DEF TypeOK, Own, RowsInv, HandleInv, NoHandle
<1>5. /\ owner' \in [Handles -> Cursors \cup {NoOwner}] /\ fetch_positions' \in [Handles -> Nat]
      /\ h # NoHandle => owner'[h] = c /\ fetch_positions'[h] = n
      /\ \A g \in Handles \ {h} : owner'[g] = owner[g] /\ fetch_positions'[g] = fetch_positions[g]
  BY <1>2, <1>3, <1>4 DEF TypeOK, Set, StartPosition
<1>6. ASSUME NEW d \in Cursors \ {c}, handle[d] # NoHandle
      PROVE  fetch_positions'[handle[d]] = fetch_positions[handle[d]] /\ owner'[handle[d]] = owner[handle[d]]
  <2>1. handle[d] \in Handles /\ owner[handle[d]] = d
    BY <1>6 DEF FetchInv, TypeOK, HandleInv
  <2>2. handle[d] # h
    BY <1>4, <2>1
  <2>. QED BY <1>5, <2>1, <2>2
<1>7. ASSUME NEW g \in Handles, owner[g] \in Cursors
      PROVE  owner[g] # c /\ g # h
  BY <1>1, <1>4, <1>7 DEF FetchInv, OwnerInv
<1>8. Rows(c, 1, n) \in Seq(Row) /\ Len(Rows(c, 1, n)) = n
  BY <1>4, FirstRows
<1>9. CASE /\ mode' = Set(mode, c, "set")
           /\ handle' = Set(handle, c, h)
           /\ batches' = Set(batches, c, Rows(c, 1, n))
           /\ complete' = Set(complete, c, IF h = NoHandle \/ total[c] = n THEN "yes" ELSE "no")
           /\ UNCHANGED outcome
  <2>1. TypeOK'
    BY <1>1, <1>2, <1>4, <1>5, <1>8, <1>9 DEF TypeOK, Set, Modes
  <2>2. /\ mode'[c] = "set" /\ handle'[c] = h /\ batches'[c] = Rows(c, 1, n)
        /\ complete'[c] = (IF h = NoHandle \/ total[c] = n THEN "yes" ELSE "no")
        /\ \A d \in Cursors \ {c} : /\ mode'[d] = mode[d] /\ handle'[d] = handle[d] /\ batches'[d] = batches[d]
                                    /\ complete'[d] = complete[d]
    BY <1>2, <1>9 DEF TypeOK, Set
  <2>3. \A d \in Cursors \ {c} : Same(d)
    BY <1>1, <1>6, <1>9, <2>2 DEF Same
  <2>4. HandleInv(c)'
    BY <1>1, <1>4, <1>5, <1>8, <2>2 DEF HandleInv
  <2>5. RowsInv(c)'
    BY <1>1, <1>4, <1>8, <1>9, <2>2 DEF RowsInv
  <2>6. FirstResponseFits => CountInv(c)'
    BY <1>1, <1>3, <1>4, <1>8, <1>9, <2>2 DEF CountInv, Full, FirstResponse, Reading
  <2>7. ASSUME NEW g \in Handles PROVE OwnerInv(g)'
    <3>1. CASE g = h
      BY <1>4, <1>5, <2>2, <3>1 DEF OwnerInv
    <3>2. CASE g # h
      <4>1. owner'[g] = owner[g] /\ OwnerInv(g)
        BY <1>5, <3>2 DEF FetchInv
      <4>. QED BY <1>1, <1>7, <2>2, <4>1 DEF OwnerInv
    <3>. QED BY <3>1, <3>2
  <2>. QED BY <1>1, <2>1, <2>3, <2>4, <2>5, <2>6, <2>7, FetchInvParts DEF Own
<1>10. CASE /\ mode' = Set(mode, c, "dropped")
            /\ outcome' = Set(outcome, c, "failed")
            /\ UNCHANGED <<handle, batches, complete>>
  <2>1. TypeOK'
    BY <1>1, <1>2, <1>5, <1>10 DEF TypeOK, Set, Modes
  <2>2. /\ mode'[c] = "dropped" /\ outcome'[c] = "failed"
        /\ \A d \in Cursors \ {c} : mode'[d] = mode[d] /\ outcome'[d] = outcome[d]
    BY <1>2, <1>10 DEF TypeOK, Set
  <2>3. \A d \in Cursors \ {c} : Same(d)
    BY <1>1, <1>6, <1>10, <2>2 DEF Same
  <2>4. Own(c)'
    BY <1>1, <1>2, <1>4, <1>10, <2>2 DEF Own, HandleInv, RowsInv, CountInv, Reading
  <2>5. ASSUME NEW g \in Handles PROVE OwnerInv(g)'
    <3>1. CASE g = h
      BY <1>4, <1>5, <2>2, <3>1 DEF OwnerInv
    <3>2. CASE g # h
      <4>1. owner'[g] = owner[g] /\ OwnerInv(g)
        BY <1>5, <3>2 DEF FetchInv
      <4>. QED BY <1>1, <1>7, <1>10, <2>2, <4>1 DEF OwnerInv
    <3>. QED BY <3>1, <3>2
  <2>. QED BY <1>1, <2>1, <2>3, <2>4, <2>5, FetchInvParts
<1>. QED BY <1>3, <1>9, <1>10

\* What the close of a handle leaves of the transport and of the server.
LEMMA CloseFacts ==
  ASSUME FetchInv, NEW c \in Cursors, mode[c] \in {"iter", "closing"}, CloseHandle(c),
         mode'[c] \in {"fetched", "closed"}, \A d \in Cursors \ {c} : mode'[d] = mode[d]
  PROVE  /\ handle' \in [Cursors -> Handles \cup {NoHandle}] /\ handle'[c] = NoHandle
         /\ owner' \in [Handles -> Cursors \cup {NoOwner}] /\ fetch_positions' \in [Handles -> Nat]
         /\ asked' \in SUBSET Cursors
         /\ \A d \in Cursors \ {c} :
              /\ handle'[d] = handle[d]
              /\ handle[d] # NoHandle => /\ fetch_positions'[handle[d]] = fetch_positions[handle[d]]
                                         /\ owner'[handle[d]] = owner[handle[d]]
         /\ \A h \in Handles : OwnerInv(h)'
<1>1. TypeOK /\ NoOwner \notin Cursors /\ NoHandle \notin Handles
  BY ResultFetchAssumption DEF FetchInv, NoHandle
<1>2. /\ handle' \in [Cursors -> Handles \cup {NoHandle}] /\ handle'[c] = NoHandle
      /\ \A d \in Cursors \ {c} : handle'[d] = handle[d]
  BY <1>1 DEF CloseHandle, Set, TypeOK
<1>3. CASE handle[c] = NoHandle
  <2>1. UNCHANGED <<fetch_positions, owner, asked>>
    BY <1>3 DEF CloseHandle
  <2>2. ASSUME NEW h \in Handles PROVE OwnerInv(h)'
    <3>1. OwnerInv(h)
      BY DEF FetchInv
    <3>2. owner[h] = c => c \in asked
      BY <1>1, <1>3, <3>1 DEF OwnerInv
    <3>. QED BY <1>2, <2>1, <3>1, <3>2 DEF OwnerInv
  <2>. QED BY <1>1, <1>2, <2>1, <2>2 DEF TypeOK
<1>4. CASE handle[c] # NoHandle
  <2>1. /\ handle[c] \in Handles
        /\ fetch_positions' = [fetch_positions EXCEPT ![handle[c]] = 0]
        /\ owner' \in {owner, [owner EXCEPT ![handle[c]] = NoOwner]}
        /\ asked' = asked \cup {c}
    BY <1>1, <1>4 DEF CloseHandle, Set, TypeOK
  <2>2. /\ owner' \in [Handles -> Cursors \cup {NoOwner}] /\ fetch_positions' \in [Handles -> Nat]
        /\ \A h \in Handles : owner'[h] \in {owner[h], NoOwner}
        /\ \A h \in Handles \ {handle[c]} : owner'[h] = owner[h] /\ fetch_positions'[h] = fetch_positions[h]
    BY <1>1, <2>1 DEF TypeOK
  <2>3. ASSUME NEW d \in Cursors \ {c}, handle[d] # NoHandle
        PROVE  handle[d] \in Handles \ {handle[c]}
    BY <1>1, <1>4, <2>3, HandlesApart DEF TypeOK
  <2>4. ASSUME NEW h \in Handles PROVE OwnerInv(h)'
    <3>1. OwnerInv(h) /\ owner'[h] \in {owner[h], NoOwner}
      BY <2>2 DEF FetchInv
    <3>. QED BY <1>1, <1>2, <2>1, <3>1 DEF OwnerInv
  <2>5. asked' \in SUBSET Cursors
    BY <1>1, <2>1 DEF TypeOK
  <2>. QED BY <1>2, <2>2, <2>3, <2>4, <2>5
<1>. QED BY <1>3, <1>4

\* CloseIterator keeps the invariant.
LEMMA CloseIteratorKeeps ==
  ASSUME FetchInv, NEW c \in Cursors, CloseIterator(c)
  PROVE  FetchInv'
<1>1. /\ mode[c] = "iter" /\ mode' = [mode EXCEPT ![c] = "closed"] /\ CloseHandle(c)
      /\ UNCHANGED <<size, total, caller, batches, unread, complete, pagination, given, lost, outcome>>
  BY DEF CloseIterator, Set, delivered
<1>2. Own(c) /\ TypeOK
  BY DEF FetchInv, Own
<1>3. mode'[c] = "closed" /\ \A d \in Cursors \ {c} : mode'[d] = mode[d]
  BY <1>1, <1>2 DEF TypeOK
<1>4. /\ handle' \in [Cursors -> Handles \cup {NoHandle}] /\ handle'[c] = NoHandle
      /\ owner' \in [Handles -> Cursors \cup {NoOwner}] /\ fetch_positions' \in [Handles -> Nat]
      /\ asked' \in SUBSET Cursors
      /\ \A d \in Cursors \ {c} :
           /\ handle'[d] = handle[d]
           /\ handle[d] # NoHandle => /\ fetch_positions'[handle[d]] = fetch_positions[handle[d]]
                                      /\ owner'[handle[d]] = owner[handle[d]]
      /\ \A h \in Handles : OwnerInv(h)'
  BY <1>1, <1>3, CloseFacts
<1>5. TypeOK'
  BY <1>1, <1>2, <1>4 DEF TypeOK, Modes
<1>6. \A d \in Cursors \ {c} : Same(d)
  BY <1>1, <1>3, <1>4 DEF Same
<1>7. Own(c)'
  BY <1>1, <1>2, <1>3, <1>4 DEF Own, HandleInv, RowsInv, CountInv, Reading
<1>. QED BY <1>1, <1>4, <1>5, <1>6, <1>7, FetchInvParts

\* AllCloses keeps the invariant.
LEMMA AllClosesKeeps ==
  ASSUME FetchInv, NEW c \in Cursors, AllCloses(c)
  PROVE  FetchInv'
<1>1. /\ mode[c] = "closing" /\ mode' = [mode EXCEPT ![c] = "fetched"] /\ CloseHandle(c)
      /\ given' = (IF pagination[c] = "ok" THEN [given EXCEPT ![c] = batches[c]] ELSE given)
      /\ outcome' = [outcome EXCEPT ![c] = IF pagination[c] = "ok" THEN "ended" ELSE "failed"]
      /\ UNCHANGED <<size, total, caller, batches, unread, complete, pagination, lost>>
  BY DEF AllCloses, Set
<1>2. Own(c) /\ TypeOK
  BY DEF FetchInv, Own
<1>3. /\ mode'[c] = "fetched" /\ given' \in [Cursors -> Seq(Row)]
      /\ outcome' \in [Cursors -> {"open", "ended", "failed"}]
      /\ \A d \in Cursors \ {c} : mode'[d] = mode[d] /\ given'[d] = given[d] /\ outcome'[d] = outcome[d]
  BY <1>1, <1>2 DEF TypeOK
<1>4. /\ handle' \in [Cursors -> Handles \cup {NoHandle}] /\ handle'[c] = NoHandle
      /\ owner' \in [Handles -> Cursors \cup {NoOwner}] /\ fetch_positions' \in [Handles -> Nat]
      /\ asked' \in SUBSET Cursors
      /\ \A d \in Cursors \ {c} :
           /\ handle'[d] = handle[d]
           /\ handle[d] # NoHandle => /\ fetch_positions'[handle[d]] = fetch_positions[handle[d]]
                                      /\ owner'[handle[d]] = owner[handle[d]]
      /\ \A h \in Handles : OwnerInv(h)'
  BY <1>1, <1>3, CloseFacts
<1>5. TypeOK'
  BY <1>1, <1>2, <1>3, <1>4 DEF TypeOK, Modes
<1>6. \A d \in Cursors \ {c} : Same(d)
  BY <1>1, <1>3, <1>4 DEF Same
<1>7. Own(c)'
  BY <1>1, <1>2, <1>3, <1>4 DEF Own, HandleInv, RowsInv, CountInv, Reading
<1>. QED BY <1>1, <1>4, <1>5, <1>6, <1>7, FetchInvParts

-----------------------------------------------------------------------------
(* The theorems                                                            *)

\* The invariant holds initially.
LEMMA InitFetch == Init => FetchInv
<1>. SUFFICES ASSUME Init PROVE FetchInv
  OBVIOUS
<1>1. Counts \subseteq Nat
  BY ResultFetchAssumption DEF Counts
<1>2. TypeOK
  <2>1. size \in [Cursors -> Nat] /\ total \in [Cursors -> Nat]
    BY <1>1 DEF Init
  <2>2. <<>> \in Seq(Row)
    OBVIOUS
  <2>. QED BY <2>1, <2>2 DEF Init, TypeOK, Modes
<1>3. ASSUME NEW c \in Cursors PROVE Own(c)
  <2>1. Rows(c, 1, 0) = <<>> /\ Len(<<>>) = 0
    <3>1. Rows(c, 1, 0) \in Seq(Row) /\ Len(Rows(c, 1, 0)) = 0
      BY FirstRows
    <3>. QED BY <3>1, EmptySeq
  <2>2. size[c] \in Nat
    BY <1>2 DEF TypeOK
  <2>3. /\ mode[c] = "new" /\ handle[c] = NoHandle /\ batches[c] = <<>> /\ unread[c] = "yes" /\ given[c] = <<>>
        /\ lost[c] = 0 /\ outcome[c] = "open"
    BY DEF Init
  <2>. QED BY <2>1, <2>2, <2>3 DEF Own, HandleInv, RowsInv, CountInv, Reading
<1>4. \A h \in Handles : OwnerInv(h)
  BY ResultFetchAssumption DEF Init, OwnerInv
<1>. QED BY <1>2, <1>3, <1>4 DEF FetchInv, Own

\* A step that changes nothing keeps it.
LEMMA FetchStutter == FetchInv /\ UNCHANGED vars => FetchInv'
<1>. SUFFICES ASSUME FetchInv, UNCHANGED vars PROVE FetchInv'
  OBVIOUS
<1>1. UNCHANGED <<size, total, owner, fetch_positions, mode, caller, handle, batches, unread, complete, pagination,
                  given, lost, outcome, asked>>
  BY DEF vars, server, reading, delivered
<1>2. TypeOK'
  BY <1>1 DEF FetchInv, TypeOK
<1>3. ASSUME NEW c \in Cursors PROVE Own(c)'
  <2>1. Own(c) /\ Same(c)
    BY <1>1 DEF FetchInv, Own, Same
  <2>. QED BY <1>1, <2>1, SameKeeps
<1>4. \A h \in Handles : OwnerInv(h)'
  BY <1>1, OwnersKeep
<1>. QED BY <1>2, <1>3, <1>4 DEF FetchInv, Own

\* Every step keeps the invariant.
LEMMA FetchInductive == FetchInv /\ [Next]_vars => FetchInv'
<1>. SUFFICES ASSUME FetchInv, [Next]_vars PROVE FetchInv'
  OBVIOUS
<1>1. CASE UNCHANGED vars
  BY <1>1, FetchStutter
<1>2. ASSUME NEW c \in Cursors,
             \/ Execute(c) \/ IntoIterator(c) \/ Iterate(c) \/ CloseIterator(c) \/ DropReader(c)
             \/ BeginFetchAll(c) \/ FetchAll(c) \/ AllFails(c)
      PROVE  FetchInv'
  BY <1>2, ExecuteKeeps, IntoIteratorKeeps, NextBufferedKeeps, NextAtEndKeeps, NextPanicsKeeps, NextFetchedKeeps,
     CloseIteratorKeeps, DropReaderKeeps, BeginFetchAllKeeps, AllEndsKeeps, AllFetchedKeeps, AllClosesKeeps
     DEF Iterate, FetchAll
<1>. QED BY <1>1, <1>2 DEF Next

\* Which handle, position and rows belong to which result set, whatever is read, closed
\* or dropped beside it.
THEOREM FetchInvariant == Spec => []FetchInv
<1>. QED BY InitFetch, FetchInductive, PTL DEF Spec

\* The result sets of a connection do not disturb each other and give back their
\* handles, for any number of them and of handles, also when the server uses the number
\* of a closed handle again.
THEOREM CursorsStayApart == Spec => []CursorsApart
<1>1. FetchInv => CursorsApart
  <2>. SUFFICES ASSUME FetchInv PROVE CursorsApart
    OBVIOUS
  <2>1. FetchStartsAtNextRow
    BY DEF FetchInv, HandleInv, FetchStartsAtNextRow, Reading
  <2>2. ReadersRelease
    <3>. SUFFICES ASSUME NEW h \in Handles, owner[h] \in Cursors, mode[owner[h]] \in {"fetched", "closed"}
                  PROVE  owner[h] \in asked
      BY DEF ReadersRelease
    <3>1. handle[owner[h]] = NoHandle /\ h # NoHandle
      BY ResultFetchAssumption DEF FetchInv, HandleInv, NoHandle
    <3>. QED BY <3>1 DEF FetchInv, OwnerInv
  <2>. QED BY <2>1, <2>2 DEF CursorsApart
<1>. QED BY <1>1, FetchInvariant, PTL
-----------------------------------------------------------------------------
(* The promise of ResultSet                                                *)

\* The rows given or passed over.
Passed == [c \in Cursors |-> Len(given[c]) + lost[c]]

\* Nothing that the promise speaks of has changed.
Silent == UNCHANGED <<size, total, given, lost, outcome>>

\* A step without news is a stutter of the promise.
LEMMA SilentRefines == Silent => UNCHANGED Promise!vars
  BY DEF Silent, Promise!vars

\* The next k rows are given as the promise says.
LEMMA GiveRefines ==
  ASSUME TypeOK, NEW c \in Cursors, NEW k \in Nat, UNCHANGED lost,
         given' = [given EXCEPT ![c] = given[c] \o Rows(c, Passed[c] + 1, Passed[c] + k)]
  PROVE  Promise!Give(c, k) /\ Passed'[c] = Passed[c] + k /\ Len(given'[c]) = Len(given[c]) + k
<1>1. given[c] \in Seq(Row) /\ lost[c] \in Nat /\ Passed[c] = Len(given[c]) + lost[c]
  BY DEF TypeOK, Passed
<1>2. Passed[c] \in Nat /\ Len(given[c]) \in Nat
  BY <1>1
<1>. DEFINE g == given[c]
            r == Rows(c, Passed[c] + 1, Passed[c] + k)
<1>3. r \in Seq(Row) /\ Len(r) = k /\ g \in Seq(Row)
  BY <1>1, <1>2, RowsFacts
<1>4. given' = [given EXCEPT ![c] = g \o r]
  OBVIOUS
<1>. HIDE DEF g, r
<1>5. Len(g \o r) = Len(g) + k
  <2>1. g \in Seq(Row) /\ r \in Seq(Row)
    BY <1>3
  <2>2. Len(g \o r) = Len(g) + Len(r)
    BY <2>1, ConcatProperties
  <2>. QED BY <1>3, <2>2
<1>6. given'[c] = g \o r /\ (\A d \in Cursors \ {c} : given'[d] = given[d])
  <2>1. DOMAIN given = Cursors
    BY DEF TypeOK
  <2>. QED BY <1>4, <2>1
<1>7. Len(given'[c]) = Len(given[c]) + k
  BY <1>5, <1>6 DEF g
<1>8. Passed' = [Passed EXCEPT ![c] = Passed[c] + k]
  <2>1. Passed'[c] = Passed[c] + k
    BY <1>1, <1>2, <1>7 DEF Passed
  <2>2. \A d \in Cursors \ {c} : Passed'[d] = Passed[d]
    BY <1>6 DEF Passed
  <2>. QED BY <2>1, <2>2 DEF Passed
<1>9. r = Promise!NextRows(c, k)
  BY DEF r, Promise!NextRows, Promise!Rows, Rows, Passed
<1>10. Promise!Give(c, k)
  BY <1>4, <1>8, <1>9 DEF Promise!Give, g, Passed
<1>. QED BY <1>7, <1>8, <1>10 DEF Passed

\* What is given from the buffer are the first rows.
LEMMA FirstGiven ==
  ASSUME FetchInv, NEW c \in Cursors, given[c] = <<>>, lost[c] = 0
  PROVE  /\ Passed[c] = 0 /\ Len(batches[c]) \in Nat /\ Len(batches[c]) <= size[c] /\ size[c] \in Nat
         /\ batches[c] = given[c] \o Rows(c, Passed[c] + 1, Passed[c] + Len(batches[c]))
<1>1. TypeOK /\ RowsInv(c)
  BY DEF FetchInv
<1>2. /\ batches[c] \in Seq(Row) /\ Len(batches[c]) \in Nat /\ size[c] \in Nat
      /\ batches[c] = Rows(c, 1, Len(batches[c])) /\ Len(batches[c]) <= size[c]
  BY <1>1 DEF TypeOK, RowsInv
<1>3. Passed[c] = 0
  BY DEF Passed
<1>4. Passed[c] + 1 = 1 /\ Passed[c] + Len(batches[c]) = Len(batches[c])
  BY <1>2, <1>3
<1>5. batches[c] = <<>> \o batches[c]
  BY <1>2, ConcatEmptySeq
<1>. QED BY <1>2, <1>3, <1>4, <1>5

\* A batch that fits, when nothing was passed yet.
LEMMA InRange ==
  ASSUME NEW k \in Nat, NEW s \in Nat, NEW p, p = 0, k <= s
  PROVE  k \in 0 .. (s - p) /\ (k # 0 => k \in 1 .. (s - p))
<1>1. s - p = s
  OBVIOUS
<1>. QED BY <1>1

\* The iterator's first batch is delivered, or was empty.
LEMMA NextBufferedRefines ==
  ASSUME FetchInv, NEW c \in Cursors, NextBuffered(c)
  PROVE  Promise!Deliver(c) \/ UNCHANGED Promise!vars
<1>1. /\ mode[c] = "iter" /\ unread[c] = "yes" /\ given' = [given EXCEPT ![c] = batches[c]]
      /\ UNCHANGED <<size, total, lost, outcome>>
  BY DEF NextBuffered, Set, server
<1>2. given[c] = <<>> /\ lost[c] = 0 /\ outcome[c] = "open"
  BY <1>1 DEF FetchInv, RowsInv
<1>3. PICK k \in Nat :
        /\ Passed[c] = 0 /\ k = Len(batches[c]) /\ k <= size[c] /\ size[c] \in Nat
        /\ batches[c] = given[c] \o Rows(c, Passed[c] + 1, Passed[c] + k)
  BY <1>2, FirstGiven
<1>4. TypeOK /\ batches[c] \in Seq(Row)
  BY DEF FetchInv, TypeOK
<1>5. CASE k = 0
  <2>1. batches[c] = <<>>
    BY <1>3, <1>4, <1>5
  <2>2. given' = given
    BY <1>1, <1>2, <1>4, <2>1 DEF TypeOK
  <2>. QED BY <1>1, <2>2, SilentRefines DEF Silent
<1>6. CASE k # 0
  <2>1. given' = [given EXCEPT ![c] = given[c] \o Rows(c, Passed[c] + 1, Passed[c] + k)]
    BY <1>1, <1>3
  <2>2. Promise!Give(c, k)
    BY <1>1, <1>3, <1>4, <2>1, GiveRefines
  <2>3. k \in 1 .. (size[c] - Passed[c])
    BY <1>3, <1>6, InRange
  <2>. QED BY <1>1, <1>2, <2>2, <2>3 DEF Promise!Deliver, Passed
<1>. QED BY <1>5, <1>6

\* fetch_all ends with every row, or fails.
LEMMA AllClosesRefines ==
  ASSUME FetchInv, FirstResponseFits, NEW c \in Cursors, AllCloses(c)
  PROVE  Promise!End(c) \/ Promise!Fail(c)
<1>1. /\ mode[c] = "closing"
      /\ given' = (IF pagination[c] = "ok" THEN [given EXCEPT ![c] = batches[c]] ELSE given)
      /\ outcome' = [outcome EXCEPT ![c] = IF pagination[c] = "ok" THEN "ended" ELSE "failed"]
      /\ UNCHANGED <<size, total, lost>>
  BY DEF AllCloses, Set
<1>2. given[c] = <<>> /\ lost[c] = 0 /\ outcome[c] = "open"
  BY <1>1 DEF FetchInv, RowsInv
<1>3. CASE pagination[c] # "ok"
  BY <1>1, <1>2, <1>3 DEF Promise!Fail
<1>4. CASE pagination[c] = "ok"
  <2>1. PICK k \in Nat :
          /\ Passed[c] = 0 /\ k = Len(batches[c]) /\ k <= size[c] /\ size[c] \in Nat
          /\ batches[c] = given[c] \o Rows(c, Passed[c] + 1, Passed[c] + k)
    BY <1>2, FirstGiven
  <2>2. TypeOK /\ total[c] \in Nat /\ Len(given[c]) = 0
    BY <1>2 DEF FetchInv, TypeOK
  <2>3. (total[c] > 0 => k = total[c]) /\ (total[c] = 0 => k = size[c])
    <3>1. Full(c) /\ k = Len(batches[c])
      BY <1>1, <1>4, <2>1 DEF FetchInv, CountInv
    <3>. QED BY <1>2, <2>1, <3>1 DEF Full
  <2>4. given' = [given EXCEPT ![c] = given[c] \o Rows(c, Passed[c] + 1, Passed[c] + k)]
    BY <1>1, <1>4, <2>1
  <2>5. Promise!Give(c, k) /\ Passed'[c] = Passed[c] + k /\ Len(given'[c]) = Len(given[c]) + k
    BY <1>1, <2>1, <2>2, <2>4, GiveRefines
  <2>6. k \in 0 .. (size[c] - Passed[c])
    BY <2>1, InRange
  <2>7. IF total[c] > 0 THEN Len(given'[c]) = total[c] ELSE Passed'[c] = size[c]
    <3>1. Passed[c] = 0 /\ Len(given[c]) = 0
      BY <2>1, <2>2
    <3>2. 0 + k = k
      OBVIOUS
    <3>3. Len(given'[c]) = 0 + k /\ Passed'[c] = 0 + k
      BY <2>5, <3>1, Zenon
    <3>4. Len(given'[c]) = k /\ Passed'[c] = k
      BY <3>2, <3>3, Zenon
    <3>. QED BY <2>2, <2>3, <3>4
  <2>. QED BY <1>1, <1>2, <1>4, <2>5, <2>6, <2>7 DEF Promise!End, Passed
<1>. QED BY <1>3, <1>4

\* The end of the iterator comes after every row, or after the error it told before.
LEMMA EndsRefines ==
  ASSUME FetchInv, NEW c \in Cursors, Ends(c), UNCHANGED <<size, total, given, lost>>,
         given[c] = batches[c], outcome[c] = "open" => Full(c)
  PROVE  Promise!End(c) \/ UNCHANGED Promise!vars
<1>1. TypeOK /\ given[c] \in Seq(Row) /\ total[c] \in Nat /\ lost[c] \in Nat /\ size[c] \in Nat
  BY DEF FetchInv, TypeOK
<1>2. outcome' = [outcome EXCEPT ![c] = IF outcome[c] = "open" THEN "ended" ELSE outcome[c]]
  BY DEF Ends, Set
<1>3. CASE outcome[c] # "open"
  <2>1. outcome' = outcome
    BY <1>1, <1>2, <1>3 DEF TypeOK
  <2>. QED BY <2>1, SilentRefines DEF Silent
<1>4. CASE outcome[c] = "open"
  <2>1. Passed[c] = Len(given[c]) + lost[c] /\ Passed[c] \in Nat
    BY <1>1 DEF Passed
  <2>2. Rows(c, Passed[c] + 1, Passed[c] + 0) = <<>>
    <3>1. PICK p \in Nat : p = Passed[c]
      BY <2>1
    <3>2. Rows(c, p + 1, p + 0) \in Seq(Row) /\ Len(Rows(c, p + 1, p + 0)) = 0
      BY RowsFacts
    <3>. QED BY <3>1, <3>2, EmptySeq
  <2>3. given[c] \o <<>> = given[c]
    BY <1>1, ConcatEmptySeq
  <2>4. given' = [given EXCEPT ![c] = given[c] \o Rows(c, Passed[c] + 1, Passed[c] + 0)]
    BY <1>1, <2>2, <2>3 DEF TypeOK
  <2>5. Promise!Give(c, 0)
    BY <1>1, <2>4, GiveRefines
  <2>6. 0 \in 0 .. (size[c] - Passed[c])
    <3>1. Passed[c] <= size[c]
      BY <2>1 DEF FetchInv, RowsInv
    <3>. QED BY <1>1, <2>1, <3>1
  <2>7. IF total[c] > 0 THEN Len(given'[c]) = total[c] ELSE Passed'[c] = size[c]
    <3>1. (total[c] > 0 => Len(given[c]) = total[c]) /\ (total[c] = 0 => Passed[c] = size[c])
      BY <1>4, <2>1 DEF Full
    <3>2. Passed' = Passed /\ given' = given
      BY DEF Passed
    <3>. QED BY <1>1, <3>1, <3>2
  <2>. QED BY <1>2, <1>4, <2>5, <2>6, <2>7 DEF Promise!End, Passed
<1>. QED BY <1>3, <1>4

\* The end that next_batch finds without a request is that of the promise.
LEMMA NextAtEndRefines ==
  ASSUME FetchInv, FirstResponseFits, NEW c \in Cursors, NextAtEnd(c)
  PROVE  Promise!End(c) \/ UNCHANGED Promise!vars
<1>1. /\ mode[c] = "iter" /\ unread[c] = "no" /\ Ends(c) /\ UNCHANGED <<size, total, given, lost>>
      /\ complete[c] = "yes" \/ handle[c] = NoHandle \/ AtTotal(c)
  BY DEF NextAtEnd, server
<1>2. HandleInv(c) /\ RowsInv(c) /\ CountInv(c) /\ TypeOK
  BY DEF FetchInv
<1>3. given[c] = batches[c]
  BY <1>1, <1>2 DEF RowsInv
<1>4. CASE complete[c] = "yes"
  <2>1. outcome[c] = "open" => Full(c)
    BY <1>1, <1>2, <1>4 DEF CountInv
  <2>. QED BY <1>1, <1>3, <2>1, EndsRefines
<1>5. CASE complete[c] # "yes"
  <2>1. complete[c] = "no" /\ Len(batches[c]) \in Nat /\ total[c] \in Nat
    BY <1>2, <1>5 DEF TypeOK
  <2>2. handle[c] # NoHandle
    BY <1>1, <1>2, <2>1 DEF HandleInv, Reading
  <2>3. total[c] > 0 /\ Len(batches[c]) >= total[c]
    BY <1>1, <1>5, <2>2 DEF AtTotal
  <2>4. Len(batches[c]) <= total[c]
    BY <1>1, <1>2, <2>3 DEF CountInv, Reading
  <2>5. Full(c)
    BY <2>1, <2>3, <2>4 DEF Full
  <2>. QED BY <1>1, <1>3, <2>5, EndsRefines
<1>. QED BY <1>4, <1>5

\* A page for the iterator is delivered, lost with an error, refused, or the end.
LEMMA NextFetchedRefines ==
  ASSUME FetchInv, FirstResponseFits, NEW c \in Cursors, NextFetched(c)
  PROVE  Promise!Deliver(c) \/ Promise!Lose(c) \/ Promise!Fail(c) \/ Promise!End(c) \/ UNCHANGED Promise!vars
<1>1. /\ mode[c] = "iter" /\ unread[c] = "no" /\ complete[c] = "no" /\ mode[c] \in Reading
      /\ UNCHANGED <<size, total>>
  BY DEF NextFetched, NextNeedsPage, server, Reading
<1>2. TypeOK /\ RowsInv(c)
  BY DEF FetchInv
<1>3. given[c] = batches[c] /\ outcome[c] = "open"
  BY <1>1, <1>2 DEF RowsInv
<1>4. PICK k \in PageSizes(c) :
        /\ Advance(c, k)
        /\ \/ k = 0 /\ total[c] = 0 /\ Ends(c) /\ UNCHANGED <<batches, given, lost>>
           \/ /\ Mismatch(c, k)
              /\ complete' = Set(complete, c, "yes")
              /\ outcome' = Set(outcome, c, "failed")
              /\ UNCHANGED <<batches, given, lost>>
           \/ /\ k > 0
              /\ lost' = Set(lost, c, lost[c] + k)
              /\ UNCHANGED <<batches, given, complete, outcome>>
           \/ /\ k > 0
              /\ ~Mismatch(c, k)
              /\ batches' = Set(batches, c, batches[c] \o Page(c, k))
              /\ given' = Set(given, c, given[c] \o Page(c, k))
              /\ UNCHANGED <<lost, complete, outcome>>
  BY DEF NextFetched
<1>5. /\ k \in Nat /\ Len(batches[c]) \in Nat /\ lost[c] \in Nat /\ total[c] \in Nat /\ size[c] \in Nat
      /\ Len(batches[c]) + lost[c] + k <= size[c]
      /\ k = 0 => Len(batches[c]) + lost[c] = size[c]
      /\ Page(c, k) = Rows(c, Len(batches[c]) + lost[c] + 1, Len(batches[c]) + lost[c] + k)
  BY <1>1, <1>4, PageFacts
<1>6. Passed[c] = Len(batches[c]) + lost[c] /\ Passed[c] \in Nat
  BY <1>3, <1>5 DEF Passed
<1>7. k > 0 => k \in 1 .. (size[c] - Passed[c])
  <2>1. Passed[c] + k <= size[c]
    BY <1>5, <1>6
  <2>. QED BY <1>5, <1>6, <2>1
<1>8. CASE k = 0 /\ total[c] = 0 /\ Ends(c) /\ UNCHANGED <<batches, given, lost>>
  <2>1. Full(c)
    BY <1>5, <1>8 DEF Full
  <2>. QED BY <1>1, <1>3, <1>8, <2>1, EndsRefines
<1>9. CASE outcome' = Set(outcome, c, "failed") /\ UNCHANGED <<batches, given, lost>>
  BY <1>1, <1>3, <1>9 DEF Promise!Fail, Set
<1>10. CASE k > 0 /\ lost' = Set(lost, c, lost[c] + k) /\ UNCHANGED <<batches, given, complete, outcome>>
  <2>1. Passed' = [Passed EXCEPT ![c] = Passed[c] + k]
    <3>1. lost' = [lost EXCEPT ![c] = lost[c] + k] /\ given' = given
      BY <1>10 DEF Set
    <3>2. Passed'[c] = Passed[c] + k
      <4>1. lost'[c] = lost[c] + k
        BY <1>2, <3>1 DEF TypeOK
      <4>2. Passed'[c] = Len(batches[c]) + (lost[c] + k)
        BY <1>3, <3>1, <4>1 DEF Passed
      <4>. QED BY <1>5, <1>6, <4>2
    <3>3. \A d \in Cursors \ {c} : Passed'[d] = Passed[d]
      BY <1>2, <3>1 DEF Passed, TypeOK
    <3>. QED BY <3>2, <3>3 DEF Passed
  <2>2. Promise!Lose(c)
    BY <1>1, <1>3, <1>7, <1>10, <2>1 DEF Promise!Lose, Passed
  <2>. QED BY <2>2
<1>11. CASE k > 0 /\ given' = Set(given, c, given[c] \o Page(c, k)) /\ UNCHANGED <<lost, complete, outcome>>
  <2>1. given' = [given EXCEPT ![c] = given[c] \o Rows(c, Passed[c] + 1, Passed[c] + k)]
    BY <1>5, <1>6, <1>11 DEF Set
  <2>2. Promise!Give(c, k)
    BY <1>2, <1>5, <1>11, <2>1, GiveRefines
  <2>3. Promise!Deliver(c)
    BY <1>1, <1>3, <1>7, <1>11, <2>2 DEF Promise!Deliver, Passed
  <2>. QED BY <2>3
<1>. QED BY <1>4, <1>8, <1>9, <1>10, <1>11

\* An execute response that cannot be converted fails the reader, any other is silent.
LEMMA ExecuteRefines ==
  ASSUME FetchInv, NEW c \in Cursors, Execute(c)
  PROVE  Promise!Fail(c) \/ UNCHANGED Promise!vars
<1>1. mode[c] = "new" /\ UNCHANGED <<size, total, given, lost>>
  BY DEF Execute
<1>2. outcome' = outcome \/ outcome' = [outcome EXCEPT ![c] = "failed"]
  BY DEF Execute, Set
<1>3. outcome[c] = "open"
  BY <1>1 DEF FetchInv, RowsInv
<1>4. CASE outcome' = outcome
  BY <1>1, <1>4, SilentRefines DEF Silent
<1>5. CASE outcome' = [outcome EXCEPT ![c] = "failed"]
  BY <1>1, <1>3, <1>5 DEF Promise!Fail
<1>. QED BY <1>2, <1>4, <1>5

\* The other steps give the reader nothing and tell it nothing.
LEMMA SilentSteps ==
  ASSUME NEW c \in Cursors,
         \/ IntoIterator(c) \/ NextPanics(c) \/ CloseIterator(c) \/ DropReader(c) \/ BeginFetchAll(c)
         \/ AllAtTotal(c) \/ AllFails(c) \/ AllFetched(c)
  PROVE  UNCHANGED Promise!vars
<1>1. Silent
  BY DEF IntoIterator, NextPanics, CloseIterator, DropReader, BeginFetchAll, AllAtTotal, AllFails, AllFetched,
         server, delivered, Silent
<1>. QED BY <1>1, SilentRefines

\* The first states are those of the promise.
LEMMA InitRefines == Init => Promise!Init
<1>. SUFFICES ASSUME Init PROVE Promise!Init
  OBVIOUS
<1>1. TypeOK
  BY InitFetch DEF FetchInv
<1>2. /\ given = [c \in Cursors |-> <<>>] /\ lost = [c \in Cursors |-> 0]
      /\ outcome = [c \in Cursors |-> "open"]
  BY DEF Init
<1>3. [c \in Cursors |-> Len(given[c]) + lost[c]] = [c \in Cursors |-> 0]
  <2>1. ASSUME NEW c \in Cursors PROVE Len(given[c]) + lost[c] = 0
    <3>1. given[c] = <<>> /\ lost[c] = 0
      BY <1>2
    <3>2. Len(<<>>) + 0 = 0
      OBVIOUS
    <3>. QED BY <3>1, <3>2
  <2>. QED BY <2>1
<1>. QED BY <1>1, <1>2, <1>3 DEF Promise!Init, TypeOK

\* Every step is one of the promise, or gives and tells the reader nothing.
LEMMA StepRefines ==
  ASSUME FirstResponseFits
  PROVE  FetchInv /\ [Next]_vars => [Promise!Next]_(Promise!vars)
<1>. SUFFICES ASSUME FetchInv, [Next]_vars PROVE Promise!Next \/ UNCHANGED Promise!vars
  OBVIOUS
<1>1. CASE UNCHANGED vars
  BY <1>1, SilentRefines DEF vars, server, delivered, Silent
<1>2. ASSUME NEW c \in Cursors,
             \/ Execute(c) \/ IntoIterator(c) \/ Iterate(c) \/ CloseIterator(c) \/ DropReader(c)
             \/ BeginFetchAll(c) \/ FetchAll(c) \/ AllFails(c)
      PROVE  Promise!Next \/ UNCHANGED Promise!vars
  <2>1. \/ Promise!Deliver(c) \/ Promise!Lose(c) \/ Promise!End(c) \/ Promise!Fail(c)
        \/ UNCHANGED Promise!vars
    BY <1>2, ExecuteRefines, NextBufferedRefines, NextAtEndRefines, NextFetchedRefines, AllClosesRefines, SilentSteps
       DEF Iterate, FetchAll
  <2>. QED BY <2>1 DEF Promise!Next
<1>. QED BY <1>1, <1>2 DEF Next

\* fetch_all and the iterator keep the promise of module ResultSet: rows in order and at
\* most once, none passed over without an error, no end before the announced rows.  The
\* execute response must agree with the row count it reports (FirstResponseFits).
THEOREM ReadsRefine ==
  ASSUME FirstResponseFits
  PROVE  Spec => ReadsAsPromised
<1>1. Init => Promise!Init
  BY InitRefines
<1>2. FetchInv /\ [Next]_vars => [Promise!Next]_(Promise!vars)
  BY StepRefines
<1>. QED BY <1>1, <1>2, FetchInvariant, PTL DEF Spec, ReadsAsPromised, Promise!Spec
=============================================================================
