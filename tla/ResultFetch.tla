---------------------------- MODULE ResultFetch ----------------------------
(***************************************************************************)
(* Reading result sets (src/src/query/results.rs) over one transport that  *)
(* several of them share: the first rows come with the execute response,   *)
(* the rest is fetched page by page, by fetch_all or by the iterator, from *)
(* a position that the transport keeps per server handle                   *)
(* (fetch_positions of native/mod.rs and websocket.rs).                    *)
(*                                                                         *)
(* The transport's mutex is held for one request at a time, so the pages   *)
(* of different result sets interleave.  A row is the result set it        *)
(* belongs to and its number there.                                        *)
(***************************************************************************)
EXTENDS Naturals, Sequences

CONSTANTS
  Cursors,           \* result sets of one connection
  Handles,           \* result set handles of the server, positive numbers
  MaxRows,           \* bound: rows of each result set
  PageRows,          \* bound: rows of a page
  TotalMayBeWrong,   \* may a reported row count be one off?
  FirstResponseFits  \* does the execute response agree with its own row count?

NoHandle == 0
NoOwner  == "free"

ASSUME ResultFetchAssumption ==
  /\ NoOwner \notin Cursors
  /\ Handles \subseteq Nat \ {0}
  /\ MaxRows \in [Cursors -> Nat]
  /\ PageRows \in Nat \ {0}
  /\ TotalMayBeWrong \in BOOLEAN
  /\ FirstResponseFits \in BOOLEAN

VARIABLES
  size,             \* rows the server has for the result set
  total,            \* QueryMetadata.total_rows: what the server reported, 0: unknown
  owner,            \* server: the result set behind a handle
  fetch_positions,  \* transport: the next fetch starts after this many rows; 0: absent
  mode,             \* how the result set is being read
  caller,           \* where next_batch is called: a task, a blocking thread, outside
  handle,           \* the handle, or NoHandle once taken
  batches,          \* rows received
  unread,           \* is the buffered first batch still to be yielded? "yes" or "no"
  complete,         \* "yes" or "no"
  pagination,       \* fetch_all: the result it will return after the close
  given,            \* rows the reader was given
  lost,             \* rows received but lost in a failed conversion
  outcome,          \* how the reading ended: "open", "ended" or "failed"
  asked             \* result sets whose handle the server was asked to close

server    == <<size, total, owner>>
reading   == <<mode, caller, handle, batches, unread, complete, pagination>>
delivered == <<given, lost, outcome>>
vars      == <<server, fetch_positions, reading, delivered, asked>>

Rows(c, first, last) == [i \in 1 .. (last + 1 - first) |-> [of |-> c, n |-> first + i - 1]]

Set(f, c, v) == [f EXCEPT ![c] = v]

-----------------------------------------------------------------------------
(* execute_query and from_transport_result                                 *)

\* What the execute response may carry: n rows, with or without a handle.
\* Without one there is nothing to fetch later.
FirstResponse(c, n, h) ==
  /\ h = NoHandle => n = size[c]
  /\ FirstResponseFits =>
       IF total[c] = 0 THEN h # NoHandle => n > 0
                       ELSE IF h = NoHandle THEN n = total[c] ELSE n <= total[c]

\* Mutant: the rows of the execute response are not counted.
StartPosition_FromZero(h, n) ==
  fetch_positions' = IF h = NoHandle THEN fetch_positions ELSE Set(fetch_positions, h, 0)

\* The first fetch starts after the rows of the execute response.
StartPosition(h, n) ==
  fetch_positions' = IF h = NoHandle THEN fetch_positions ELSE Set(fetch_positions, h, n)

\* The statement is executed and its result wrapped; if its first rows cannot be
\* converted the caller gets an error and no ResultSet.
Execute(c) ==
  /\ mode[c] = "new"
  /\ \E n \in 0 .. size[c], h \in {NoHandle} \cup {g \in Handles : owner[g] = NoOwner} :
       /\ FirstResponse(c, n, h)
       /\ owner' = IF h = NoHandle THEN owner ELSE Set(owner, h, c)
       /\ StartPosition(h, n)
       /\ \/ /\ mode' = Set(mode, c, "set")
             /\ handle' = Set(handle, c, h)
             /\ batches' = Set(batches, c, Rows(c, 1, n))
             /\ complete' = Set(complete, c, IF h = NoHandle \/ total[c] = n THEN "yes" ELSE "no")
             /\ UNCHANGED outcome
          \/ /\ mode' = Set(mode, c, "dropped")
             /\ outcome' = Set(outcome, c, "failed")
             /\ UNCHANGED <<handle, batches, complete>>
  /\ UNCHANGED <<size, total, caller, unread, pagination, given, lost, asked>>

-----------------------------------------------------------------------------
(* fetch_results and fetch_page_after                                      *)

\* Mutant: the stream ends one row early.
AtTotal_OneEarly(c) == total[c] > 0 /\ Len(batches[c]) + 1 >= total[c]

\* The end-of-stream rule that needs no request.
AtTotal(c) == total[c] > 0 /\ Len(batches[c]) >= total[c]

\* The server sends at least one of the rows after the position, if there are any.
PageSizes(c) ==
  LET h == handle[c]
      d == owner[h]
      p == fetch_positions[h]
  IN IF d = NoOwner THEN {}
     ELSE IF p >= size[d] THEN {0} ELSE {k \in 1 .. PageRows : p + k <= size[d]}

Page(c, k) ==
  LET h == handle[c] IN Rows(owner[h], fetch_positions[h] + 1, fetch_positions[h] + k)

\* fetch_results: the position moves behind the page that was received.
Advance(c, k) ==
  fetch_positions' = Set(fetch_positions, handle[c], fetch_positions[handle[c]] + k)

\* RowCountMismatch: a page that ends the stream too early or overshoots.
Mismatch(c, k) == total[c] > 0 /\ (k = 0 \/ Len(batches[c]) + k > total[c])

-----------------------------------------------------------------------------
(* ResultSetIterator                                                       *)

IntoIterator(c) ==
  /\ mode[c] = "set"
  /\ mode' = Set(mode, c, "iter")
  /\ \E w \in {"task", "blocking", "outside"} : caller' = Set(caller, c, w)
  /\ UNCHANGED <<server, fetch_positions, handle, batches, unread, complete, pagination, delivered, asked>>

\* next_batch returns the buffered batch.
NextBuffered(c) ==
  /\ mode[c] = "iter"
  /\ unread[c] = "yes"
  /\ unread' = Set(unread, c, "no")
  /\ given' = Set(given, c, batches[c])
  /\ UNCHANGED <<server, fetch_positions, mode, caller, handle, batches, complete, pagination,
                 lost, outcome, asked>>

\* The iterator is at its end: None, without an error unless one came before.
Ends(c) ==
  /\ complete' = Set(complete, c, "yes")
  /\ outcome' = Set(outcome, c, IF outcome[c] = "open" THEN "ended" ELSE outcome[c])

NextAtEnd(c) ==
  /\ mode[c] = "iter"
  /\ unread[c] = "no"
  /\ complete[c] = "yes" \/ (caller[c] = "blocking" /\ (handle[c] = NoHandle \/ AtTotal(c)))
  /\ Ends(c)
  /\ UNCHANGED <<server, fetch_positions, mode, caller, handle, batches, unread, pagination, given,
                 lost, asked>>

\* next_batch has nothing buffered and is not complete.
NextNeedsPage(c) == mode[c] = "iter" /\ unread[c] = "no" /\ complete[c] = "no"

\* In a task of the runtime Handle::block_on panics.
NextPanics(c) ==
  /\ NextNeedsPage(c)
  /\ caller[c] = "task"
  /\ mode' = Set(mode, c, "panicked")
  /\ UNCHANGED <<server, fetch_positions, caller, handle, batches, unread, complete, pagination,
                 delivered, asked>>

\* A page arrives: the end, a mismatch, which is final, rows that cannot be
\* converted, which the next call does not ask for again, or the next batch.  (A
\* request that fails, and a call outside a runtime, change nothing.)
NextFetched(c) ==
  /\ NextNeedsPage(c)
  /\ caller[c] = "blocking"
  /\ handle[c] # NoHandle
  /\ ~AtTotal(c)
  /\ \E k \in PageSizes(c) :
       /\ Advance(c, k)
       /\ \/ k = 0 /\ total[c] = 0 /\ Ends(c) /\ UNCHANGED <<batches, given, lost>>
          \/ /\ Mismatch(c, k)
             /\ complete' = Set(complete, c, "yes")
             /\ outcome' = Set(outcome, c, "failed")
             /\ UNCHANGED <<batches, given, lost>>
          \/ /\ k > 0
             /\ lost' = Set(lost, c, lost[c] + k)
             /\ UNCHANGED <<batches, given, complete, outcome>>
          \/ /\ k > 0
             /\ ~Mismatch(c, k)
             /\ batches' = Set(batches, c, batches[c] \o Page(c, k))
             /\ given' = Set(given, c, given[c] \o Page(c, k))
             /\ UNCHANGED <<lost, complete, outcome>>
  /\ UNCHANGED <<server, mode, caller, handle, unread, pagination, asked>>

\* close_result_set: the transport forgets the handle, then asks the server,
\* which may refuse.
CloseHandle(c) ==
  /\ handle' = Set(handle, c, NoHandle)
  /\ IF handle[c] = NoHandle
       THEN UNCHANGED <<fetch_positions, owner, asked>>
       ELSE /\ fetch_positions' = Set(fetch_positions, handle[c], 0)
            /\ owner' \in {owner, Set(owner, handle[c], NoOwner)}
            /\ asked' = asked \cup {c}

CloseIterator(c) ==
  /\ mode[c] = "iter"
  /\ mode' = Set(mode, c, "closed")
  /\ CloseHandle(c)
  /\ UNCHANGED <<size, total, caller, batches, unread, complete, pagination, delivered>>

\* A ResultSet or its iterator is dropped: neither has a Drop.
DropReader(c) ==
  /\ mode[c] \in {"set", "iter"}
  /\ mode' = Set(mode, c, "dropped")
  /\ UNCHANGED <<server, fetch_positions, caller, handle, batches, unread, complete, pagination,
                 delivered, asked>>

-----------------------------------------------------------------------------
(* fetch_all                                                               *)

\* check_buffered_rows: what needs no fetch must match a known row count.
BufferedRowsMatch(c) == total[c] > 0 => Len(batches[c]) = total[c]

\* The pagination is over: its result waits for the close of the handle.
Paginated(c, r) ==
  /\ mode' = Set(mode, c, "closing")
  /\ pagination' = Set(pagination, c, r)

BeginFetchAll(c) ==
  /\ mode[c] = "set"
  /\ IF handle[c] # NoHandle /\ complete[c] = "no"
       THEN mode' = Set(mode, c, "all") /\ UNCHANGED pagination
       ELSE Paginated(c, IF BufferedRowsMatch(c) THEN "ok" ELSE "err")
  /\ UNCHANGED <<server, fetch_positions, caller, handle, batches, unread, complete, delivered, asked>>

\* paginate_remaining: one turn of its loop.
AllAtTotal(c) ==
  /\ mode[c] = "all"
  /\ AtTotal(c)
  /\ Paginated(c, "ok")
  /\ UNCHANGED <<server, fetch_positions, caller, handle, batches, unread, complete, delivered, asked>>

AllFails(c) ==
  /\ mode[c] = "all"
  /\ ~AtTotal(c)
  /\ Paginated(c, "err")
  /\ UNCHANGED <<server, fetch_positions, caller, handle, batches, unread, complete, delivered, asked>>

\* Mutant: an empty page is one more batch.
AllFetched_NoEnd(c) ==
  /\ mode[c] = "all"
  /\ ~AtTotal(c)
  /\ \E k \in PageSizes(c) :
       /\ Advance(c, k)
       /\ batches' = Set(batches, c, batches[c] \o Page(c, k))
  /\ UNCHANGED <<server, mode, caller, handle, unread, complete, pagination, delivered, asked>>

\* A page arrives.  Every error ends the pagination.
AllFetched(c) ==
  /\ mode[c] = "all"
  /\ ~AtTotal(c)
  /\ \E k \in PageSizes(c) :
       /\ Advance(c, k)
       /\ \/ k = 0 /\ total[c] = 0 /\ Paginated(c, "ok") /\ UNCHANGED batches
          \/ (k > 0 \/ Mismatch(c, k)) /\ Paginated(c, "err") /\ UNCHANGED batches
          \/ /\ k > 0
             /\ ~Mismatch(c, k)
             /\ batches' = Set(batches, c, batches[c] \o Page(c, k))
             /\ UNCHANGED <<mode, pagination>>
  /\ UNCHANGED <<server, caller, handle, unread, complete, delivered, asked>>

\* Mutant: the handle is closed only after a success.
AllCloses_OnlyOnSuccess(c) ==
  /\ mode[c] = "closing"
  /\ mode' = Set(mode, c, "fetched")
  /\ \/ pagination[c] = "ok" /\ CloseHandle(c)
     \/ pagination[c] = "err" /\ UNCHANGED <<handle, fetch_positions, owner, asked>>
  /\ given' = IF pagination[c] = "ok" THEN Set(given, c, batches[c]) ELSE given
  /\ outcome' = Set(outcome, c, IF pagination[c] = "ok" THEN "ended" ELSE "failed")
  /\ UNCHANGED <<size, total, caller, batches, unread, complete, pagination, lost>>

\* The handle is closed whatever the pagination gave, and its result returned.
AllCloses(c) ==
  /\ mode[c] = "closing"
  /\ mode' = Set(mode, c, "fetched")
  /\ CloseHandle(c)
  /\ given' = IF pagination[c] = "ok" THEN Set(given, c, batches[c]) ELSE given
  /\ outcome' = Set(outcome, c, IF pagination[c] = "ok" THEN "ended" ELSE "failed")
  /\ UNCHANGED <<size, total, caller, batches, unread, complete, pagination, lost>>

-----------------------------------------------------------------------------
Counts == UNION {0 .. MaxRows[c] + 1 : c \in Cursors}

Init ==
  /\ size \in [Cursors -> Counts]
  /\ total \in [Cursors -> Counts]
  /\ \A c \in Cursors :
       /\ size[c] <= MaxRows[c]
       /\ \/ total[c] \in {0, size[c]}
          \/ TotalMayBeWrong /\ (total[c] = size[c] + 1 \/ size[c] = total[c] + 1)
  /\ owner = [h \in Handles |-> NoOwner]
  /\ fetch_positions = [h \in Handles |-> 0]
  /\ mode = [c \in Cursors |-> "new"]
  /\ caller = [c \in Cursors |-> "blocking"]
  /\ handle = [c \in Cursors |-> NoHandle]
  /\ batches = [c \in Cursors |-> <<>>]
  /\ unread = [c \in Cursors |-> "yes"]
  /\ complete = [c \in Cursors |-> "no"]
  /\ pagination = [c \in Cursors |-> "none"]
  /\ given = [c \in Cursors |-> <<>>]
  /\ lost = [c \in Cursors |-> 0]
  /\ outcome = [c \in Cursors |-> "open"]
  /\ asked = {}

FetchAll(c) == AllAtTotal(c) \/ AllFetched(c) \/ AllCloses(c)

Iterate(c) == NextBuffered(c) \/ NextAtEnd(c) \/ NextPanics(c) \/ NextFetched(c)

Next ==
  \E c \in Cursors :
    Execute(c) \/ IntoIterator(c) \/ Iterate(c) \/ CloseIterator(c) \/ DropReader(c)
      \/ BeginFetchAll(c) \/ FetchAll(c) \/ AllFails(c)

\* A pending fetch_all is polled and its requests are answered.
Fairness == \A c \in Cursors : WF_vars(FetchAll(c))

Spec == Init /\ [][Next]_vars

FairSpec == Spec /\ Fairness

-----------------------------------------------------------------------------
(* Properties.                                                             *)

\* Each fetch starts at the first row that no earlier response delivered: the
\* position the transport keeps under a handle is that of the one result set
\* that reads with it, also after a handle number was closed and used again.
FetchStartsAtNextRow ==
  \A c \in Cursors :
    (handle[c] # NoHandle /\ mode[c] \in {"set", "iter", "all"} /\ complete[c] = "no") =>
      /\ owner[handle[c]] = c
      /\ fetch_positions[handle[c]] = Len(batches[c]) + lost[c]

\* What both ways of reading promise: rows in order and at most once, rows passed
\* over only with an error, and an end without a mismatch error only after the
\* rows that were announced.  See module ResultSet.
Promise ==
  INSTANCE ResultSet WITH
    out <- given,
    passed <- [c \in Cursors |-> Len(given[c]) + lost[c]],
    end <- outcome

ReadsAsPromised == Promise!Spec

\* fetch_all, whether it succeeds or fails, and close() ask the server to close
\* the handle.
ReadersRelease ==
  \A h \in Handles :
    (owner[h] \in Cursors /\ mode[owner[h]] \in {"fetched", "closed"}) => owner[h] \in asked

\* The result sets of a connection do not disturb each other, and give back what they
\* hold.
CursorsApart == FetchStartsAtNextRow /\ ReadersRelease

\* fetch_all returns, also when the row count is unknown or wrong.
FetchAllReturns == \A c \in Cursors : mode[c] = "all" ~> mode[c] = "fetched"
=============================================================================
