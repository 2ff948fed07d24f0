--------------------------- MODULE AuditTimeline ---------------------------
(***************************************************************************)
(* The audit timeline of one operation: the page the API reads, from one    *)
(* list per kind of row, and the screen that keeps its first page in the    *)
(* cache of queries and the pages after it in a state of its own.           *)
(*                                                                         *)
(* A row is known by its place, its time and id in one order.  The time is  *)
(* drawn before the commit, so that a row may appear behind rows that were  *)
(* read already.                                                           *)
(***************************************************************************)
EXTENDS Naturals, FiniteSets, FiniteSetsExt, Sequences

CONSTANTS
  Kinds,       \* quotes, commitments, recaps, audit events, ...
  PageSize,    \* the limit of a request
  MaxPlaces    \* bound of the model on the rows of the operation

ASSUME TimelineAssumption ==
  /\ PageSize \in Nat \ {0}
  /\ MaxPlaces \in Nat

VARIABLES
  clock,       \* the newest place drawn
  open,        \* rows of transactions under way
  rows,        \* rows of the database
  first,       \* the first page in the cache
  refetch,     \* the request for the first page
  pagination,  \* the state of the screen: the pages after the first
  more         \* the request for a further page

vars == <<clock, open, rows, first, refetch, pagination, more>>
database == <<clock, open, rows>>

Places == 1 .. MaxPlaces
RowType == [place : Places, kind : Kinds]

\* A cursor is the place of the last row of a page, 0 when there is none.  seen is
\* what the database held when the page was read.
Cursors == 0 .. MaxPlaces
PageType ==
  [after : Cursors, items : SUBSET RowType, next : Cursors,
   seen : SUBSET RowType]

-----------------------------------------------------------------------------
(* The page of the API.                                                    *)

Earliest(s, n) ==
  {r \in s : Cardinality({q \in s : q.place < r.place}) < n}

LastPlace(s) == Max({r.place : r \in s})

\* A mutant of the next definition: the row of the cursor is not counted.
ListOfShort(kind, after) ==
  Earliest({r \in rows : r.kind = kind /\ r.place >= after}, PageSize + 1)

\* list_by_operation, from the row of the cursor on: that row, a page, and one row
\* more to tell whether there is another page.
ListOf(kind, after) ==
  Earliest({r \in rows : r.kind = kind /\ r.place >= after}, PageSize + 2)

\* A mutant of the next definition: the row of the cursor comes again.
BeyondInclusive(listed, after) == {r \in listed : r.place >= after}

Beyond(listed, after) == {r \in listed : r.place > after}

\* get_operation_audit, in one snapshot.
PageAfter(after) ==
  LET listed == UNION {ListOf(k, after) : k \in Kinds}
      found == Earliest(Beyond(listed, after), PageSize + 1)
      items == Earliest(found, PageSize)
  IN [after |-> after, items |-> items, seen |-> rows,
      next |-> IF Cardinality(found) > PageSize THEN LastPlace(items) ELSE 0]

-----------------------------------------------------------------------------
(* The screen.                                                             *)

\* What a mounted screen starts from.
FreshPagination ==
  [firstCursor |-> first.next, pages |-> <<>>, pending |-> FALSE]

\* They are kept while the first page ends where it did.
Matches == pagination.firstCursor = first.next

ExtraPages == IF Matches THEN pagination.pages ELSE <<>>
Pages == <<first>> \o ExtraPages
NextCursor == Pages[Len(Pages)].next

\* auditItemsFromPages
Items == UNION {Pages[i].items : i \in DOMAIN Pages}

\* The requests of the screen, until they arrive.
Nothing == [step |-> "none"]

FirstRequests ==
  {Nothing} \cup [step : {"asked"}] \cup [step : {"read"}, page : PageType]

MoreRequests ==
  {Nothing}
  \cup [step : {"asked"}, cursor : Cursors, firstCursor : Cursors, pages : Seq(PageType)]
  \cup [step : {"read"}, page : PageType, firstCursor : Cursors, pages : Seq(PageType)]

Init ==
  /\ clock = 0 /\ open = {} /\ rows = {}
  /\ first = PageAfter(0)
  /\ refetch = Nothing
  /\ pagination = [firstCursor |-> 0, pages |-> <<>>, pending |-> FALSE]
  /\ more = Nothing

\* A handler draws the time of a row it is about to write.
Draw(kind) ==
  /\ clock < MaxPlaces
  /\ clock' = clock + 1
  /\ open' = open \cup {[place |-> clock + 1, kind |-> kind]}
  /\ UNCHANGED <<rows, first, refetch, pagination, more>>

\* Transactions end in any order, one with several rows at once.
Commit(written) ==
  /\ written # {}
  /\ open' = open \ written
  /\ rows' = rows \cup written
  /\ UNCHANGED <<clock, first, refetch, pagination, more>>

\* The query is invalidated, stale or retried: a newer request cancels the older.
Refetch ==
  /\ refetch' = [step |-> "asked"]
  /\ UNCHANGED <<database, first, pagination, more>>

ReadFirst ==
  /\ refetch.step = "asked"
  /\ refetch' = [step |-> "read", page |-> PageAfter(0)]
  /\ UNCHANGED <<database, first, pagination, more>>

\* A request that fails leaves the page that is in the cache.
FirstArrives ==
  /\ \/ refetch.step = "read" /\ first' = refetch.page
     \/ refetch.step # "none" /\ UNCHANGED first
  /\ refetch' = Nothing
  /\ UNCHANGED <<database, pagination, more>>

\* loadMore closes over the pages that are shown.
LoadMore ==
  /\ NextCursor # 0
  /\ ~pagination.pending
  /\ pagination' =
       [firstCursor |-> first.next, pages |-> ExtraPages, pending |-> TRUE]
  /\ more' = [step |-> "asked", cursor |-> NextCursor,
              firstCursor |-> first.next, pages |-> ExtraPages]
  /\ UNCHANGED <<database, first, refetch>>

ReadMore ==
  /\ more.step = "asked"
  /\ more' = [step |-> "read", page |-> PageAfter(more.cursor),
              firstCursor |-> more.firstCursor, pages |-> more.pages]
  /\ UNCHANGED <<database, first, refetch, pagination>>

MoreArrives ==
  /\ \/ /\ more.step = "read"
        /\ pagination' = [firstCursor |-> more.firstCursor, pending |-> FALSE,
                          pages |-> Append(more.pages, more.page)]
     \/ /\ more.step # "none"  \* it failed, and may be asked for again
        /\ pagination' = [firstCursor |-> more.firstCursor, pending |-> FALSE,
                          pages |-> more.pages]
  /\ more' = Nothing
  /\ UNCHANGED <<database, first, refetch>>

\* The screen is left and opened again, while the cache keeps the first page.
Reopen ==
  /\ pagination' = FreshPagination
  /\ more' = Nothing
  /\ UNCHANGED <<database, first, refetch>>

Next ==
  \/ \E k \in Kinds : Draw(k)
  \/ \E written \in SUBSET open : Commit(written)
  \/ Refetch \/ ReadFirst \/ FirstArrives
  \/ LoadMore \/ ReadMore \/ MoreArrives \/ Reopen

Spec == Init /\ [][Next]_vars

-----------------------------------------------------------------------------
(* Properties.                                                             *)

\* Every variable keeps its type.
TypeOK ==
  /\ clock \in Cursors
  /\ open \subseteq RowType /\ rows \subseteq RowType
  /\ first \in PageType
  /\ refetch \in FirstRequests
  /\ pagination \in
       [firstCursor : Cursors, pages : Seq(PageType), pending : BOOLEAN]
  /\ more \in MoreRequests

\* The timeline on the screen has no gap: a row that every shown page could have
\* read, and that does not lie after the end of the last one, is shown, whatever
\* is committed late and refetched meanwhile (application.py get_operation_audit,
\* recovery-experience.tsx AuditSurfaceView).
NoGap ==
  \A r \in rows :
    /\ \A i \in DOMAIN Pages : r \in Pages[i].seen
    /\ NextCursor # 0 => r.place <= NextCursor
    => r \in Items

\* Asking for more always shows more: a further page holds rows, none of which an
\* earlier one holds (application.py get_operation_audit).
PagesAdvance ==
  \A i \in DOMAIN Pages \ {1} :
    /\ Pages[i].items # {}
    /\ \A j \in 1 .. i - 1 : Pages[i].items \cap Pages[j].items = {}

\* The end of the timeline is authoritative: nothing that was there when the first
\* page was read is missing from a timeline that shows its end.  It is not so: the
\* last page is never read again.
EndIsAuthoritative ==
  NextCursor = 0 => first.seen \subseteq Items
=============================================================================
