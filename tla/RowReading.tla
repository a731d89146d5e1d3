------------------------------- MODULE RowReading -------------------------------
(***************************************************************************)
(* Reading the rows of a query one by one: windows of a result, pages of a *)
(* table, and the copy of a table to another connection.                   *)
(*                                                                         *)
(* Definitions whose name says what they leave out are mutations of the    *)
(* definition that follows them; the model does not use them.              *)
(***************************************************************************)
EXTENDS Integers, SequencesExt, FiniteSetsExt

CONSTANTS
    DefaultLimit,  \* 500, the rows of a window that names no limit
    MaxLimit,      \* 5000, the most rows of a window
    PageSize,      \* the page size of the settings
    MaxPageSize    \* 1000

----------------------------------------------------------------------------
(* Windows *)

\* clampQueryWindowLimit
ClampQueryWindowLimit(limit) ==
    IF limit <= 0 THEN DefaultLimit ELSE IF limit > MaxLimit THEN MaxLimit ELSE limit

AtLeastNone(offset) == IF offset < 0 THEN 0 ELSE offset

OrDefault(limit) == IF limit <= 0 THEN DefaultLimit ELSE limit

\* queryTinySQLRowsWindow: the rows of the stream up to the first one after the window.
StreamRow(st, row, size) ==
    IF st.done THEN st
    ELSE IF st.skip > 0 THEN [st EXCEPT !.skip = @ - 1]
    ELSE IF Len(st.rows) = size THEN [st EXCEPT !.more = TRUE, !.done = TRUE]
    ELSE [st EXCEPT !.rows = Append(@, row)]

StreamStart(from) == [skip |-> from, rows |-> <<>>, more |-> FALSE, done |-> FALSE]

StreamRows(rows, from, size) == FoldLeft(LAMBDA st, row : StreamRow(st, row, size), StreamStart(from), rows)

StreamWindow(rows, offset, limit) ==
    LET st == StreamRows(rows, AtLeastNone(offset), OrDefault(limit))
    IN  [rows |-> st.rows, more |-> st.more]

ScanWindowWithoutLookahead(rows, offset, limit) ==
    LET first == AtLeastNone(offset) + 1
        last == AtLeastNone(offset) + OrDefault(limit)
    IN  [rows |-> SubSeq(rows, first, IF last < Len(rows) THEN last ELSE Len(rows)), more |-> last <= Len(rows)]

\* scanRowsWindow, which counts what it has seen.
ScanRow(st, row, from, size) ==
    IF st.more THEN st
    ELSE IF st.seen < from THEN [st EXCEPT !.seen = @ + 1]
    ELSE IF Len(st.rows) >= size THEN [st EXCEPT !.more = TRUE]
    ELSE [st EXCEPT !.rows = Append(@, row), !.seen = @ + 1]

ScanStart == [seen |-> 0, rows |-> <<>>, more |-> FALSE]

ScanRows(rows, from, size) == FoldLeft(LAMBDA st, row : ScanRow(st, row, from, size), ScanStart, rows)

ScanWindow(rows, offset, limit) ==
    LET st == ScanRows(rows, AtLeastNone(offset), OrDefault(limit))
    IN  [rows |-> st.rows, more |-> st.more]

\* sliceRowsWindow
SliceWindow(rows, offset, limit) ==
    LET from == AtLeastNone(offset)
        end == from + OrDefault(limit)
    IN  IF from >= Len(rows) THEN [rows |-> <<>>, more |-> FALSE]
        ELSE [rows |-> SubSeq(rows, from + 1, IF end > Len(rows) THEN Len(rows) ELSE end),
              more |-> end < Len(rows)]

----------------------------------------------------------------------------
(* Pages of a table *)

\* resolvePageSize; 0 stands for a size that is missing or not a number.
ResolvePageSize(asked) ==
    IF asked <= 0 THEN PageSize ELSE IF asked > MaxPageSize THEN MaxPageSize ELSE asked

\* The rows of an owner, or all, in their order.
IfOwn(list, row, owner) == IF owner = "" \/ row.owner = owner THEN Append(list, row) ELSE list

OwnRows(rows, owner) == FoldLeft(LAMBDA list, row : IfOwn(list, row, owner), <<>>, rows)

\* tableViewHandler, tableRowsSorted and selectPageSQL: the rows of a page, those of one
\* owner if the table has a policy; the number of pages comes from a count of all rows that
\* may be some seconds old.
TablePage(rows, owner, count, asked, size) ==
    LET mine == OwnRows(rows, owner)
        page == IF asked < 1 THEN 1 ELSE asked
        n == ResolvePageSize(size)
        from == (page - 1) * n
    IN  [rows |-> SubSeq(mine, from + 1, IF from + n > Len(mine) THEN Len(mine) ELSE from + n),
         pages |-> IF count > n THEN (count + n - 1) \div n ELSE 1]

----------------------------------------------------------------------------
(* Migration *)

\* migrateTable: a table is <<>> or <<rows>>; the insert of the failing row is refused, and
\* what was inserted before it stays.  Nobody looks whether the target is there: it is the
\* first insert that is refused if it is not.
Migrate(source, target, create, failing) ==
    LET there == create \/ target # <<>>
        made == IF create THEN <<<<>>>> ELSE target
        copied == IF ~there THEN 0
                  ELSE IF failing \in DOMAIN source[1] THEN failing - 1 ELSE Len(source[1])
    IN  IF source = <<>> \/ (create /\ target # <<>>)
        THEN [target |-> target, rows |-> 0, failed |-> TRUE]
        ELSE [target |-> IF there THEN <<made[1] \o SubSeq(source[1], 1, copied)>> ELSE target,
              rows |-> copied, failed |-> copied < Len(source[1])]

----------------------------------------------------------------------------
(* What makes it correct *)

\* The windows that follow one another, as long as there are more.
NextWindow(st, k, rows, limit) ==
    LET w == ScanWindow(rows, Len(st.rows), limit)
    IN  IF st.done THEN st ELSE [rows |-> st.rows \o w.rows, done |-> ~w.more, asked |-> k]

WalkStart == [rows |-> <<>>, done |-> FALSE, asked |-> 0]

Walk(rows, limit) ==
    FoldLeft(LAMBDA st, k : NextWindow(st, k, rows, limit), WalkStart, [k \in 1..Len(rows) + 1 |-> k])

\* Whichever way a window is read it has the same rows, and who goes on as long as there are
\* more sees every row once, in order, without an empty window at the end (the three window
\* readers of db.go).
WindowsRight(rows, offset, asked) ==
    LET limit == ClampQueryWindowLimit(asked)
        walk == Walk(rows, limit)
    IN  /\ ScanWindow(rows, offset, limit) = StreamWindow(rows, offset, limit)
        /\ ScanWindow(rows, offset, limit) = SliceWindow(rows, offset, limit)
        /\ walk.rows = rows /\ walk.done
        /\ walk.asked = IF rows = <<>> THEN 1 ELSE (Len(rows) + limit - 1) \div limit

\* A count that is not too small lets the pages it announces show every row of the owner
\* once (tableViewHandler).
PagesRight(rows, owner, count, size) ==
    count >= Len(rows) =>
        LET pages == [p \in 1..TablePage(rows, owner, count, 1, size).pages |-> TablePage(rows, owner, count, p, size).rows]
        IN  FlattenSeq(pages) = OwnRows(rows, owner)

\* A migration adds to what the target had exactly the rows it reports, and all of the
\* source's if it reports no error, but for an empty source there need be no target; a
\* second one after an error can make the table complete only by copying rows again
\* (migrateTable).
MigrationRight(source, target, create, failing) ==
    LET m == Migrate(source, target, create, failing)
        had == IF target = <<>> THEN <<>> ELSE target[1]
        again == Migrate(source, m.target, FALSE, 0)
    IN  /\ m.rows > 0 => m.target = <<had \o SubSeq(source[1], 1, m.rows)>>
        /\ ~m.failed => m.target = IF create \/ target # <<>> \/ source[1] # <<>>
                                  THEN <<had \o source[1]>> ELSE <<>>
        /\ m.failed /\ ~again.failed => Len(again.target[1]) = Len(had) + m.rows + Len(source[1])
=============================================================================
