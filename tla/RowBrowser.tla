------------------------------ MODULE RowBrowser ------------------------------
(***************************************************************************)
(* The Aurora page of the console (admin-console/src/pages/AuroraPage.vue)  *)
(* and the service behind it (admin-vpc-api/services/aurora.ts): tables are *)
(* read a page at a time along their primary key, rows of some tables can   *)
(* be edited or deleted, and other writers insert and delete meanwhile.     *)
(*                                                                         *)
(* Primary keys are numbers in the order the database sorts them; a cursor  *)
(* is the last key of a page, 0 for the first page.                         *)
(***************************************************************************)
EXTENDS Integers, Sequences, FiniteSets

CONSTANTS
    Tables,        \* the tables of the public schema that have a primary key
    RowKeys,       \* the primary keys their rows can have
    PageRows,      \* limit: rows of a page
    Turns,         \* bound: clicks that read rows
    Meddling,      \* bound: rows other writers insert or delete
    BrowserFaults  \* bound: reads that fail

ASSUME RowBrowserAssumption ==
    /\ RowKeys \in SUBSET (Nat \ {0}) /\ IsFiniteSet(RowKeys)
    /\ PageRows \in Nat \ {0}
    /\ Turns \in Nat /\ Meddling \in Nat /\ BrowserFaults \in Nat

\* EDITABLE_COLUMNS and DELETABLE_TABLES.
EditableTables == Tables \cap {"apps"}
DeletableTables == Tables \cap {"apps", "maps"}

VARIABLES
    db,         \* the keys of each table's rows
    opened,     \* selectedTable
    grid,       \* rows: the page shown, or NoRows
    trail,      \* pageCursors
    place,      \* pageIndex, counted from 1
    reading,    \* loadingRows
    asks,       \* row requests in flight, each with its page once served
    prompt,     \* the row a delete dialog is about, with the table it will name
    seen,       \* ghost: keys shown since the table was opened
    steady,     \* ghost: keys that were in the table all that time
    turns, meddled, broken,  \* ghosts: what was spent of the bounds
    crossed,    \* ghost: a reply arrived that a newer request had superseded
    written     \* ghost: the last edit or delete sent, and the table on screen

pageState == <<opened, grid, trail, place, reading, prompt>>
counts == <<turns, meddled, broken>>
browserVars == <<db, pageState, asks, seen, steady, counts, crossed, written>>

NoRows == [of |-> ""]
NoPrompt == [of |-> ""]

\* The first PageRows keys of a set.
FirstOf(keys) == {k \in keys : Cardinality({j \in keys : j < k}) < PageRows}
LastOf(keys) == CHOOSE k \in keys : \A j \in keys : j <= k

MutPageOf(t, after) ==
    LET beyond == {k \in db[t] : k > after}
        page == FirstOf(beyond)
        rest == beyond \ page
    IN [of |-> t, after |-> after, keys |-> page,
        next |-> IF rest = {} THEN 0 ELSE CHOOSE k \in rest : \A j \in rest : k <= j]

\* readRows: one row more than the limit says whether there is a next page.
PageOf(t, after) ==
    LET beyond == {k \in db[t] : k > after}
        page == FirstOf(beyond)
    IN [of |-> t, after |-> after, keys |-> page,
        next |-> IF beyond = page THEN 0 ELSE LastOf(page)]

\* loadRows(cursor) of table t, as turn n.
AskRows(t, cursor, n) == asks \cup {[of |-> t, after |-> cursor, turn |-> n, page |-> NoRows]}

BrowserInit ==
    /\ db \in [Tables -> SUBSET RowKeys]
    /\ opened \in Tables
    /\ grid = NoRows /\ prompt = NoPrompt
    /\ trail = <<0>> /\ place = 1
    /\ reading = TRUE
    /\ asks = {[of |-> opened, after |-> 0, turn |-> 0, page |-> NoRows]}
    /\ seen = {} /\ steady = db[opened]
    /\ turns = 0 /\ meddled = 0 /\ broken = 0
    /\ crossed = FALSE
    /\ written = <<>>

Turning == turns < Turns /\ turns' = turns + 1 /\ prompt = NoPrompt

\* openTable: the rows on screen stay until the new ones come.
OpenTable(t) ==
    /\ Turning
    /\ opened' = t
    /\ trail' = <<0>> /\ place' = 1
    /\ reading' = TRUE
    /\ asks' = AskRows(t, 0, turns')
    /\ seen' = {} /\ steady' = db[t]
    /\ crossed' = FALSE
    /\ UNCHANGED <<db, grid, prompt, meddled, broken, written>>

\* nextPage; the button is disabled while rows load and on the last page.
NextPage ==
    /\ Turning
    /\ grid # NoRows /\ grid.next # 0 /\ ~reading
    /\ trail' = Append(SubSeq(trail, 1, place), grid.next)
    /\ place' = place + 1
    /\ reading' = TRUE
    /\ asks' = AskRows(opened, grid.next, turns')
    /\ UNCHANGED <<db, opened, grid, prompt, seen, steady, meddled, broken, crossed, written>>

\* prevPage replays the cursor that produced the page before.
PrevPage ==
    /\ Turning
    /\ place > 1 /\ ~reading
    /\ place' = place - 1
    /\ reading' = TRUE
    /\ asks' = AskRows(opened, trail[place - 1], turns')
    /\ UNCHANGED <<db, opened, grid, trail, prompt, seen, steady, meddled, broken, crossed, written>>

\* The transaction of readRows.
ServeRows(q) ==
    /\ q.page = NoRows
    /\ asks' = (asks \ {q}) \cup {[q EXCEPT !.page = PageOf(q.of, q.after)]}
    /\ UNCHANGED <<db, pageState, seen, steady, counts, crossed, written>>

\* Something newer was asked, or written, after q.
Overtook(q) == q.turn < turns

\* The code after the await of loadRows: no check of what is open now.
RowsArrive(q) ==
    /\ q.page # NoRows
    /\ grid' = q.page
    /\ reading' = FALSE
    /\ asks' = asks \ {q}
    /\ seen' = IF q.of = opened THEN seen \cup q.page.keys ELSE seen
    /\ crossed' = (crossed \/ Overtook(q))
    /\ UNCHANGED <<db, opened, trail, place, prompt, steady, counts, written>>

RowsFail(q) ==
    /\ broken < BrowserFaults
    /\ broken' = broken + 1
    /\ grid' = NoRows
    /\ reading' = FALSE
    /\ asks' = asks \ {q}
    /\ UNCHANGED <<db, opened, trail, place, prompt, seen, steady, turns, meddled, crossed, written>>

\* updateRow and deleteRow refuse tables that are not listed and keys that are gone.
Updatable(t, k) == t \in EditableTables /\ k \in db[t]
Removable(t, k) == t \in DeletableTables /\ k \in db[t]

\* commit: the cell was drawn editable by the page on screen, the table written
\* is the one open.  The statement, then the re-read of the current page.
Commit(k) ==
    /\ Turning
    /\ grid # NoRows /\ k \in grid.keys /\ grid.of \in EditableTables
    /\ written' = <<opened, k, grid.of>>
    /\ IF Updatable(opened, k)
       THEN /\ asks' = AskRows(opened, trail[place], turns')
            /\ reading' = TRUE
       ELSE UNCHANGED <<asks, reading>>
    /\ UNCHANGED <<db, opened, grid, trail, place, prompt, seen, steady, meddled, broken, crossed>>

\* removeRow remembers the table open when the dialog is raised.
RaisePrompt(k) ==
    /\ prompt = NoPrompt
    /\ grid # NoRows /\ k \in grid.keys /\ grid.of \in DeletableTables
    /\ turns < Turns
    /\ prompt' = [of |-> opened, key |-> k, on |-> grid.of]
    /\ UNCHANGED <<db, opened, grid, trail, place, reading, asks, seen, steady, counts, crossed,
                   written>>

\* The typed confirmation: the delete, then the re-read.
ConfirmDelete ==
    /\ prompt # NoPrompt
    /\ prompt' = NoPrompt
    /\ turns < Turns /\ turns' = turns + 1
    /\ written' = <<prompt.of, prompt.key, prompt.on>>
    /\ IF Removable(prompt.of, prompt.key)
       THEN /\ db' = [db EXCEPT ![prompt.of] = @ \ {prompt.key}]
            /\ asks' = AskRows(opened, trail[place], turns')
            /\ reading' = TRUE
       ELSE UNCHANGED <<db, asks, reading>>
    /\ steady' = steady \cap db'[opened]
    /\ UNCHANGED <<opened, grid, trail, place, seen, meddled, broken, crossed>>

CancelDelete ==
    /\ prompt # NoPrompt
    /\ prompt' = NoPrompt
    /\ UNCHANGED <<db, opened, grid, trail, place, reading, asks, seen, steady, counts, crossed,
                   written>>

\* Another console, a consumer's cleanup or a page of its own writes the table.
Meddle(t, k) ==
    /\ meddled < Meddling
    /\ meddled' = meddled + 1
    /\ db' = [db EXCEPT ![t] = IF k \in @ THEN @ \ {k} ELSE @ \cup {k}]
    /\ steady' = steady \cap db'[opened]
    /\ UNCHANGED <<pageState, asks, seen, turns, broken, crossed, written>>

BrowserNext ==
    \/ NextPage \/ PrevPage \/ ConfirmDelete \/ CancelDelete
    \/ \E t \in Tables : OpenTable(t) \/ \E k \in RowKeys : Meddle(t, k)
    \/ \E q \in asks : ServeRows(q) \/ RowsArrive(q) \/ RowsFail(q)
    \/ \E k \in RowKeys : Commit(k) \/ RaisePrompt(k)

BrowserSpec == BrowserInit /\ [][BrowserNext]_browserVars

-----------------------------------------------------------------------------

\* The variables have their types.
BrowserTypeOK ==
    /\ db \in [Tables -> SUBSET RowKeys]
    /\ opened \in Tables
    /\ grid = NoRows \/ grid.keys \subseteq RowKeys
    /\ trail \in Seq({0} \cup RowKeys) /\ place \in 1..Len(trail)
    /\ reading \in BOOLEAN /\ crossed \in BOOLEAN

InOrder == asks = {} /\ ~crossed /\ grid # NoRows

\* Reading on to the last page has shown every row that was there all along,
\* whatever was inserted or deleted meanwhile: the reason for paging by key
\* ("an offset would drift as rows are inserted underneath", 80-84).
NothingSkipped == InOrder /\ grid.next = 0 => steady \subseteq seen

\* Once replies have come in order, the page shown is the open table's page at
\* the cursor the pager stands on, so that going back shows what was there.
PageIsItsCursor == InOrder => grid.of = opened /\ grid.after = trail[place]

\* An edit or a delete goes to the table whose rows are on the screen ("This
\* permanently deletes the row where <primary key> = ...", 238).
WritesHitTheRowShown == written # <<>> => written[1] = written[3]

\* Paging shows every row, and each page under its own cursor.
BrowserSafety == BrowserTypeOK /\ NothingSkipped /\ PageIsItsCursor
=============================================================================
