----------------------------- MODULE TableOrder -----------------------------
(***************************************************************************)
(* The order of table rows: crates/kxs-cluster/src/table.                   *)
(* A cell is what the comparison makes of its text: how it reads, the        *)
(* number in front (of a quantity, in base units) and the place of the rest   *)
(* in the order of lower-cased texts.                                         *)
(***************************************************************************)
EXTENDS Integers, Sequences, FiniteSets

Quantity(n) == [reads |-> "quantity", num |-> n, rest |-> 0]     \* "250m", "128Mi", "3"
Leading(n, rest) == [reads |-> "leading", num |-> n, rest |-> rest] \* "3 (5m ago)", "2/2"
Text(rest) == [reads |-> "text", num |-> 0, rest |-> rest]
Blank == [reads |-> "empty", num |-> 0, rest |-> 0]              \* "", "-", "<none>"...

\* rank: quantities, then leading numbers, then text, then empty cells
Rank(c) == CASE c.reads = "quantity" -> 0 [] c.reads = "leading" -> 1
             [] c.reads = "text" -> 2 [] c.reads = "empty" -> 3

Cmp(m, n) == IF m < n THEN -1 ELSE IF m > n THEN 1 ELSE 0

\* Faulty: numbers are compared whatever follows them.
CompareNumbersFirst(a, b) ==
    IF a.num # 0 /\ b.num # 0 /\ a.num # b.num THEN Cmp(a.num, b.num)
    ELSE IF Rank(a) # Rank(b) THEN Cmp(Rank(a), Rank(b)) ELSE Cmp(a.rest, b.rest)

\* compare_cells
CompareCells(a, b) ==
    IF Rank(a) # Rank(b) THEN Cmp(Rank(a), Rank(b))
    ELSE IF a.num # b.num THEN Cmp(a.num, b.num) ELSE Cmp(a.rest, b.rest)

\* What sort_rows and sort_by reverse: empty cells stay last either way.
Directed(a, b, dir) ==
    CompareCells(a, b) * (IF dir = "desc" /\ a # Blank /\ b # Blank THEN -1 ELSE 1)

\* sort_by is stable: the n-th row is the one with n - 1 rows before it.
Precedes(order, i, j) == order < 0 \/ (order = 0 /\ i < j)
StableSort(rows, Cell(_), dir) ==
    LET before(i) == {j \in DOMAIN rows : Precedes(Directed(Cell(rows[j]), Cell(rows[i]), dir), j, i)}
    IN  [n \in DOMAIN rows |-> rows[CHOOSE i \in DOMAIN rows : Cardinality(before(i)) = n - 1]]

\* sort_rows: the column after the last is the age, by when a row was made.
SortRows(rows, column, dir) == StableSort(rows, LAMBDA r : r.cells[column], dir)

\* sort_pods: restarts and ages are numbers, a pod without one comes last.
SortPods(rows, field, dir) == StableSort(rows, LAMBDA r : r.cells[field], dir)

\* event_time_ms as an age: an event that says neither when it was made nor when it
\* was last seen comes last.
EventAge(row) == row.cells["age"]

\* sort_events_newest_first
NewestFirst(rows) == StableSort(rows, LAMBDA r : EventAge(r), "asc")

\* cycle_sort: none, ascending, descending, none
CycleSort(sort, key, none) ==
    IF sort # none /\ sort.key = key
    THEN IF sort.dir = "asc" THEN [sort EXCEPT !.dir = "desc"] ELSE none
    ELSE [key |-> key, dir |-> "asc"]
=============================================================================
