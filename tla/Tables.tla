------------------------------- MODULE Tables -------------------------------
(***************************************************************************)
(* The catalogs of a session: TableController keeps, for each file id, a   *)
(* Table and a view of it, the rows that passed the filters of the last    *)
(* request in the order of its sort column; requests for further rows with *)
(* the same parameters are answered from the view.                         *)
(***************************************************************************)
EXTENDS Integers, FiniteSets, Sequences

CONSTANTS Catalogs,    \* file ids
          TableFiles,  \* what OPEN_CATALOG_FILE may name
          Filters,     \* the filter lists of requests
          SortColumns, \* their sort columns, "" for none
          MaxChunk,    \* rows of one response (100000 in the code)
          PageSizes,   \* rows asked for
          MaxTableMessages

\* Numbers of a file are such, and the numbers of a filter are not negative: a
\* negative one is rounded up to an int, a positive one down.
ASSUME TableFilesAssumption ==
    \A file \in TableFiles :
        /\ file.fields \in Seq({file.fields[c] : c \in DOMAIN file.fields})
        /\ file.rows \in Seq({file.rows[row] : row \in DOMAIN file.rows})
        /\ \A row \in DOMAIN file.rows :
              /\ file.rows[row] \in Seq({file.rows[row][c] : c \in DOMAIN file.rows[row]})
              /\ \A c \in DOMAIN file.rows[row] :
                    c \in DOMAIN file.fields /\ file.fields[c].type \in {"int", "float"} =>
                        file.rows[row][c] \in Int
Comparisons == {"Equal", "NotEqual", "Lesser", "Greater", "LessorOrEqual", "GreaterOrEqual",
                "RangeClosed", "RangeOpen"}
ASSUME FiltersAssumption ==
    \A filters \in Filters :
        /\ filters \in Seq({filters[n] : n \in DOMAIN filters})
        /\ \A n \in DOMAIN filters :
              /\ filters[n].value \in Nat /\ filters[n].second \in Nat
              /\ filters[n].op \in Comparisons
ASSUME PagesAssumption == MaxChunk \in Nat \ {0} /\ PageSizes \subseteq Nat

VARIABLES tables,      \* _tables: id -> Table
          view_cache,  \* _view_cache: id -> TableViewCache
          table_messages

VARIABLES table_reply, \* history: the responses to the last request
          pages        \* history: id -> <<position, row>> sent with these parameters

tableVars == <<tables, view_cache, table_messages, table_reply, pages>>

\* Numbers are in halves: an int column has the even ones.
NaN == 99
NoCell == -1
Numeric == {"int", "float"}
Supported == Numeric \cup {"string"}
NoReply == [to |-> "none"]
NoName == ""

Table(id) == tables[id]
NumRows(t) == Len(t.cells)

\* The cell of a row; PopulateRows fills what a short row leaves out.
SetEmpty(type) == CASE type = "float" -> NaN [] type = "int" -> 0 [] OTHER -> NoCell
PopulateRows(file) ==
    [row \in DOMAIN file.rows |->
        [c \in DOMAIN file.fields |->
            IF c <= Len(file.rows[row]) THEN file.rows[row][c] ELSE SetEmpty(file.fields[c].type)]]

\* The last column of a name has it; 0 if there is none.  A column without a name
\* is not in the map.
GetColumnByName(t, name) ==
    LET named == {c \in DOMAIN t.fields : t.fields[c].name = name /\ name # NoName}
    IN IF named = {} THEN 0 ELSE CHOOSE c \in named : \A d \in named : d <= c

-----------------------------------------------------------------------------
\* TableView.

WholeTable == [subset |-> FALSE, rows |-> <<>>]
ViewRows(t, view) == IF view.subset THEN view.rows ELSE [i \in 1..NumRows(t) |-> i]

\* The rows that pass, in the order of the view.  A view of all rows is not a
\* subset; their order is forgotten with them.
KeepRows(t, view, passing) ==
    LET rows == ViewRows(t, view)
        matching[n \in 0..Len(rows)] ==
            IF n = 0 THEN <<>>
            ELSE IF rows[n] \in passing THEN Append(matching[n - 1], rows[n]) ELSE matching[n - 1]
    IN IF Len(matching[Len(rows)]) = NumRows(t) THEN WholeTable
       ELSE [subset |-> TRUE, rows |-> matching[Len(rows)]]

\* A filter's value takes the type of the column.
Typed(type, value) == IF type = "int" THEN 2 * (value \div 2) ELSE value

\* The comparison of a cell with the values of a filter.
Compares(op, val, low, high) ==
    IF val = NaN THEN op = "NotEqual"
    ELSE \/ op = "Equal" /\ val = low
         \/ op = "NotEqual" /\ val # low
         \/ op = "Lesser" /\ val < low
         \/ op = "Greater" /\ val > low
         \/ op = "LessorOrEqual" /\ val <= low
         \/ op = "GreaterOrEqual" /\ val >= low
         \/ op = "RangeClosed" /\ low <= val /\ val <= high
         \/ op = "RangeOpen" /\ low < val /\ val < high

NumericFilter(t, view, column, filter) ==
    LET type == t.fields[column].type
    IN KeepRows(t, view, {row \in 1..NumRows(t) :
                             Compares(filter.op, t.cells[row][column],
                                      Typed(type, filter.value), Typed(type, filter.second))})

\* find of a substring; strings are given as the set of the substrings asked for.
StringFilter(t, view, column, filter) ==
    KeepRows(t, view, {row \in 1..NumRows(t) : filter.value \in t.strings[t.cells[row][column]]})

\* Filters on columns that do not exist or have no type change nothing.
ApplyFilter(filter, t, view) ==
    LET column == GetColumnByName(t, filter.column)
    IN IF column = 0 \/ t.fields[column].type \notin Supported THEN view
       ELSE IF t.fields[column].type = "string" THEN StringFilter(t, view, column, filter)
       ELSE NumericFilter(t, view, column, filter)

\* Filters one after the other, from the whole table.
Filtered(t, filters) ==
    LET after[n \in 0..Len(filters)] ==
            IF n = 0 THEN WholeTable ELSE ApplyFilter(filters[n], t, after[n - 1])
    IN after[Len(filters)]

\* SortIndices: NaN goes last, whatever the direction.
Before(t, column, ascending, a, b) ==
    LET x == t.cells[a][column]  y == t.cells[b][column]
    IN x # NaN /\ (y = NaN \/ IF ascending THEN x < y ELSE x > y)

\* No row comes after one that belongs behind it.
Sorted(t, column, ascending, rows) ==
    \A i, j \in DOMAIN rows : i < j => ~Before(t, column, ascending, rows[j], rows[i])

\* parallel_sort need not be stable: any order of the rows that is sorted.
SortByColumn(t, view, name, ascending) ==
    LET column == GetColumnByName(t, name)
        rows == ViewRows(t, view)
        orders == {p \in [DOMAIN rows -> DOMAIN rows] : Cardinality({p[i] : i \in DOMAIN rows}) = Len(rows)}
    IN IF column = 0 \/ t.fields[column].type \notin Supported THEN {view}
       ELSE {[subset |-> TRUE, rows |-> [i \in DOMAIN rows |-> rows[p[i]]]] :
                p \in {q \in orders : Sorted(t, column, ascending, [i \in DOMAIN rows |-> rows[q[i]]])}}

-----------------------------------------------------------------------------
\* TableController.

TablesTypeOK ==
    /\ DOMAIN tables \subseteq Catalogs /\ DOMAIN view_cache \subseteq DOMAIN tables
    /\ \A id \in DOMAIN view_cache :
          \A i \in DOMAIN view_cache[id].view.rows : view_cache[id].view.rows[i] \in 1..NumRows(tables[id])

TablesInit ==
    /\ tables = <<>> /\ view_cache = <<>> /\ table_messages = 0
    /\ table_reply = NoReply /\ pages = [id \in Catalogs |-> {}]

TableMessage == table_messages < MaxTableMessages /\ table_messages' = table_messages + 1

Set(f, x, v) == [y \in DOMAIN f \cup {x} |-> IF y = x THEN v ELSE f[y]]
Erase(f, x) == [y \in DOMAIN f \ {x} |-> f[y]]
\* map::emplace leaves an element that is there alone.
Emplace(f, x, v) == IF x \in DOMAIN f THEN f ELSE Set(f, x, v)

CloseTable(id) == tables' = Erase(tables, id) /\ view_cache' = Erase(view_cache, id)

\* The views left once the table with the same id is closed.
ViewsKept(id) == Erase(view_cache, id)
\* A table that cannot be parsed has its id, and no view.
OnOpenFileRequest(id, file) ==
    /\ TableMessage
    /\ IF ~file.exists THEN UNCHANGED <<tables, view_cache, pages>>
       ELSE /\ tables' = Set(tables, id, [fields |-> file.fields, strings |-> file.strings,
                                          cells |-> PopulateRows(file)])
            /\ view_cache' = IF file.valid
                             THEN Emplace(ViewsKept(id), id,
                                          [view |-> WholeTable, filters |-> <<>>, sort |-> NoName, ascending |-> TRUE])
                             ELSE ViewsKept(id)
            /\ pages' = [pages EXCEPT ![id] = {}]
    /\ table_reply' = NoReply

OnCloseFileRequest(id) ==
    /\ TableMessage /\ id \in DOMAIN tables
    /\ CloseTable(id)
    /\ pages' = [pages EXCEPT ![id] = {}] /\ table_reply' = NoReply

\* The mutant: the direction of the sort is not compared.
FiltersChanged(cache, filters, sort, ascending) ==
    cache.sort # sort \/ cache.filters # filters

FilterParamsChanged(cache, filters, sort, ascending) ==
    cache.sort # sort \/ cache.ascending # ascending \/ cache.filters # filters

\* The mutant: the rest of the rows is not sent when it fills no chunk.
WholeChunks(start, size) ==
    [i \in 1..(size \div MaxChunk) |-> [from |-> start + (i - 1) * MaxChunk, to |-> start + i * MaxChunk]]

\* The responses to a request for rows: as many as it takes, one if there are
\* no rows, and none at all for a start beyond the last row.
Chunks(start, size) ==
    IF size = 0 THEN <<[from |-> start, to |-> start]>>
    ELSE [i \in 1..((size + MaxChunk - 1) \div MaxChunk) |->
             [from |-> start + (i - 1) * MaxChunk,
              to |-> IF i * MaxChunk < size THEN start + i * MaxChunk ELSE start + size]]

\* The rows FillValues takes: the bounds are clamped.
RowsFrom(rows, from, to) == SubSeq(rows, from + 1, IF to > Len(rows) THEN Len(rows) ELSE to)

\* A start beyond the last row gives a negative size, for which nothing is sent.
ResponseSize(rows, start, size) ==
    IF size < Len(rows) - start THEN size ELSE Len(rows) - start
PartialResults(rows, start, size) ==
    IF size < 0 THEN <<>>
    ELSE [i \in DOMAIN Chunks(start, size) |->
             RowsFrom(rows, Chunks(start, size)[i].from, Chunks(start, size)[i].to)]

\* at() throws when the id has no view: its table could not be parsed.
OnFilterRequest(id, filters, sort, ascending, start, size) ==
    /\ TableMessage /\ id \in DOMAIN tables
    /\ IF id \notin DOMAIN view_cache
       THEN table_reply' = [to |-> "throws"] /\ UNCHANGED <<view_cache, pages>>
       ELSE LET t == tables[id]
                cache == view_cache[id]
                changed == FilterParamsChanged(cache, filters, sort, ascending)
            IN \E view \in IF changed THEN SortByColumn(t, Filtered(t, filters), sort, ascending)
                           ELSE {cache.view} :
                  LET rows == ViewRows(t, view)
                      response == ResponseSize(rows, start, size)
                  IN /\ view_cache' = [view_cache EXCEPT ![id] =
                            [view |-> view, filters |-> filters, sort |-> sort, ascending |-> ascending]]
                     /\ table_reply' = [to |-> "filter", id |-> id, filters |-> filters, sort |-> sort,
                                        ascending |-> ascending, start |-> start, size |-> size,
                                        total |-> Len(rows), sent |-> PartialResults(rows, start, response)]
                     /\ pages' = [pages EXCEPT ![id] =
                            (IF cache.filters = filters /\ cache.sort = sort /\ cache.ascending = ascending
                             THEN @ ELSE {})
                            \cup {<<start + i, rows[start + i]>> : i \in 1..response}]
    /\ UNCHANGED tables

TablesNext ==
    \E id \in Catalogs :
        \/ \E file \in TableFiles : OnOpenFileRequest(id, file)
        \/ OnCloseFileRequest(id)
        \/ \E filters \in Filters, sort \in SortColumns, ascending \in BOOLEAN,
              start \in {0} \cup PageSizes, size \in PageSizes :
              OnFilterRequest(id, filters, sort, ascending, start, size)

TablesSpec == TablesInit /\ [][TablesNext]_tableVars

-----------------------------------------------------------------------------
\* What a comparison means, on the numbers themselves.
MeantBy(op, val, low, high) ==
    IF val = NaN THEN op = "NotEqual"
    ELSE CASE op = "Equal" -> val = low
           [] op = "NotEqual" -> val # low
           [] op = "Lesser" -> val < low
           [] op = "Greater" -> val > low
           [] op = "LessorOrEqual" -> val <= low
           [] op = "GreaterOrEqual" -> val >= low
           [] op = "RangeClosed" -> val \in low..high
           [] op = "RangeOpen" -> val \in (low + 1)..(high - 1)

\* A filter's value between two ints counts as the lower one.
MeantValue(type, value) == IF type = "int" THEN value - (value % 2) ELSE value
Meant(t, filter, row) ==
    LET column == GetColumnByName(t, filter.column)
        type == t.fields[column].type
        val == t.cells[row][column]
    IN IF column = 0 \/ type \notin Supported THEN TRUE
       ELSE IF type = "string" THEN filter.value \in t.strings[val]
       ELSE MeantBy(filter.op, val, MeantValue(type, filter.value), MeantValue(type, filter.second))

Replied == table_reply.to = "filter"
Answered(r) == tables[r.id]
Matching(r) == {row \in 1..NumRows(Answered(r)) :
                   \A i \in DOMAIN r.filters : Meant(Answered(r), r.filters[i], row)}

\* A response counts and holds the rows of the table now open under its id that
\* pass every filter of its request, in the order it asks for, whichever
\* requests came before it.
FilteredRowsCurrent ==
    Replied =>
        LET r == table_reply
            t == Answered(r)
            column == GetColumnByName(t, r.sort)
        IN /\ r.total = Cardinality(Matching(r))
           /\ \A k \in DOMAIN r.sent :
                 /\ \A i \in DOMAIN r.sent[k] : r.sent[k][i] \in Matching(r)
                 /\ column # 0 /\ t.fields[column].type \in Supported =>
                       Sorted(t, column, r.ascending, r.sent[k])

\* The chunks of a response hold all rows asked for, and the pages of one
\* filter and sort hold no row twice.
PagesComplete ==
    Replied =>
        LET r == table_reply
            asked == {i \in 1..r.size : r.start + i <= r.total}
        IN /\ {p[1] : p \in pages[r.id]} \subseteq 1..r.total
           /\ \A p, q \in pages[r.id] : (p[1] = q[1]) = (p[2] = q[2])
           /\ r.start <= r.total =>
                 Cardinality(UNION {{r.sent[k][i] : i \in DOMAIN r.sent[k]} : k \in DOMAIN r.sent})
                    = Cardinality(asked)

\* The rows of a response are those of its filters, and no row is left out.
TablesCorrect == FilteredRowsCurrent /\ PagesComplete
=============================================================================
