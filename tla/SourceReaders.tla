---- MODULE SourceReaders ----
(* Reading a source into tables (intake/streaming.py, xlsx_stream.py,      *)
(* files.py, values.py, mysql.py).  A workbook, a CSV file or a set of     *)
(* MySQL tables is read row by row: the header row is located, each data   *)
(* row is checked, padded to the header and handed to the sink, and the    *)
(* types seen in each column are summed up.  Any fault, and any limit      *)
(* exceeded, refuses the whole source; nothing is cut off.                 *)
(*                                                                         *)
(* A value is <<kind, content>> or None; kind is the observed_type of its  *)
(* text, "" for the empty string, or a fault: "formula" or "long".  A cell *)
(* is astray when its coordinate names another row.  "xlsx" is the reader  *)
(* of the worker.  "buffer" is the one that the SQLite backend uses for    *)
(* workbooks: it counts the cells of the whole archive first, and then     *)
(* openpyxl yields the rows, silently without those that come too late.    *)
EXTENDS Integers, FiniteSets, Sequences

CONSTANTS
    Documents,  \* [kind, header (row), sheets]; see MCSources
    MaxTables, MaxRows, MaxColumns, MaxCells,  \* Limits
    None

VARIABLES
    doc,     \* the source
    sheet,   \* the sheet or table being read
    row,     \* rows of it that were read
    last,    \* the number of the last row
    reader,  \* TableReader: [names, count, kinds, nulls], or NoReader
    cells,   \* cells read so far
    sink,    \* finished tables: [name, columns, rows]
    rows,    \* the rows of the open table
    result   \* "reading", "done" or "refused"

vars == <<doc, sheet, row, last, reader, cells, sink, rows, result>>

NewReader(names) ==
    [names |-> names, count |-> 0,
     kinds |-> [i \in DOMAIN names |-> {}], nulls |-> [i \in DOMAIN names |-> FALSE]]
NoReader == NewReader(<<>>)

Init ==
    /\ doc \in Documents
    /\ sheet = 0 /\ row = 0 /\ last = 0 /\ reader = NoReader /\ cells = 0
    /\ sink = <<>> /\ rows = <<>> /\ result = "reading"

Workbook(d) == d.kind \in {"xlsx", "buffer"}
Faults == {"formula", "long"}
IsFault(v) == v # None /\ v[1] \in Faults
Sheets(d) == SelectSeq(d.sheets, LAMBDA s : ~s.description)
Current == Sheets(doc)[sheet]
Source == Current.rows[row + 1]

\* sheet_rows: a row or a cell without a reference follows the last one.
Number(reference, previous) == IF reference = 0 THEN previous + 1 ELSE reference
Positions(references) ==
    LET at[i \in 0 .. Len(references)] == IF i = 0 THEN 0 ELSE Number(references[i], at[i - 1])
    IN  [i \in 1 .. Len(references) |-> at[i]]
Columns(cs) == Positions([i \in 1 .. Len(cs) |-> cs[i].col])

\* The rows of a sheet and their numbers.
Rows(s) == 1 .. Len(s.rows)
Num(s, i) == Positions([k \in Rows(s) |-> s.rows[k].number])[i]

\* _cells_by_row: openpyxl skips a row whose number was passed before.
Skipped(s, i) == \E j \in 1 .. i - 1 : Num(s, j) >= Num(s, i)
Yielded(d, s) == {i \in Rows(s) : d.kind = "buffer" => ~Skipped(s, i)}

\* _check_archive: the cells of every sheet of a workbook, those of
\* description pages too, and the numbers and columns that it states.
ArchiveCells(d) ==
    UNION {UNION {{<<i, j>>} \X DOMAIN d.sheets[i].rows[j].cells : j \in Rows(d.sheets[i])} : i \in DOMAIN d.sheets}
ArchiveFits(d) ==
    d.kind = "buffer" =>
        /\ Cardinality(ArchiveCells(d)) <= MaxCells
        /\ \A i \in DOMAIN d.sheets : \A j \in Rows(d.sheets[i]) :
            LET r == d.sheets[i].rows[j]
            IN  r.number <= MaxRows + d.header /\ \A k \in DOMAIN r.cells : r.cells[k].col <= MaxColumns

\* Limits, and sources as they are parsed: sequences of sheets, rows and cells,
\* with positive numbers where a workbook states them; a CSV file states none.
IsSequence(s) == s \in Seq({s[i] : i \in DOMAIN s})
ReaderAssumption ==
    /\ {MaxTables, MaxRows, MaxColumns, MaxCells} \subseteq Nat
    /\ \A d \in Documents :
        /\ d.header \in Nat \ {0}
        /\ d.kind = "mysql" =>
            IsSequence(d.sheets) /\ \A i \in DOMAIN d.sheets : IsSequence(d.sheets[i].rows) /\ d.sheets[i].width \in Nat
        /\ d.kind # "mysql" => IsSequence(Sheets(d)) /\ \A i \in DOMAIN Sheets(d) : IsSequence(Sheets(d)[i].rows)
        /\ d.kind # "mysql" => \A i \in DOMAIN Sheets(d) : \A j \in DOMAIN Sheets(d)[i].rows :
            LET r == Sheets(d)[i].rows[j]
            IN  /\ r.number \in Nat /\ (~Workbook(d) => r.number = 0)
                /\ IsSequence(r.cells)
                /\ \A k \in DOMAIN r.cells : r.cells[k].col \in Nat /\ r.cells[k].astray \in BOOLEAN

(* Mutant: a cell takes its place in the file, not its column.             *)
LayoutPacked(cs) == [i \in 1 .. Len(cs) |-> cs[i].value]

\* The values of a row by column, up to the column of its last cell; a gap is
\* None, and of two cells in one column the later one counts.
Layout(cs) ==
    LET at == Columns(cs)
        here(k) == {i \in DOMAIN cs : at[i] = k}
        value(k) == IF here(k) = {} THEN None
                    ELSE cs[CHOOSE i \in here(k) : \A j \in here(k) : j <= i].value
    IN  [k \in 1 .. (IF cs = <<>> THEN 0 ELSE at[Len(cs)]) |-> value(k)]

Ordered(cs) ==
    LET at == Columns(cs)
    IN  \A i \in DOMAIN cs : at[i] <= MaxColumns /\ ~cs[i].astray /\ (i > 1 => at[i] > at[i - 1])

----
(* TableReader.                                                            *)

\* __init__: between 1 and max_columns names, none empty, no two equal.
GoodHeader(names) ==
    /\ Len(names) \in 1 .. MaxColumns
    /\ \A i \in DOMAIN names : names[i] # None /\ names[i][1] # ""
    /\ \A i, j \in DOMAIN names : names[i] = names[j] => i = j

Untyped(v) == v = None \/ v[1] = ""

\* add
Added(r, values) ==
    [r EXCEPT !.count = @ + 1,
              !.kinds = [i \in DOMAIN @ |-> IF Untyped(values[i]) THEN @[i] ELSE @[i] \cup {values[i][1]}],
              !.nulls = [i \in DOMAIN @ |-> @[i] \/ Untyped(values[i])]]

(* Mutant: a column of two kinds takes the wider-looking one.              *)
TypeOfFirst(kinds) == IF kinds = {} THEN "text" ELSE CHOOSE k \in kinds : TRUE

\* finish: one kind, decimals with integers, or mixed.
TypeOf(kinds) ==
    IF kinds = {} THEN "text"
    ELSE IF Cardinality(kinds) = 1 THEN CHOOSE k \in kinds : TRUE
    ELSE IF kinds \subseteq {"integer", "decimal"} THEN "decimal" ELSE "mixed"

Finished(r) ==
    [i \in DOMAIN r.names |->
        [name |-> r.names[i], type |-> TypeOf(r.kinds[i]), nullable |-> r.nulls[i] \/ r.count = 0]]

----
(* Files.                                                                  *)

AllNone(values) == \A i \in DOMAIN values : values[i] = None

\* Trailing empty cells of a header are not columns.
Stripped(values) ==
    LET filled == {i \in DOMAIN values : values[i] # None}
    IN  SubSeq(values, 1, IF filled = {} THEN 0 ELSE CHOOSE i \in filled : \A j \in filled : j <= i)

Padded(values, width) == [i \in 1 .. width |-> IF i \in DOMAIN values THEN values[i] ELSE None]

Values(d, r) == IF Workbook(d) THEN Layout(r.cells) ELSE [i \in 1 .. Len(r.cells) |-> r.cells[i].value]
HeaderOf(d, values) == IF Workbook(d) THEN Stripped(values) ELSE values

\* Cells are charged to max_cells: a workbook's all, of CSV the data rows'.
Charge(values) == IF Workbook(doc) \/ reader # NoReader THEN Len(values) ELSE 0

\* A row that is not data: above the header, or without a value.
Ignored(n, values) ==
    \/ n < doc.header
    \/ IF Workbook(doc) THEN AllNone(values) ELSE reader # NoReader /\ values = <<>>

\* The physical faults of a row.  sheet_rows insists on the order of rows and
\* cells; the buffered reader looks at a row only from the header on.
Unreadable(n, values) ==
    \/ doc.kind = "xlsx" /\ (n <= last \/ n > MaxRows + doc.header \/ ~Ordered(Source.cells))
    \/ doc.kind = "buffer" /\ n >= doc.header /\ Len(values) > MaxColumns
    \/ /\ doc.kind # "buffer" \/ n >= doc.header
       /\ \E i \in DOMAIN values : IsFault(values[i])

(* Mutant: the cells beyond the header are dropped with the padding.       *)
MisshapenNever(n, values) ==
    IF reader = NoReader THEN n # doc.header \/ ~GoodHeader(HeaderOf(doc, values))
    ELSE Len(values) # Len(reader.names) /\ ~Workbook(doc)

\* The header is not where it should be or malformed, or the row has more
\* values than it has columns, or there is no room for it.
Misshapen(n, values) ==
    IF reader = NoReader THEN n # doc.header \/ ~GoodHeader(HeaderOf(doc, values))
    ELSE \/ reader.count >= MaxRows
         \/ IF Workbook(doc) THEN ~AllNone(SubSeq(values, Len(reader.names) + 1, Len(values)))
            ELSE Len(values) # Len(reader.names)

Refused(n, values) ==
    \/ Unreadable(n, values)
    \/ cells + Charge(values) > MaxCells
    \/ ~Ignored(n, values) /\ Misshapen(n, values)

Reading == result = "reading" /\ doc.kind # "mysql"
Refuse == result' = "refused" /\ UNCHANGED <<doc, sheet, row, last, reader, cells, sink, rows>>

(* Mutant: the archive is not looked at before its rows are read.          *)
RejectedLate == Len(Sheets(doc)) > MaxTables

\* The archive as such is refused, or it has too many sheets.
Rejected == ~ArchiveFits(doc) \/ Len(Sheets(doc)) > MaxTables

\* workbook_rows: the next sheet, unless it is a description page.
Open ==
    /\ Reading /\ (sheet = 0 \/ row = -1)
    /\ IF Rejected THEN Refuse
       ELSE IF sheet < Len(Sheets(doc))
       THEN /\ sheet' = sheet + 1 /\ row' = 0 /\ last' = 0 /\ reader' = NoReader
            /\ UNCHANGED <<doc, cells, sink, rows, result>>
       ELSE /\ result' = IF sink = <<>> THEN "refused" ELSE "done"
            /\ UNCHANGED <<doc, sheet, row, last, reader, cells, sink, rows>>

More == Reading /\ sheet > 0 /\ row \in 0 .. Len(Current.rows) - 1

Late == row + 1 \notin Yielded(doc, Current)

RefuseRow == More /\ ~Late /\ Refused(Number(Source.number, last), Values(doc, Source)) /\ Refuse

\* The parser has counted the row, and openpyxl does not yield it.
SkipRow ==
    /\ More /\ Late
    /\ last' = Number(Source.number, last) /\ row' = row + 1
    /\ UNCHANGED <<doc, sheet, reader, cells, sink, rows, result>>

\* One row: ignored, the header, or data.
ReadRow ==
    /\ More /\ ~Late
    /\ LET n == Number(Source.number, last)
           values == Values(doc, Source)
       IN  /\ ~Refused(n, values)
           /\ last' = n /\ row' = row + 1 /\ cells' = cells + Charge(values)
           /\ \/ Ignored(n, values) /\ UNCHANGED <<reader, rows>>
              \/ /\ ~Ignored(n, values) /\ reader = NoReader
                 /\ reader' = NewReader(HeaderOf(doc, values)) /\ rows' = <<>>
              \/ /\ ~Ignored(n, values) /\ reader # NoReader
                 /\ LET padded == Padded(values, Len(reader.names))
                    IN  reader' = Added(reader, padded)
                        /\ rows' = Append(rows, [number |-> n, values |-> padded])
    /\ UNCHANGED <<doc, sheet, sink, result>>

\* The sheet is read: a table, a blank sheet, or a file without its header.
Close ==
    /\ Reading /\ sheet > 0 /\ row = Len(Current.rows)
    /\ IF reader = NoReader /\ ~Workbook(doc) THEN Refuse
       ELSE /\ sink' = IF reader = NoReader THEN sink
                       ELSE Append(sink, [name |-> Current.name, columns |-> Finished(reader), rows |-> rows])
            /\ row' = -1 /\ reader' = NoReader /\ rows' = <<>>
            /\ UNCHANGED <<doc, sheet, last, cells, result>>

----
(* MySQL tables, in one consistent snapshot.                               *)

Tables == doc.sheets
Least(a, b) == IF a < b THEN a ELSE b

(* Mutant: the query asks for no row beyond the limit.                     *)
FetchedCut(t) == SubSeq(t.rows, 1, Least(Least(MaxRows, (MaxCells - cells) \div t.width), Len(t.rows)))

\* LIMIT one row more than fits, so that too many are noticed.
Fetched(t) ==
    SubSeq(t.rows, 1, Least(Least(MaxRows, (MaxCells - cells) \div t.width) + 1, Len(t.rows)))

\* A selected table that is gone, without columns or with too many, or whose
\* rows exceed a limit, refuses the import.
Table ==
    /\ result = "reading" /\ doc.kind = "mysql"
    /\ IF sheet = Len(Tables)
       THEN result' = "done" /\ UNCHANGED <<doc, sheet, row, last, reader, cells, sink, rows>>
       ELSE LET t == Tables[sheet + 1]
                some == Len(Tables) <= MaxTables /\ \A i \in DOMAIN Tables : Tables[i].exists
                fits == /\ some /\ t.width \in 1 .. MaxColumns
                        /\ LET n == Len(Fetched(t)) IN n <= MaxRows /\ n * t.width <= MaxCells - cells
            IN  IF ~fits THEN Refuse
                ELSE /\ sink' = Append(sink, [name |-> t.name, rows |-> Fetched(t)])
                     /\ cells' = cells + t.width * Len(Fetched(t)) /\ sheet' = sheet + 1
                     /\ UNCHANGED <<doc, row, last, reader, rows, result>>

Next == Open \/ RefuseRow \/ SkipRow \/ ReadRow \/ Close \/ Table

Spec == Init /\ [][Next]_vars

----
(* What a source holds, stated without reading it in order.                *)

Val(d, s, i) ==
    LET cs == s.rows[i].cells
        at == Columns(cs)
        final(k) == {j \in DOMAIN at : at[j] = k /\ \A l \in DOMAIN at : at[l] = k => l <= j}
    IN  IF ~Workbook(d) THEN [j \in 1 .. Len(cs) |-> cs[j].value]
        ELSE [k \in 1 .. (IF cs = <<>> THEN 0 ELSE at[Len(at)]) |->
                IF final(k) = {} THEN None ELSE cs[CHOOSE j \in final(k) : TRUE].value]
Blank(d, s, i) == IF Workbook(d) THEN AllNone(Val(d, s, i)) ELSE Val(d, s, i) = <<>>
HeaderRow(d, s) == CHOOSE i \in Yielded(d, s) : Num(s, i) = d.header
HasTable(d, s) == \E i \in Yielded(d, s) : Num(s, i) >= d.header /\ (Workbook(d) => ~Blank(d, s, i))
Names(d, s) == HeaderOf(d, Val(d, s, HeaderRow(d, s)))
DataRows(d, s) == {i \in Yielded(d, s) : Num(s, i) > d.header /\ ~Blank(d, s, i)}

\* The place of i among the numbers of a set.
Rank(S, i) == Cardinality({j \in S : j <= i})

ExpectedColumn(d, s, k) ==
    LET vs == {Padded(Val(d, s, i), k)[k] : i \in DataRows(d, s)}
        kinds == {v[1] : v \in {x \in vs : ~Untyped(x)}}
    IN  [name |-> Names(d, s)[k],
         type |-> CASE kinds = {} -> "text"
                    [] Cardinality(kinds) = 1 -> CHOOSE x \in kinds : TRUE
                    [] kinds = {"integer", "decimal"} -> "decimal"
                    [] OTHER -> "mixed",
         nullable |-> vs = {} \/ \E v \in vs : Untyped(v)]

\* A table with the name of a sheet, its columns, and its data rows in order.
IsTableOf(t, d, s) ==
    /\ t.name = s.name
    /\ t.columns = [k \in DOMAIN Names(d, s) |-> ExpectedColumn(d, s, k)]
    /\ DOMAIN t.rows = 1 .. Cardinality(DataRows(d, s))
    /\ \A i \in DataRows(d, s) :
        t.rows[Rank(DataRows(d, s), i)] =
            [number |-> Num(s, i), values |-> Padded(Val(d, s, i), Len(Names(d, s)))]

\* Nothing is wrong with a row as such.
RowIsSound(d, s, i) ==
    /\ d.kind = "xlsx" =>
        /\ Ordered(s.rows[i].cells) /\ Num(s, i) <= MaxRows + d.header
        /\ \A j \in Rows(s) : j < i => Num(s, j) < Num(s, i)
    /\ d.kind = "buffer" /\ Num(s, i) >= d.header => Len(Val(d, s, i)) <= MaxColumns
    /\ (d.kind # "buffer" \/ Num(s, i) >= d.header) => \A k \in DOMAIN Val(d, s, i) : ~IsFault(Val(d, s, i)[k])

\* A data row has the shape of its header.
Fits(d, s, i, width) ==
    IF Workbook(d) THEN \A k \in DOMAIN Val(d, s, i) : k > width => Val(d, s, i)[k] = None
    ELSE Len(Val(d, s, i)) = width

\* Nothing is wrong with a sheet and it is within the limits.
SheetIsSound(d, s) ==
    /\ \A i \in Yielded(d, s) : RowIsSound(d, s, i)
    /\ IF HasTable(d, s)
       THEN /\ \E i \in Yielded(d, s) : Num(s, i) = d.header
            /\ GoodHeader(Names(d, s)) /\ Cardinality(DataRows(d, s)) <= MaxRows
            /\ \A i \in DataRows(d, s) : Fits(d, s, i, Len(Names(d, s)))
       ELSE Workbook(d)

\* The rows whose cells are charged: a workbook's all, of CSV the data rows.
Charged(d) ==
    {p \in UNION {{k} \X Yielded(d, Sheets(d)[k]) : k \in DOMAIN Sheets(d)} :
        Workbook(d) \/ p[2] \in DataRows(d, Sheets(d)[p[1]])}
CellsOf(d, places) == UNION {{p} \X DOMAIN Val(d, Sheets(d)[p[1]], p[2]) : p \in places}

FileIsSound(d) ==
    /\ ArchiveFits(d)
    /\ Len(Sheets(d)) <= MaxTables /\ \E i \in DOMAIN Sheets(d) : HasTable(d, Sheets(d)[i])
    /\ \A i \in DOMAIN Sheets(d) : SheetIsSound(d, Sheets(d)[i])
    /\ Cardinality(CellsOf(d, Charged(d))) <= MaxCells

CellsOfTables(d, k) == UNION {({i} \X DOMAIN d.sheets[i].rows) \X (1 .. d.sheets[i].width) : i \in 1 .. k}

TablesAreSound(d) ==
    /\ Len(d.sheets) <= MaxTables
    /\ \A i \in DOMAIN d.sheets :
        d.sheets[i].exists /\ d.sheets[i].width \in 1 .. MaxColumns /\ Len(d.sheets[i].rows) <= MaxRows
    /\ Cardinality(CellsOfTables(d, Len(d.sheets))) <= MaxCells

----
(* Properties.                                                             *)

\* The sheets that hold a table.
Full(d) == {i \in DOMAIN Sheets(d) : HasTable(d, Sheets(d)[i])}

\* What is imported is the whole source: every table, every data row under its
\* own number with each value in its own column, and column types that cover
\* all of them (docs/intake.md:11; mysql.py:140 "不截断保存").  The whole of a
\* buffered workbook is what openpyxl yields of it: the rows that raise the
\* highest number so far, and of each the columns up to its last cell.
WholeOrRefused ==
    result = "done" =>
        IF doc.kind = "mysql" THEN sink = [i \in DOMAIN Tables |-> [name |-> Tables[i].name, rows |-> Tables[i].rows]]
        ELSE /\ DOMAIN sink = 1 .. Cardinality(Full(doc))
             /\ \A i \in Full(doc) : IsTableOf(sink[Rank(Full(doc), i)], doc, Sheets(doc)[i])

\* A source is refused exactly when its reader finds something wrong with it or
\* a limit is exceeded: one that just reaches every limit is read.
RefusedForCause ==
    result # "reading" => (result = "done") = IF doc.kind = "mysql" THEN TablesAreSound(doc) ELSE FileIsSound(doc)
====
