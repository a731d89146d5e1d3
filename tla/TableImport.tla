------------------------------ MODULE TableImport ------------------------------
(***************************************************************************)
(* From a file to rows of a table: how the readers of the text formats     *)
(* turn a file into records, and what importRecords makes of them.         *)
(*                                                                         *)
(* A cell is a member of a small set and KindOf is what typed.Classify     *)
(* says of it; a character is a string; a parsed line, document or element *)
(* is a record.  The records are a sequence of rows, the header first.     *)
(*                                                                         *)
(* Definitions whose name says what they leave out are mutations of the    *)
(* definition that follows them; the model does not use them.              *)
(***************************************************************************)
EXTENDS Integers, SequencesExt, FiniteSetsExt

CONSTANTS
    KindOf,      \* KindOf[cell]: "blank", "int", "float", "bool", "date", "time", "datetime", "text"
    Blank,       \* the empty cell, which becomes NULL
    Identifier,  \* the cells that could be a column's name as they stand
    Letter,      \* the characters of names: letters,
    Digit,       \* digits; "_" is allowed, every other one is not
    NoSection    \* the name shown for the pairs before the first section of an INI file

----------------------------------------------------------------------------
(* The types of columns *)

MergeKindKeepingFirst(kind, next) == IF kind = "blank" THEN next ELSE kind

\* mergeKind; text absorbs every kind, so that stopping at it changes nothing.
MergeKind(kind, next) ==
    IF next = "blank" THEN kind
    ELSE IF kind \in {"blank", next} THEN next
    ELSE IF {kind, next} = {"int", "float"} THEN "float"
    ELSE "text"

\* InferColumns, for one column; rows may be shorter than the header.
InferColumn(rows, i) ==
    LET kind == FoldLeft(LAMBDA k, row : IF i > Len(row) THEN k ELSE MergeKind(k, KindOf[row[i]]), "blank", rows)
    IN  IF kind = "blank" THEN "text" ELSE kind

\* typedSQLLiteral: NULL, a literal of the column's type, or the cell as text.
TypedSQLLiteral(cell, kind) ==
    LET own == KindOf[cell]
    IN  IF own = "blank" THEN [as |-> "null", cell |-> Blank]
        ELSE IF own = kind \/ (kind = "float" /\ own = "int") THEN [as |-> kind, cell |-> cell]
        ELSE [as |-> "text", cell |-> cell]

----------------------------------------------------------------------------
(* Names *)

TrimUnderscores(s) ==
    LET kept == {i \in DOMAIN s : s[i] # "_"}
    IN  IF kept = {} THEN <<>> ELSE SubSeq(s, Min(kept), Max(kept))

\* sanitizeIdentifier
SanitizeIdentifier(s, fallback) ==
    LET fits(i) == s[i] = "_" \/ s[i] \in Letter \/ (i > 1 /\ s[i] \in Digit)
        out == TrimUnderscores([i \in DOMAIN s |-> IF fits(i) THEN s[i] ELSE "_"])
    IN  IF out = <<>> \/ out[1] \in Digit THEN fallback ELSE out

IsIdentifier(s) == s # <<>> /\ s[1] \notin Digit /\ \A i \in DOMAIN s : s[i] \in {"_"} \cup Letter \cup Digit

\* makeUniqueGeoJSONColumns; a name is its parts, lower-cased: a taken one gets the prefix
\* prop_, and one taken again a number.
UniqueColumns(names) ==
    LET next(columns, name) ==
            LET used == ToSet(columns) \cup {<<"geometry">>, <<"geometry_type">>}
                base == IF name \in used THEN <<"prop">> \o name ELSE name
                free == {k \in 2..(Len(names) + 4) : Append(base, k) \notin used}
            IN  Append(columns, IF base \in used THEN Append(base, Min(free)) ELSE base)
    IN  FoldLeft(next, <<>>, names)

----------------------------------------------------------------------------
(* The import of records *)

\* hasHeader
HasHeader(records, mode) ==
    mode = "present" \/ (mode = "auto" /\ (Len(records) < 2 \/ ToSet(records[1]) \subseteq Identifier))

\* importRecords.  tables is <<>> or <<[columns, rows]>>, the table of that name; the
\* database refuses a row with a column the table lacks, and those in refused.
ImportRecords(tables, records, opts, refused) ==
    LET header == HasHeader(records, opts.header)
        columns == [i \in DOMAIN records[1] |-> IF header THEN <<records[1][i]>> ELSE <<"col", i>>]
        rows == IF header THEN Tail(records) ELSE records
        kinds == [i \in DOMAIN columns |-> IF opts.infer THEN InferColumn(rows, i) ELSE "text"]
        created == IF tables = <<>> /\ opts.create THEN <<[columns |-> columns, rows |-> <<>>]>> ELSE tables
        target == IF opts.truncate THEN [created[1] EXCEPT !.rows = <<>>] ELSE created[1]
        values(row) == [i \in DOMAIN columns |->
                          IF i <= Len(row) THEN TypedSQLLiteral(row[i], kinds[i]) ELSE [as |-> "null", cell |-> Blank]]
        fits(k) == k \notin refused /\ ToSet(columns) \subseteq ToSet(target.columns)
        one(st, k) ==
            IF st.failed THEN st
            ELSE IF fits(k) THEN [st EXCEPT !.inserted = @ + 1, !.table.rows =
                                     Append(@, [c \in ToSet(columns) |->
                                                  values(rows[k])[CHOOSE i \in DOMAIN columns : columns[i] = c]])]
            ELSE IF opts.strict THEN [st EXCEPT !.failed = TRUE]
            ELSE [st EXCEPT !.skipped = @ + 1]
        start == [failed |-> FALSE, inserted |-> 0, skipped |-> 0, table |-> target]
    IN  IF created = <<>> THEN [failed |-> opts.truncate \/ opts.strict, inserted |-> 0, skipped |-> Len(rows)]
        ELSE FoldLeft(one, start, [k \in DOMAIN rows |-> k])

\* importObjects: the columns in the order a map happens to have them.
ObjectRecords(objects, columns) ==
    <<columns>> \o [k \in DOMAIN objects |->
        [i \in DOMAIN columns |-> IF columns[i] \in DOMAIN objects[k] THEN objects[k][columns[i]] ELSE Blank]]

----------------------------------------------------------------------------
(* Readers *)

\* inferFixedWidthFields: the longest runs of positions that some line fills.
FixedWidthFields(lines) ==
    LET width == Max({Len(l) : l \in ToSet(lines)})
        shown(pos) == \E l \in ToSet(lines) : pos \in DOMAIN l /\ l[pos] # " "
    IN  {<<s, e>> \in (1..width) \X (2..width + 1) :
            s < e /\ (\A p \in s..e - 1 : shown(p)) /\ ~shown(s - 1) /\ ~shown(e)}

Trimmed(s) ==
    LET kept == {i \in DOMAIN s : s[i] # " "}
    IN  IF kept = {} THEN <<>> ELSE SubSeq(s, Min(kept), Max(kept))

\* ImportFixedWidth: what each line has in each field.
FixedWidthRecords(lines) ==
    LET fields == FixedWidthFields(lines)
        nth(i) == CHOOSE f \in fields : Cardinality({g \in fields : g[1] < f[1]}) = i - 1
        least(a, b) == IF a < b THEN a ELSE b
        cut(l, f) == SubSeq(l, least(f[1], Len(l) + 1), least(f[2] - 1, Len(l)))
    IN  [k \in DOMAIN lines |-> [i \in 1..Cardinality(fields) |-> Trimmed(cut(lines[k], nth(i)))]]

\* parseINI and ImportINI: a row for each section, in the order in which they first
\* appear; the pairs before the first section are those of a section without a name.
INIObjects(lines) ==
    LET put(st, line) ==
            IF line.kind = "section"
            THEN [st EXCEPT !.current = line.name,
                            !.order = IF line.name \in ToSet(@) THEN @ ELSE Append(@, line.name)]
            ELSE [st EXCEPT !.order = IF st.current \in ToSet(@) THEN @ ELSE Append(@, st.current),
                            !.pairs = Append(@, <<st.current, line.name, line.value>>)]
        st == FoldLeft(put, [current |-> "", order |-> <<>>, pairs |-> <<>>], lines)
        has(name) == {i \in DOMAIN st.pairs : st.pairs[i][1] = name}
        order == SelectSeq(st.order, LAMBDA name : name # "" \/ has(name) # {})
        last(name, key) == Max({i \in has(name) : st.pairs[i][2] = key})
        own(name) == [key \in {st.pairs[i][2] : i \in has(name)} |-> st.pairs[last(name, key)][3]]
    IN  [k \in DOMAIN order |->
            own(order[k]) @@ ("section" :> IF order[k] = "" THEN NoSection ELSE order[k])]

Geometry == {"point", "multipoint", "linestring", "multilinestring", "polygon", "multipolygon"}

\* importGeoJSONFeatures: the geometries below an object, with the properties of their
\* feature; a collection inside a collection is passed over.
RECURSIVE Features(_, _)
Features(object, props) ==
    LET members(list) == FlattenSeq([i \in DOMAIN list |->
            IF list[i].type \in Geometry THEN <<[geometry |-> list[i].name, props |-> props]>> ELSE <<>>])
    IN  CASE object.type = "featurecollection" ->
                FlattenSeq([i \in DOMAIN object.features |-> Features(object.features[i], props)])
          [] object.type = "feature" ->
                IF object.geometry = <<>> THEN <<>>
                ELSE Features(object.geometry[1], object.props @@ props)
          [] object.type = "geometrycollection" -> members(object.geometries)
          [] OTHER -> members(<<object>>)

\* sqliteRecords: the columns of all tables, and a row for each row of each.  A table is
\* [name, columns, rows], its columns' names already made identifiers.
SQLiteRecords(tables) ==
    LET seen(columns, c) == IF c = "source_table" \/ c \in ToSet(columns) THEN columns ELSE Append(columns, c)
        columns == FoldLeft(seen, <<>>, FlattenSeq([i \in DOMAIN tables |-> tables[i].columns]))
        at(t, c) == Max({i \in DOMAIN t.columns : t.columns[i] = c})
        cells(t, row) == [i \in DOMAIN columns |->
                            IF columns[i] \in ToSet(t.columns) THEN row[at(t, columns[i])] ELSE Blank]
    IN  <<<<"source_table">> \o columns>> \o
        FlattenSeq([i \in DOMAIN tables |->
            [k \in DOMAIN tables[i].rows |-> <<tables[i].name>> \o cells(tables[i], tables[i].rows[k])]])

\* ImportHTMLTables: rows without cells are left out, short ones filled up.
HTMLRecords(tables) ==
    LET rows == FlattenSeq([i \in DOMAIN tables |->
                    SelectSeq([k \in DOMAIN tables[i] |-> <<i, k, tables[i][k]>>], LAMBDA r : r[3] # <<>>)])
        width == Max({0} \cup {Len(r[3]) : r \in ToSet(rows)})
    IN  [k \in DOMAIN rows |->
            [table |-> rows[k][1], row |-> rows[k][2],
             cells |-> [i \in 1..width |-> IF i <= Len(rows[k][3]) THEN rows[k][3][i] ELSE Blank]]]

\* ImportICalendar: an event ends at its END line; what lies between is its own, with the
\* last value of each name.
Components(lines) ==
    LET starts == SelectSeq([k \in DOMAIN lines |-> k], LAMBDA k : lines[k].name = "BEGIN" /\ lines[k].value = "VEVENT")
        end(k) == Min({e \in k + 1..Len(lines) : lines[e].name = "END" /\ lines[e].value = "VEVENT"} \cup {Len(lines) + 1})
        \* a component that begins inside another is part of it
        outer == FoldLeft(LAMBDA kept, k : IF kept # <<>> /\ k <= end(Last(kept)) THEN kept ELSE Append(kept, k),
                          <<>>, starts)
        within(k) == k + 1..end(k) - 1
    IN  [i \in DOMAIN outer |->
            [name \in {lines[k].name : k \in within(outer[i])} |->
                lines[Max({k \in within(outer[i]) : lines[k].name = name})].value]]

----------------------------------------------------------------------------
(* What makes it correct *)

\* A column has a type only if all its cells that are not blank have it, or are integers
\* among floating-point numbers; no cell is lost, changed or moved to another row or
\* column on the way, and every row is either inserted or counted as skipped
\* (InferColumns, typedSQLLiteral, importRecords).
ImportRight(tables, records, opts, refused) ==
    LET r == ImportRecords(tables, records, opts, refused)
        header == HasHeader(records, opts.header)
        rows == IF header THEN Tail(records) ELSE records
        kept == IF tables = <<>> \/ opts.truncate THEN 0 ELSE Len(tables[1].rows)
        accepted == SelectSeq([k \in DOMAIN rows |-> k], LAMBDA k : k \notin refused)
        column(i) == IF header THEN <<records[1][i]>> ELSE <<"col", i>>
        kinds(i) == {KindOf[row[i]] : row \in {w \in ToSet(rows) : i <= Len(w)}} \ {"blank"}
    IN  (r.failed \/ "table" \notin DOMAIN r) \/
        /\ r.inserted + r.skipped = Len(rows)
        /\ Len(r.table.rows) = kept + r.inserted
        /\ r.inserted > 0 =>
             /\ r.inserted = Len(accepted)
             /\ \A k \in DOMAIN accepted, i \in DOMAIN records[1] :
                  LET stored == r.table.rows[kept + k][column(i)]
                      row == rows[accepted[k]]
                  IN  /\ stored.cell = IF i <= Len(row) /\ KindOf[row[i]] # "blank" THEN row[i] ELSE Blank
                      /\ stored.as \notin {"null", "text"} =>
                           kinds(i) \subseteq {stored.as} \cup (IF stored.as = "float" THEN {"int"} ELSE {})
                      /\ opts.infer /\ Cardinality(kinds(i)) = 1 /\ stored.as # "null" => stored.as \in kinds(i)

\* Names that are made identifiers are identifiers and stay as they are when that is done
\* again, and no two columns get one name (sanitizeIdentifier, makeUniqueGeoJSONColumns).
NamesRight(names, s) ==
    LET out == SanitizeIdentifier(s, <<CHOOSE c \in Letter : TRUE>>)
    IN  /\ IsIdentifier(out) /\ SanitizeIdentifier(out, <<>>) = out
        /\ IsInjective(UniqueColumns(names))
        /\ ToSet(UniqueColumns(names)) \cap {<<"geometry">>, <<"geometry_type">>} = {}

\* Lines on which each cell starts in the column of its field: one blank after the widest.
Laid(rows) ==
    LET width(i) == Max({Len(rows[k][i]) : k \in DOMAIN rows})
        padded(cell, w) == [p \in 1..w |-> IF p <= Len(cell) THEN cell[p] ELSE " "]
    IN  [k \in DOMAIN rows |-> Trimmed(<<"|">> \o FlattenSeq([i \in DOMAIN rows[k] |-> <<" ">> \o padded(rows[k][i], width(i))]))]

\* Lines laid out in fields are read back field by field (inferFixedWidthFields).
FixedWidthRight(rows) ==
    FixedWidthRecords(Laid(rows)) = [k \in DOMAIN rows |-> <<<<"|">>>> \o rows[k]]

\* A section has one row, named for it, with the last value the file gives each of its keys,
\* for names and keys other than those the reader adds (parseINI).
INIRight(lines) ==
    LET objects == INIObjects(lines)
        sectionOf(i) == LET before == {j \in 1..i : lines[j].kind = "section"}
                        IN  IF before = {} \/ lines[Max(before)].name = "" THEN NoSection
                            ELSE lines[Max(before)].name
        pairs == {i \in DOMAIN lines : lines[i].kind = "pair"}
        wins(i) == \A j \in pairs : j > i => lines[j].name # lines[i].name \/ sectionOf(j) # sectionOf(i)
    IN  /\ IsInjective([k \in DOMAIN objects |-> objects[k]["section"]])
        /\ \A i \in {p \in pairs : wins(p)} : \E o \in ToSet(objects) :
              o["section"] = sectionOf(i) /\ o[lines[i].name] = lines[i].value
        /\ \A o \in ToSet(objects) : \A key \in DOMAIN o \ {"section"} : \E i \in pairs :
              sectionOf(i) = o["section"] /\ lines[i].name = key /\ lines[i].value = o[key]

\* A row of the file database is one record, with its cells under the names of their columns
\* (sqliteRecords).
SQLiteRight(tables) ==
    LET records == SQLiteRecords(tables)
        before(i) == FoldLeft(LAMBDA n, t : n + Len(t.rows), 1, SubSeq(tables, 1, i - 1))
        total == FoldLeft(LAMBDA n, t : n + Len(t.rows), 1, tables)
    IN  /\ Len(records) = total
        /\ \A i \in DOMAIN tables : \A k \in DOMAIN tables[i].rows :
             LET record == records[before(i) + k]
             IN  /\ record[1] = tables[i].name
                 /\ \A c \in 2..Len(record) :
                      LET at == {j \in DOMAIN tables[i].columns : tables[i].columns[j] = records[1][c]}
                      IN  IF at = {} THEN record[c] = Blank
                          ELSE \E j \in at : record[c] = tables[i].rows[k][j]

\* The geometries of a collection of features become rows in their order, each with the
\* properties of its own feature; only what is inside two collections is passed over
\* (importGeoJSONFeatures).
GeoJSONRight(features) ==
    LET single(f) == IF f.geometry = <<>> THEN <<>> ELSE f.geometry
        leaves(f) == FlattenSeq([i \in DOMAIN single(f) |->
                        IF single(f)[i].type = "geometrycollection" THEN single(f)[i].geometries ELSE <<single(f)[i]>>])
        rows == Features([type |-> "featurecollection", features |-> features], <<>>)
        expected == FlattenSeq([k \in DOMAIN features |->
                        [i \in DOMAIN SelectSeq(leaves(features[k]), LAMBDA g : g.type \in Geometry) |->
                            [geometry |-> SelectSeq(leaves(features[k]), LAMBDA g : g.type \in Geometry)[i].name,
                             props |-> features[k].props]]])
    IN  rows = expected

\* Tables of ragged rows become one table in which every cell keeps its table, its row and
\* its column (ImportHTMLTables).
HTMLRight(tables) ==
    LET records == HTMLRecords(tables)
    IN  /\ \A r, q \in ToSet(records) : Len(r.cells) = Len(q.cells)
        /\ \A i \in DOMAIN tables : \A k \in DOMAIN tables[i] :
              tables[i][k] # <<>> =>
                 \E r \in ToSet(records) :
                    /\ r.table = i /\ r.row = k
                    /\ r.cells = tables[i][k] \o [c \in 1..(Len(r.cells) - Len(tables[i][k])) |-> Blank]

\* Events that are written one after the other are read back, whatever stands between and
\* around them (ImportICalendar).
CalendarRight(events) ==
    LET line(name, value) == [name |-> name, value |-> value]
        written(e) == <<line("BEGIN", "VEVENT")>> \o e \o <<line("END", "VEVENT"), line("SUMMARY", "between")>>
        lines == <<line("BEGIN", "VCALENDAR")>> \o FlattenSeq([i \in DOMAIN events |-> written(events[i])])
        last(e, name) == Max({k \in DOMAIN e : e[k].name = name})
    IN  Components(lines) =
          [i \in DOMAIN events |->
              [name \in {events[i][k].name : k \in DOMAIN events[i]} |-> events[i][last(events[i], name)].value]]

\* An object keeps its values, whatever the order of the columns (importObjects).
ObjectsRight(objects, columns) ==
    LET records == ObjectRecords(objects, columns)
    IN  \A k \in DOMAIN objects, key \in ToSet(columns) : \E i \in DOMAIN columns :
          /\ columns[i] = key
          /\ records[k + 1][i] = IF key \in DOMAIN objects[k] THEN objects[k][key] ELSE Blank
=============================================================================
