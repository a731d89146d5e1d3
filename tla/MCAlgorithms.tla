------------------------------ MODULE MCAlgorithms ------------------------------
(***************************************************************************)
(* The pure algorithms, asked questions over bounded inputs.  A behaviour  *)
(* chooses a topic and what is given, and then asks.                       *)
(***************************************************************************)
EXTENDS Algorithms

\* The sequences of at most n elements.
UpTo(n, elements) == UNION {[1..k -> elements] : k \in 0..n}

----------------------------------------------------------------------------
(* The matcher *)

Words == {"Acme", "acme", "ACME", "GmbH", "GMBH", "ab", "AB", "-", "", "Haupt", "HAUPT", "Hauptstr", "HAUPTSTR",
          "Hauptstrasse", "HAUPTSTRASSE", "5", "7"}

MCFold ==
    [w \in Words |->
        CASE w \in {"Acme", "acme", "ACME"} -> "ACME"
          [] w = "GmbH" -> "GMBH" [] w = "ab" -> "AB" [] w = "-" -> ""
          [] w = "Haupt" -> "HAUPT" [] w = "Hauptstr" -> "HAUPTSTR"
          [] w = "Hauptstrasse" -> "HAUPTSTRASSE" [] OTHER -> w]

MCLower ==
    [w \in Words |-> CASE w = "Acme" -> "acme" [] w = "ACME" -> "acme" [] w = "AB" -> "ab"
                       [] w = "GMBH" -> "GmbH" [] w = "HAUPT" -> "Haupt" [] w = "HAUPTSTR" -> "Hauptstr"
                       [] w = "HAUPTSTRASSE" -> "Hauptstrasse" [] OTHER -> w]

MCStreet ==
    [w \in {"ACME", "GMBH", "AB", "", "HAUPT", "HAUPTSTR", "HAUPTSTRASSE", "5", "7"} |->
        IF w = "HAUPTSTR" THEN "HAUPTSTRASSE" ELSE w]

MCLetters ==
    [w \in {"ACME", "GMBH", "AB", "HAUPT"} |->
        CASE w = "ACME" -> <<"a", "c", "m", "e">> [] w = "GMBH" -> <<"g", "m", "b", "h">>
          [] w = "AB" -> <<"a", "b">> [] w = "HAUPT" -> <<"h", "a", "u", "p", "t">>]

Field(method, weight, group) ==
    [method |-> method, weight |-> weight, group |-> group,
     tolerance |-> Frac(1, 2), column |-> "Acme"]

Values(method) ==
    CASE method \in {"exact", "exact_ci", "normalized", "token_set", "similarity"} ->
            {<<>>, <<"Acme">>, <<"acme", "GmbH">>, <<"ab">>, <<"-">>}
      [] method = "address" ->
            {<<"Hauptstr", "5">>, <<"Hauptstrasse", "5">>, <<"Hauptstrasse">>, <<"Haupt", "7">>, <<"5">>}
      [] method = "numeric" -> {<<>>, <<0>>, <<2>>, <<3>>, <<-3>>, <<97>>}
      [] method = "ean"     -> {<<>>, <<1>>, <<2>>, <<3>>}

FewValues(method) ==
    CASE method = "numeric" -> {<<>>, <<2>>, <<3>>, <<97>>}
      [] method = "ean"     -> {<<>>, <<1>>, <<2>>, <<3>>}
      [] method = "address" -> {<<"Hauptstr", "5">>, <<"Hauptstrasse", "5">>, <<"Hauptstrasse">>}
      [] OTHER              -> {<<>>, <<"Acme">>, <<"acme", "GmbH">>, <<"ab">>}

FieldLists ==
    {<<Field(m, 1, "none")>> : m \in {"token_set", "similarity", "address", "numeric"}}
    \cup {<<Field("normalized", 2, g), Field("numeric", 1, g)>> : g \in {"none", "g"}}
    \cup {<<Field("token_set", 2, g), Field("ean", 1, g)>> : g \in {"none", "g"}}
    \cup {<<Field("address", 1, "g"), Field("exact", 2, "g")>>,
          <<Field("exact_ci", 1, "none"), Field("numeric", 2, "none")>>}

Rows(fields) ==
    IF Len(fields) = 1 THEN {<<v>> : v \in Values(fields[1].method)}
    ELSE {<<v, w>> : v \in FewValues(fields[1].method), w \in FewValues(fields[2].method)}

MatchGiven == [fields : FieldLists, noBlocking : BOOLEAN]

MatchAsked(g) ==
    {[source |-> <<s>>, target |-> <<t, u>>, maxRows |-> 2,
      columns |-> IF k = 2 /\ r = Zero THEN <<"ab">> ELSE <<"acme", "ACME">>,
      opts |-> g @@ [auto |-> Frac(4, 5), review |-> r, maxCandidates |-> k,
                     maxComparisons |-> m]] :
        s \in Rows(g.fields), t \in Rows(g.fields), u \in Rows(g.fields), k \in 1..2,
        m \in IF Len(g.fields) = 1 THEN 1..2 ELSE {2}, r \in {Zero, Frac(1, 2)}}

Strings(n) == UpTo(n, {"a", "b", "c"})

\* Codes of one digit throughout, except for one position and the check digit.
Codes(length) ==
    {[[i \in 1..length |-> 6] EXCEPT ![p] = d, ![length] = c] :
        p \in 1..length - 1, d \in 0..9, c \in 0..9}

----------------------------------------------------------------------------
(* Tile archives *)

T == INSTANCE Tiles WITH Deepest <- 4, MaxRunLength <- 4, MaxTotalTiles <- 6

Bytes == <<"fields", "roads", "gzip", "png">>

Entry == [id : {0, 1, 3, 6}, run : {1, 4, 5}, offset : {0, 2}, length : {1, 2}]

Directories == {<<e>> : e \in Entry} \cup {<<e, f>> \in Entry \X Entry : e.id + e.run <= f.id}

LeafAt(offset) == [id |-> 0, run |-> 0, offset |-> offset, length |-> 1]

\* The entries after the first few are in a leaf that the root names twice.
PMTilesOf(dir, inRoot, format) ==
    [data |-> Bytes, compression |-> "none", format |-> "png", minzoom |-> 0, maxzoom |-> 2,
     meta |-> [format |-> format, minzoom |-> None, maxzoom |-> 1, layers |-> {}],
     root |-> T!EncodedDirectory(SubSeq(dir, 1, inRoot) \o
                 (IF inRoot = Len(dir) THEN <<>>
                  ELSE <<[LeafAt(7) EXCEPT !.id = dir[inRoot + 1].id],
                         [LeafAt(7) EXCEPT !.id = dir[inRoot + 1].id]>>)),
     leaves |-> 7 :> T!EncodedDirectory(SubSeq(dir, inRoot + 1, Len(dir)))]

Payloads == {<<"png">>, <<"gzip", "fields", "roads">>, <<"fields", "roads", "broken", "lost">>}

MBTilesGiven ==
    [meta : [format : {None, "pbf"}, minzoom : {None, 2}, maxzoom : {1}, layers : {{}}],
     tiles : {<<[at |-> <<1, x, y>>, data |-> d], [at |-> <<z, 0, 1>>, data |-> e]>> :
                x \in 0..1, y \in 0..1, z \in 1..2, d \in Payloads, e \in Payloads}]

Coordinates == {<<z, x, y>> \in (0..2) \X (0..3) \X (0..3) : x < 2 ^ z /\ y < 2 ^ z}

----------------------------------------------------------------------------
(* Files and their tables *)

Cells == {"", "1", "2.5", "true", "abc", "id"}

F == INSTANCE TableImport WITH
    KindOf <- [c \in Cells |-> CASE c = "" -> "blank" [] c = "1" -> "int" [] c = "2.5" -> "float"
                                 [] c = "true" -> "bool" [] OTHER -> "text"],
    Blank <- "", Identifier <- {"true", "abc", "id"}, Letter <- {"a", "b"}, Digit <- {"1"},
    NoSection <- "(default)"

ImportGiven ==
    {<<tables, opts>> \in
        {<<>>, <<[columns |-> <<<<"id">>, <<"abc">>>>,
                  rows |-> <<[c \in {<<"id">>, <<"abc">>} |-> [as |-> "text", cell |-> "id"]]>>]>>}
        \X [header : {"auto", "absent"}, infer : BOOLEAN, create : BOOLEAN, truncate : BOOLEAN, strict : BOOLEAN] :
        opts.create \/ tables # <<>>}

ImportAsked ==
    {<<<<<<"id", "abc">>, <<c, d>>, <<e, f>>, g>>, bad>> :
        c \in Cells, d \in {"", "1"}, e \in Cells, f \in {"1", "2.5"}, g \in {<<"1">>, <<"", "1">>, <<>>},
        bad \in {{}, {2}}}

Parts == {<<"a">>, <<"geometry">>, <<"prop", "geometry">>, <<"a", 2>>}

Chars(n) == UpTo(n, {"a", "1", "_", "-"})

Fields == UpTo(2, {"x"})

INILines == {[kind |-> "section", name |-> n] : n \in {"", "s", "t"}}
            \cup {[kind |-> "pair", name |-> k, value |-> v] : k \in {"k", "l"}, v \in {"", "1"}}

SourceTable == [name : {"t", "u"}, columns : {<<"a">>, <<"b", "a">>}, rows : {<<>>, <<<<"1", "2.5">>>>, <<<<"1", "1">>, <<"abc", "">>>>}]

Shape == {[type |-> "point", name |-> "1"], [type |-> "circle", name |-> "2"]}

FeatureGeometries ==
    {<<>>} \cup {<<g>> : g \in Shape \cup {[type |-> "geometrycollection", geometries |-> list] :
                     list \in UpTo(2, Shape \cup {[type |-> "geometrycollection", geometries |-> <<>>]})}}

GeoFeatures == {[type |-> "feature", geometry |-> g, props |-> p] : g \in FeatureGeometries, p \in {<<"a">>, <<"b">>}}

HTMLRows == UpTo(2, UpTo(2, {"1"}))

EventLines == {[name |-> n, value |-> v] : n \in {"SUMMARY", "UID"}, v \in {"1", "2"}}

ObjectChoices == {<<"a", "b">>, <<"b", "a">>} \X ({("a" :> "1"), ("b" :> "1"), ("a" :> "1") @@ ("b" :> "abc")} \X {("a" :> "abc")})

----------------------------------------------------------------------------
(* Windows, pages and copies *)

OwnedRows(n) == UpTo(n, [id : {1}, owner : {"ann", "bob"}])

----------------------------------------------------------------------------
(* Statements and gates *)

Characters == {"E", "(", "'", "\\", "\"", "-", "*", "/", ";", "nl"}

Tokens == {"WITH", "SELECT", "DELETE", "EXPLAIN", "ANALYZE", "NEXTVAL", "PRAGMA", "(", ")"}

----------------------------------------------------------------------------
(* Routes: graphs of four edges, directed or not, with a cheaper detour *)

Nodes == 1..4

Distance == [n \in Nodes |-> [m \in Nodes |-> IF n = m THEN 0 ELSE 2]]

Ends == {e \in Nodes \X Nodes : e[1] # e[2]}

\* An edge of cost 1 is drawn forwards and has no distance of its own, one of cost 3 is drawn
\* backwards and has no toll, and a free one is not drawn at all.
EdgeOf(e, cost) ==
    [from |-> e[1], to |-> e[2], cost |-> cost,
     distance |-> IF cost = 1 THEN None ELSE cost, toll |-> IF cost = 3 THEN None ELSE cost,
     line |-> CASE cost = 0 -> <<>> [] cost = 1 -> e [] cost = 3 -> <<e[2], e[1]>>]

EdgeSets == {{<<1, 2>>} \cup ends : ends \in kSubset(3, Ends \ {<<1, 2>>})}

MCGraphs ==
    {[nodes |-> Nodes, located |-> Nodes, directed |-> directed,
      edges |-> [i \in 1..4 |-> EdgeOf(Sorted(ends, LAMBDA p, q : 10 * p[1] + p[2] < 10 * q[1] + q[2])[i], costs[i])]] :
        directed \in BOOLEAN, costs \in [1..4 -> {0, 1, 3}], ends \in EdgeSets}

NoRoutes == graph = 0 /\ request = 0 /\ distances = 0 /\ predecessors = 0 /\ queue = {} /\ refused = TRUE

Grid == (0..2) \X (0..2)

----------------------------------------------------------------------------

Asking ==
    \/ topic = "match" /\ given \in MatchGiven
    \/ topic = "similarity" /\ given \in Strings(4)
    \/ topic = "ean" /\ given \in {7, 8, 13}
    \/ topic = "pmtiles" /\ given \in Directories \X (0..2)
    \/ topic = "mbtiles" /\ given \in MBTilesGiven
    \/ topic = "numbers" /\ given \in 0..4
    \/ topic = "import" /\ given \in ImportGiven
    \/ topic = "names" /\ given \in [1..3 -> Parts]
    \/ topic = "lines" /\ given \in Fields \X Fields
    \/ topic = "sections" /\ given \in INILines
    \/ topic = "objects" /\ given \in SourceTable
    \/ topic = "geojson" /\ given \in GeoFeatures
    \/ topic = "html" /\ given \in HTMLRows
    \/ topic = "events" /\ given \in UpTo(2, EventLines)
    \/ topic = "windows" /\ given \in {[k \in 1..n |-> k] : n \in 0..7}
    \/ topic = "pages" /\ given \in OwnedRows(5)
    \/ topic = "migration" /\ given \in {<<>>, <<<<>>>>, <<<<"a">>>>, <<<<"a", "b">>>>} \X {<<>>, <<<<>>>>, <<<<"z">>>>}
    \/ topic = "text" /\ given \in UpTo(2, Characters)
    \/ topic = "tokens" /\ given \in [1..2 -> Tokens]
    \/ topic = "gates" /\ given \in {"local", "none"}
    \/ topic = "hull" /\ given \in 3..5

Init ==
    /\ asked = <<>>
    /\ \/ Asking /\ NoRoutes
       \/ /\ topic = "routes" /\ given = 0
          /\ \E g \in MCGraphs, by \in {<<"cost", 0>>, <<"cost", 3>>, <<"distance", 3>>, <<"toll", 0>>} :
                Start(g, 1, None, by[1], by[2])

Ask(question) == asked' = <<question>>

Answer ==
    /\ asked = <<>>
    /\ UNCHANGED <<topic, given, vars>>
    /\ \/ topic = "match" /\ \E q \in MatchAsked(given) : Ask(q)
       \/ topic = "similarity" /\ \E q \in Strings(4) : Ask(q)
       \/ topic = "ean" /\ \E q \in Codes(given) : Ask(q)
       \/ topic \in {"pmtiles", "mbtiles"} /\ \E q \in Coordinates : Ask(q)
       \/ topic = "numbers" /\ \E q \in {0, 1, 127, 128, 129, 16383, 16384, 20000} : Ask(q)
       \/ topic = "import" /\ \E q \in ImportAsked : Ask(q)
       \/ topic = "names" /\ \E q \in Chars(4) : Ask(q)
       \/ topic = "lines" /\ \E q \in Fields \X Fields \X Fields \X Fields : Ask(q)
       \/ topic = "sections" /\ \E q \in UpTo(3, INILines) : Ask(q)
       \/ topic = "objects" /\ \E q \in SourceTable \X ObjectChoices : Ask(q)
       \/ topic = "geojson" /\ \E q \in UpTo(1, GeoFeatures) : Ask(q)
       \/ topic = "html" /\ \E q \in UpTo(2, HTMLRows) : Ask(q)
       \/ topic = "events" /\ \E q \in UpTo(1, UpTo(3, EventLines)) : Ask(q)
       \/ topic = "windows" /\ \E q \in (-1..8) \X (-1..5) : Ask(q)
       \/ topic = "pages" /\ \E q \in {"", "ann"} \X (0..6) \X (0..4) : Ask(q)
       \/ topic = "migration" /\ \E q \in BOOLEAN \X (0..3) : Ask(q)
       \/ topic = "text" /\ \E q \in UpTo(4, Characters) : Ask(q)
       \/ topic = "tokens" /\ \E q \in UpTo(3, Tokens) : Ask(q)
       \/ topic = "gates" /\ \E q \in {s \in Situation : s.auth = given} : Ask(q)
       \/ topic = "hull" /\ \E q \in kSubset(given, Grid) : Ask(q)

Search == topic = "routes" /\ Next /\ UNCHANGED asking

Step == Answer \/ Search

Spec == Init /\ [][Step]_<<asking, vars>>

\* Scores: a composite key is as good as its weakest member, similarities are symmetric and
\* check digits right (Matcher's PairsRight, SimilarityRight and EANRight).
ScoresRight ==
    /\ About("match") => PairsRight(Question.source, Question.target, Question.opts)
    /\ About("similarity") => SimilarityRight(given, Question)
    /\ About("ean") => EANRight(Question)

\* Maps: under its coordinates the map gets exactly the tile that the archive has there, and
\* a reachable area is bounded by its outermost points (Tiles' PMTilesRight, MBTilesRight,
\* CurveRight and VarintRight, Routing's HullRight).  Files: no cell is lost, moved or given a
\* type that others of its column do not have, and what the readers of the formats make of a
\* file has all of its records in their places (TableImport's properties).
MapsAndFilesRight ==
    /\ About("pmtiles") =>
         LET dir == given[1]
             inRoot == IF given[2] > Len(dir) THEN Len(dir) ELSE given[2]
             archive == PMTilesOf(dir, inRoot, IF inRoot = 0 THEN None ELSE "pbf")
         IN  T!PMTilesRight(archive, dir, Question[1], Question[2], Question[3])
    /\ About("mbtiles") => T!MBTilesRight(given, Question[1], Question[2], Question[3])
    /\ About("numbers") => T!CurveRight(given) /\ T!VarintRight(Question)
    /\ About("hull") => HullRight(Question)
    /\ About("import") => F!ImportRight(given[1], Question[1], given[2], Question[2])
    /\ About("names") => F!NamesRight(given, Question)
    /\ About("lines") =>
         LET rows == <<<<Question[1], Question[2]>>, <<given[1], given[2]>>, <<Question[3], Question[4]>>>>
         IN  (\A i \in 1..2 : \E k \in 1..3 : rows[k][i] # <<>>) => F!FixedWidthRight(rows)
    /\ About("sections") => F!INIRight(<<given>> \o Question)
    /\ About("objects") =>
         /\ F!SQLiteRight(<<given, Question[1]>>)
         /\ F!ObjectsRight(Question[2][2], Question[2][1])
    /\ About("geojson") => F!GeoJSONRight(<<given>> \o Question)
    /\ About("html") => F!HTMLRight(<<given>> \o Question)
    /\ About("events") => F!CalendarRight(<<given>> \o Question)
=============================================================================
