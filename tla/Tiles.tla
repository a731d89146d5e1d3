--------------------------------- MODULE Tiles ---------------------------------
(***************************************************************************)
(* Tile archives: how MBTiles and PMTiles files become rows of a table and *)
(* how the map asks that table for a tile.                                 *)
(*                                                                         *)
(* Bytes are members of a small set; a payload is a sequence of them and   *)
(* its first byte stands for the signature that names its format or its    *)
(* compression.  A table is [meta, tiles]: meta has the metadata rows the  *)
(* code reads, tiles the tile rows in order.                               *)
(*                                                                         *)
(* Definitions whose name says what they leave out are mutations of the    *)
(* definition that follows them; the model does not use them.              *)
(***************************************************************************)
EXTENDS Integers, SequencesExt, FiniteSetsExt

CONSTANTS
    Deepest,        \* 30, the last zoom level
    MaxRunLength,   \* the most tiles of one directory entry
    MaxTotalTiles,  \* the most tiles of one archive
    None            \* metadata that is missing or cannot be parsed

Refused == [meta |-> <<>>, tiles |-> <<>>]

----------------------------------------------------------------------------
(* PMTiles *)

\* pmtilesVarint and readMVTVarint: seven bits a byte, the lowest first, up to the first
\* byte below 128; <<>> if that byte does not come within ten bytes.
Varint(data, pos) ==
    LET ends == {k \in pos..Len(data) : data[k] < 128 /\ k < pos + 10}
        last == Min(ends)
    IN  IF ends = {} THEN <<>>
        ELSE <<FoldRight(LAMBDA byte, v : 128 * v + (byte % 128), SubSeq(data, pos, last), 0), last + 1>>

\* decodePMTilesDirectory, from the four columns of a directory.
DecodeDirectory(raw) ==
    LET n == Len(raw.ids)
        id[i \in 0..n] == IF i = 0 THEN 0 ELSE id[i - 1] + raw.ids[i]
        offset[i \in 1..n] ==
            IF raw.offsets[i] > 0 THEN raw.offsets[i] - 1 ELSE offset[i - 1] + raw.lengths[i - 1]
    IN  [i \in 1..n |-> [id |-> id[i], run |-> raw.runs[i], length |-> raw.lengths[i], offset |-> offset[i]]]

Decodable(raw) == Len(raw.offsets) = 0 \/ raw.offsets[1] # 0

\* The number of the first tile of a zoom level.
Base(zoom) == (4 ^ zoom - 1) \div 3

ZXYWithoutFlip(id) ==
    LET zoom == Max({z \in 0..Deepest : Base(z) <= id})
        t == id - Base(zoom)
        place(at, k) ==
            LET scale == 2 ^ k
                d == t \div (4 ^ k)
                rx == (d \div 2) % 2
                ry == (d + rx) % 2
            IN  IF ry = 0 THEN <<at[2] + scale * rx, at[1]>>
                ELSE <<at[1] + scale * rx, at[2] + scale * ry>>
    IN  <<zoom>> \o FoldLeft(place, <<0, 0>>, [k \in 1..zoom |-> k - 1])

\* pmtilesIDToZXY: zoom level, column and row of the tile with that number on the Hilbert
\* curves, <<>> beyond the last level.
ZXY(id) ==
    LET levels == {z \in 0..Deepest : Base(z) <= id /\ id < Base(z + 1)}
        zoom == CHOOSE z \in levels : TRUE
        t == id - Base(zoom)
        place(at, k) ==
            LET scale == 2 ^ k
                d == t \div (4 ^ k)
                rx == (d \div 2) % 2
                ry == (d + rx) % 2
                turned == IF rx = 1 THEN <<scale - 1 - at[2], scale - 1 - at[1]>> ELSE <<at[2], at[1]>>
            IN  IF ry = 0 THEN <<turned[1] + scale * rx, turned[2]>>
                ELSE <<at[1] + scale * rx, at[2] + scale * ry>>
    IN  IF levels = {} THEN <<>> ELSE <<zoom>> \o FoldLeft(place, <<0, 0>>, [k \in 1..zoom |-> k - 1])

InRange(data, offset, length) == offset + length <= Len(data)

\* appendEntries: the rows of a directory and of the leaves it refers to, each leaf once.
RECURSIVE AppendEntries(_, _, _)
AppendEntries(archive, st, dir) ==
    LET one(s, e) ==
            IF s.failed \/ (e.run = 0 /\ e.offset \in s.seen) THEN s
            ELSE IF e.run = 0 THEN
                IF e.offset \in DOMAIN archive.leaves /\ Decodable(archive.leaves[e.offset])
                THEN AppendEntries(archive, [s EXCEPT !.seen = @ \cup {e.offset}],
                             DecodeDirectory(archive.leaves[e.offset]))
                ELSE [s EXCEPT !.failed = TRUE]
            ELSE IF \/ e.run > MaxRunLength \/ s.total + e.run > MaxTotalTiles
                    \/ ~InRange(archive.data, e.offset, e.length) \/ ZXY(e.id + e.run - 1) = <<>>
                 THEN [s EXCEPT !.failed = TRUE]
            ELSE [s EXCEPT !.total = @ + e.run,
                           !.rows = @ \o [k \in 1..e.run |->
                               [at |-> ZXY(e.id + k - 1),
                                data |-> SubSeq(archive.data, e.offset + 1, e.offset + e.length)]]]
    IN  FoldLeft(one, st, dir)

\* ImportPMTiles: the header speaks where the archive's own metadata is silent.
ImportPMTiles(archive) ==
    LET own == archive.meta
        or(value, header) == IF value = None THEN header ELSE value
        st == AppendEntries(archive, [failed |-> ~Decodable(archive.root), seen |-> {}, rows |-> <<>>, total |-> 0],
                      IF Decodable(archive.root) THEN DecodeDirectory(archive.root) ELSE <<>>)
    IN  IF st.failed \/ st.rows = <<>> THEN Refused
        ELSE [meta |-> [source |-> "pmtiles", scheme |-> "xyz", compression |-> archive.compression,
                        format |-> or(own.format, archive.format), minzoom |-> or(own.minzoom, archive.minzoom),
                        maxzoom |-> or(own.maxzoom, archive.maxzoom), layers |-> own.layers],
              tiles |-> st.rows]

----------------------------------------------------------------------------
(* MBTiles *)

\* ImportMBTiles: one tile that starts like gzip makes it the compression of all.
ImportMBTiles(archive) ==
    [meta |-> archive.meta @@
                [source |-> "mbtiles", scheme |-> "tms",
                 compression |-> IF \E i \in DOMAIN archive.tiles :
                                        archive.tiles[i].data # <<>> /\ archive.tiles[i].data[1] = "gzip"
                                 THEN "gzip" ELSE "none"],
     tiles |-> archive.tiles]

----------------------------------------------------------------------------
(* Layers *)

\* decompressMapTilePayload: what is under the compression, <<>> if it is not there.
Decompressed(data, compression) ==
    IF compression = "none" THEN data
    ELSE IF data # <<>> /\ data[1] = compression THEN Tail(data) ELSE <<>>

\* mvtLayerNames: the names of the layers of a vector tile; its bytes are the names here,
\* and what follows a field that cannot be read is lost.
LayerNames(data) ==
    IF data = <<>> \/ data[1] # "fields" THEN {}
    ELSE {data[k] : k \in {k \in 2..Len(data) : \A j \in 2..k : data[j] # "broken"}}

Signature == {"png", "jpg", "webp"}

\* inferMapTileFormat and inferMapVectorLayers, from any tile of the table.
Inferred(table) ==
    LET sample == Decompressed(table.tiles[1].data, table.meta.compression)
    IN  [layers |-> LayerNames(sample),
         format |-> IF LayerNames(sample) # {} THEN "pbf"
                    ELSE IF sample # <<>> /\ sample[1] \in Signature THEN sample[1] ELSE None]

\* loadMapTileLayer; mapMetadataInt has left numbers out of range as None.
LoadLayer(table) ==
    LET meta == table.meta
        from == IF meta.minzoom = None THEN 0 ELSE meta.minzoom
        to == IF meta.maxzoom = None THEN 22 ELSE meta.maxzoom
        format == IF meta.format = None THEN Inferred(table).format ELSE meta.format
    IN  [scheme |-> meta.scheme, compression |-> meta.compression, format |-> format,
         minzoom |-> from, maxzoom |-> IF to < from THEN from ELSE to,
         layers |-> IF meta.layers # {} THEN meta.layers
                    ELSE IF meta.format = None \/ format = "pbf" THEN Inferred(table).layers ELSE {}]

\* mapTileContentType
ContentType(format, data) ==
    IF format # None THEN format
    ELSE IF data # <<>> /\ data[1] \in {"png", "jpg"} THEN data[1] ELSE "octets"

NotFound == [data |-> <<>>, type |-> "problem", encoding |-> "none"]

\* apiMapTileHandler.  The row is counted from the south in a TMS table.
ServeTile(table, z, x, y) ==
    LET layer == LoadLayer(table)
        storedY == IF layer.scheme = "tms" THEN 2 ^ z - 1 - y ELSE y
        hits == {i \in DOMAIN table.tiles : table.tiles[i].at = <<z, x, storedY>>}
        data == table.tiles[Min(hits)].data
    IN  IF hits = {} THEN NotFound
        ELSE [data |-> data, type |-> ContentType(layer.format, data), encoding |-> layer.compression]

----------------------------------------------------------------------------
(* What makes it correct *)

\* The number of a tile, from the largest square down: the quadrant gives its place on the
\* curve, and the square is turned so that the curve inside it begins in the corner.
TileID(z, x, y) ==
    LET step(st, k) ==
            LET s == 2 ^ k
                rx == (st.x \div s) % 2
                ry == (st.y \div s) % 2
                px == st.x % s
                py == st.y % s
            IN  [d |-> st.d + s * s * (IF rx = 1 THEN 3 - ry ELSE ry),
                 x |-> IF ry = 1 THEN px ELSE IF rx = 1 THEN s - 1 - py ELSE py,
                 y |-> IF ry = 1 THEN py ELSE IF rx = 1 THEN s - 1 - px ELSE px]
    IN  Base(z) + FoldLeft(step, [d |-> 0, x |-> x, y |-> y], [k \in 1..z |-> z - k]).d

\* A directory as the archives store it: numbers as differences, an offset of 0 for the
\* bytes that follow those of the entry before.
EncodedDirectory(dir) ==
    [ids |-> [i \in DOMAIN dir |-> IF i = 1 THEN dir[1].id ELSE dir[i].id - dir[i - 1].id],
     runs |-> [i \in DOMAIN dir |-> dir[i].run],
     lengths |-> [i \in DOMAIN dir |-> dir[i].length],
     offsets |-> [i \in DOMAIN dir |->
                    IF i > 1 /\ dir[i].offset = dir[i - 1].offset + dir[i - 1].length THEN 0
                    ELSE dir[i].offset + 1]]

\* The map gets, under the coordinates it counts from the north, exactly the tile the
\* archive has there, whichever way the archive numbers its tiles, with the compression
\* of its bytes (apiMapTileHandler, decodePMTilesDirectory, pmtilesIDToZXY).
PMTilesRight(archive, dir, z, x, y) ==
    LET table == ImportPMTiles(archive)
        has == {e \in ToSet(dir) : e.run > 0 /\ TileID(z, x, y) \in e.id..(e.id + e.run - 1)}
        served == ServeTile(table, z, x, y)
    IN  table # Refused =>
            IF has = {} THEN served = NotFound
            ELSE \E e \in has : /\ served.data = SubSeq(archive.data, e.offset + 1, e.offset + e.length)
                                /\ served.encoding = archive.compression
                                /\ served.type # "problem"

MBTilesRight(archive, z, x, y) ==
    LET served == ServeTile(ImportMBTiles(archive), z, x, y)
        has == {t \in ToSet(archive.tiles) : t.at[1] = z /\ t.at[2] = x /\ t.at[3] + y = 2 ^ z - 1}
        raw == {t.data[1] # "gzip" : t \in ToSet(archive.tiles)}
    IN  IF has = {} THEN served = NotFound
        ELSE /\ served.data \in {t.data : t \in has}
             /\ Cardinality(raw) = 1 => (served.encoding = "none") = (TRUE \in raw)
             /\ LoadLayer(ImportMBTiles(archive)).minzoom <= LoadLayer(ImportMBTiles(archive)).maxzoom

\* The numbers of a level's tiles name each of its places once, and a tile lies beside the
\* one before it.
CurveRight(zoom) ==
    LET ids == Base(zoom)..(Base(zoom + 1) - 1)
        gap(p, q) == (p[2] - q[2]) ^ 2 + (p[3] - q[3]) ^ 2
    IN  /\ {ZXY(id) : id \in ids} = {zoom} \X (0..(2 ^ zoom - 1)) \X (0..(2 ^ zoom - 1))
        /\ \A id \in ids \ {Base(zoom)} : gap(ZXY(id), ZXY(id - 1)) = 1

\* A number comes back from its bytes.
VarintRight(n) ==
    LET bytes == IF n < 128 THEN <<n>> ELSE <<128 + (n % 128)>> \o
                    (IF n < 16384 THEN <<n \div 128>> ELSE <<128 + ((n \div 128) % 128), n \div 16384>>)
    IN  Varint(<<7>> \o bytes \o <<200>>, 2) = <<n, 2 + Len(bytes)>>
=============================================================================
