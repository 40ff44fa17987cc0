---------------------------- MODULE BundleFormat ----------------------------
(***************************************************************************)
(* Bundles as files of sections (crates/persist/src/sectioned.rs,          *)
(* traffic.rs): a magic and, for each section, its length and its bytes,   *)
(* deflated in chunks where that saves a tenth.  A bundle is a record of   *)
(* columns; what follows from other columns is stored only if it differs   *)
(* from what a reader would derive.  Bundles are written, may be cut short *)
(* or taken for another kind on the way, and read.                         *)
(***************************************************************************)
EXTENDS ColumnCodec

CONSTANTS ChunkBytes,      \* bytes deflated at a time
          MinDeflated,     \* shorter sections are stored as they are
          Bundles,         \* bundles written: [kind, columns]
          CutBundles       \* those whose files may lose their end

VARIABLES bundle, content, whole, readAs
formatVars == <<bundle, content, whole, readAs>>

Magic == <<78, 87>>

-----------------------------------------------------------------------------
(* Sections.                                                               *)

\* Stands for deflate: counted runs of bytes.
Deflate(bytes) ==
  LET starts == SelectSeq([n \in DOMAIN bytes |-> n], LAMBDA n : n = 1 \/ bytes[n - 1] # bytes[n])
      end(k) == IF k = Len(starts) THEN Len(bytes) + 1 ELSE starts[k + 1]
  IN  FlattenSeq([k \in DOMAIN starts |-> <<end(k) - starts[k], bytes[starts[k]]>>])
Inflate(bytes) ==
  IF Len(bytes) % 2 = 1 THEN {}
  ELSE {FlattenSeq([k \in 1 .. Len(bytes) \div 2 |-> [n \in 1 .. bytes[2 * k - 1] |-> bytes[2 * k]]])}

ChunkCount(length) == (length + ChunkBytes - 1) \div ChunkBytes
ChunkLength(length, n) == Min({ChunkBytes, length - (n - 1) * ChunkBytes})

DeflateChunked(section) ==
  LET chunk(n) == Deflate(SubSeq(section, (n - 1) * ChunkBytes + 1, Min({n * ChunkBytes, Len(section)})))
      chunks == [n \in 1 .. ChunkCount(Len(section)) |-> chunk(n)]
      lengths == [n \in DOMAIN chunks |-> LittleEndian(Len(chunks[n]), NarrowBytes)]
  IN  LittleEndian(Len(section), WideBytes) \o LittleEndian(Len(chunks), NarrowBytes) \o FlattenSeq(lengths) \o FlattenSeq(chunks)

\* Every chunk gives exactly its share of the section.
InflateChunked(payload) ==
  LET heads == UNION {{[length |-> FromLittleEndian(l.value), count |-> FromLittleEndian(c.value), left |-> c.left]
                         : c \in Take(l.left, NarrowBytes)} : l \in Take(payload, WideBytes)}
      table(h) == TakeRaw(h.left, h.count, NarrowBytes)
      next(c, size) == {[value |-> Append(c.value, t.value), left |-> t.left] : t \in Take(c.left, size)}
      chunks(t) == FoldLeft(LAMBDA found, size : UNION {next(c, size) : c \in found}, {[value |-> << >>, left |-> t.left]}, t.value)
      whole_(h, cs) == IF \A n \in DOMAIN cs : \E s \in Inflate(cs[n]) : Len(s) = ChunkLength(h.length, n)
                       THEN {FlattenSeq([n \in DOMAIN cs |-> CHOOSE s \in Inflate(cs[n]) : TRUE])} ELSE {}
      of(h) == IF h.count # ChunkCount(h.length) THEN {}
               ELSE UNION {UNION {whole_(h, c.value) : c \in chunks(t)} : t \in table(h)}
  IN  UNION {of(h) : h \in heads}

\* The highest bit of a length says that the section is deflated.
Deflated == Wide \div 2

Framed(section) ==
  LET plain == LittleEndian(Len(section), WideBytes) \o section
      small(deflated) == IF 10 * Len(deflated) <= 9 * Len(section)
                         THEN LittleEndian(Len(deflated) + Deflated, WideBytes) \o deflated ELSE plain
  IN  IF Len(section) >= MinDeflated THEN small(DeflateChunked(section)) ELSE plain

FileOf(sections) == Magic \o FlattenSeq([n \in DOMAIN sections |-> Framed(sections[n])])

\* Sections one after the other up to the end of the file.
FrameSections(bytes) ==
  LET step(c) ==
        UNION {LET flagged == FromLittleEndian(h.value) >= Deflated
               IN  {[value |-> Append(c.value, [deflated |-> flagged, payload |-> t.value]), left |-> t.left]
                      : t \in Take(h.left, FromLittleEndian(h.value) % Deflated)} : h \in Take(c.left, WideBytes)}
      next(c) == IF c.left = << >> THEN {c} ELSE step(c)
      frames(left) == FoldLeft(LAMBDA found, n : UNION {next(c) : c \in found}, {[value |-> << >>, left |-> left]},
                               [n \in 1 .. Len(left) |-> n])
  IN  IF ~IsPrefix(Magic, bytes) THEN {}
      ELSE Finished(frames(SubSeq(bytes, Len(Magic) + 1, Len(bytes))))

Sections(bytes) ==
  LET section(f) == IF f.deflated THEN InflateChunked(f.payload) ELSE {f.payload}
      all(frames) == IF \E n \in DOMAIN frames : section(frames[n]) = {} THEN {}
                     ELSE {[n \in DOMAIN frames |-> CHOOSE s \in section(frames[n]) : TRUE]}
  IN  UNION {all(frames) : frames \in FrameSections(bytes)}

-----------------------------------------------------------------------------
(* Fields of a bundle: its sections in order.                              *)

\* An option is a set.  -1 or 0 stands for none.
OptionCode(o, none) == IF o = {} THEN none ELSE (CHOOSE v \in o : TRUE) + none + 1
FromOption(code, none) == IF code = none THEN {} ELSE {code - none - 1}

\* Distinct records once, and for each value its record.  A record is a byte.
Distinct(values) == FoldLeft(LAMBDA kept, v : IF v \in Range(kept) THEN kept ELSE Append(kept, v), << >>, values)
EncodeInterned(values) ==
  LET table == Distinct(values)
      index(v) == (CHOOSE n \in DOMAIN table : table[n] = v) - 1
  IN  <<LittleEndian(Len(table), WideBytes) \o table, EncodeInts([n \in DOMAIN values |-> index(values[n])], FALSE)>>
DecodeInterned(sections) ==
  LET tables == {t.left : t \in {t \in Take(sections[1], WideBytes) : FromLittleEndian(t.value) = Len(t.left)}}
      values(table, indexes) == IF \A i \in Range(indexes) : i < Len(table) THEN {[n \in DOMAIN indexes |-> table[indexes[n] + 1]]} ELSE {}
  IN  UNION {UNION {values(table, indexes) : indexes \in DecodeInts(sections[2], FALSE)} : table \in tables}

Present(options) == SelectSeq(options, LAMBDA o : o # {})
EncodePresent(options, as) ==
  LET values == [n \in DOMAIN Present(options) |-> CHOOSE v \in Present(options)[n] : TRUE]
  IN  <<EncodeInts([n \in DOMAIN options |-> Cardinality(options[n])], FALSE),
        IF as = "i64" THEN EncodeInts(values, TRUE) ELSE EncodeDoubles(values)>>
DecodePresent(sections, as) ==
  LET before(flags, n) == Len(SelectSeq(SubSeq(flags, 1, n), LAMBDA f : f = 1))
      options(flags, values) ==
        IF Range(flags) \subseteq {0, 1} /\ before(flags, Len(flags)) = Len(values)
        THEN {[n \in DOMAIN flags |-> IF flags[n] = 0 THEN {} ELSE {values[before(flags, n)]}]} ELSE {}
  IN  UNION {UNION {options(flags, values) : values \in IF as = "i64" THEN DecodeInts(sections[2], TRUE) ELSE DecodeDoubles(sections[2])}
               : flags \in DecodeInts(sections[1], FALSE)}

\* What follows from other columns, if anything does.
InvertPermutation(order) ==
  IF Range(order) # 0 .. Len(order) - 1 THEN {}
  ELSE {[n \in DOMAIN order |-> (CHOOSE k \in DOMAIN order : order[k] = n - 1) - 1]}

EdgeBasedTopology(nodes, from, to) ==
  LET leaving(v) == SelectSeq([e \in DOMAIN from |-> e - 1], LAMBDA e : from[e + 1] = v)
      starts(counts) == [n \in 1 .. Len(counts) + 1 |-> FoldLeft(LAMBDA sum, c : sum + c, 0, SubSeq(counts, 1, n - 1))]
      rows == [v \in 1 .. nodes |-> leaving(v - 1)]
      next == [e \in DOMAIN to |-> leaving(to[e])]
  IN  IF \A e \in DOMAIN from : from[e] < nodes /\ to[e] < nodes
      THEN {[nodeFirst |-> starts([v \in DOMAIN rows |-> Len(rows[v])]), nodeEdges |-> FlattenSeq(rows),
             edgeFirst |-> starts([e \in DOMAIN next |-> Len(next[e])]), edgeNext |-> FlattenSeq(next)]}
      ELSE {}

EdgeComponents(nodeComponents, from) ==
  IF \A e \in DOMAIN from : from[e] < Len(nodeComponents) THEN {[e \in DOMAIN from |-> nodeComponents[from[e] + 1]]} ELSE {}

Derive(name, b) ==
  CASE name = "rank" -> InvertPermutation(b.order)
    [] name = "transitions" -> EdgeBasedTopology(Len(b.lon), b.from, b.to)
    [] name = "edgeComponents" -> EdgeComponents(b.nodeComponents, b.from)

EncodeExplicit(name, value) ==
  IF name # "transitions" THEN <<EncodeInts(value, FALSE)>>
  ELSE <<EncodeInts(value.nodeFirst, FALSE), EncodeInts(value.nodeEdges, FALSE), EncodeInts(value.edgeFirst, FALSE),
         EncodeSortedRows(value.edgeFirst, value.edgeNext)>>
DecodeExplicit(name, sections) ==
  LET ints(n) == DecodeInts(sections[n], FALSE)
      transitions(nf, ne, ef) == {[nodeFirst |-> nf, nodeEdges |-> ne, edgeFirst |-> ef, edgeNext |-> en] : en \in DecodeSortedRows(ef, sections[4])}
  IN  IF name # "transitions" THEN ints(1)
      ELSE UNION {transitions(nf, ne, ef) : nf \in ints(1), ne \in ints(2), ef \in ints(3)}

\* What a writer leaves out is the value that a reader derives.
IsDerivable(name, b) == Derive(name, b) # {}
IsDerived(name, b) == Derive(name, b) = {b[name]}

SectionsOf(f, b) ==
  LET v == b[f.name]
      ints(values, signed) == <<EncodeInts(values, signed)>>
  IN  CASE f.as = "u32" -> ints(v, FALSE)
        [] f.as = "i64" -> ints(v, TRUE)
        [] f.as = "f64" -> <<EncodeDoubles(v)>>
        [] f.as = "f32" -> <<EncodeSingles(v)>>
        [] f.as = "strings" -> <<EncodeStrings(v)>>
        [] f.as = "rows" -> <<EncodeSortedRows(b[f.like], v)>>
        [] f.as = "option" -> ints([n \in DOMAIN v |-> OptionCode(v[n], -1)], TRUE)
        [] f.as = "field" -> ints([n \in DOMAIN v |-> OptionCode(v[n], 0)], FALSE)
        [] f.as = "interned" -> EncodeInterned(v)
        [] f.as = "present i64" -> EncodePresent(v, "i64")
        [] f.as = "present f64" -> EncodePresent(v, "f64")
        [] f.as = "derived" -> IF IsDerived(f.name, b) THEN <<<<0>>>> ELSE <<<<1>>>> \o EncodeExplicit(f.name, v)

\* How many sections a field has, the first being the next to read.
SectionCount(f, sections) ==
  CASE f.as \in {"interned", "present i64", "present f64"} -> 2
    [] f.as = "derived" /\ sections # << >> /\ sections[1] = <<1>> -> IF f.name = "transitions" THEN 5 ELSE 2
    [] OTHER -> 1

ReadField(f, b, sections) ==
  LET s == sections[1] IN
  CASE f.as = "u32" -> DecodeInts(s, FALSE)
    [] f.as = "i64" -> DecodeInts(s, TRUE)
    [] f.as = "f64" -> DecodeDoubles(s)
    [] f.as = "f32" -> DecodeSingles(s)
    [] f.as = "strings" -> DecodeStrings(s)
    [] f.as = "rows" -> DecodeSortedRows(b[f.like], s)
    [] f.as = "option" -> {[n \in DOMAIN codes |-> FromOption(codes[n], -1)] : codes \in {codes \in DecodeInts(s, TRUE) : \A c \in Range(codes) : c >= -1}}
    [] f.as = "field" -> {[n \in DOMAIN codes |-> FromOption(codes[n], 0)] : codes \in DecodeInts(s, FALSE)}
    [] f.as = "interned" -> DecodeInterned(sections)
    [] f.as = "present i64" -> DecodePresent(sections, "i64")
    [] f.as = "present f64" -> DecodePresent(sections, "f64")
    [] f.as = "derived" -> IF s = <<0>> THEN Derive(f.name, b) ELSE DecodeExplicit(f.name, Tail(sections))

-----------------------------------------------------------------------------
(* The kinds of bundles.                                                   *)

Field(name, as) == [name |-> name, as |-> as, like |-> name]
RowsBy(name, first) == [name |-> name, as |-> "rows", like |-> first]

AccelerationFields ==
  <<Field("order", "u32"), Field("rank", "derived"), Field("upFirst", "u32"), RowsBy("up", "upFirst"),
    Field("downFirst", "u32"), RowsBy("down", "downFirst")>>
NameFields ==
  <<Field("names", "strings"), Field("strings", "strings"), Field("reference", "field"), Field("exit", "field"),
    Field("edgeGuidance", "u32")>>
ProfileFields ==
  <<Field("positions", "u32"), Field("metrics", "interned"), Field("component", "interned"),
    Field("ruleEdges", "u32"), Field("edgeRules", "u32")>>
SnapshotFields ==
  <<Field("topologyNodes", "i64"), Field("otherNodes", "i64"), Field("otherLon", "i64"), Field("ways", "i64"),
    Field("wayCounts", "u32"), Field("wayNodes", "i64"), Field("wayNames", "option"), Field("attributes", "interned")>>
TopologyFields ==
  <<Field("lon", "f64"), Field("z", "f64"), Field("from", "u32"), Field("to", "u32"), Field("way", "i64"),
    Field("ascent", "f32"), Field("rule", "option"), Field("attributes", "interned"), Field("transitions", "derived"),
    Field("nodeComponents", "u32"), Field("edgeComponents", "derived"), Field("feature", "present i64"),
    Field("measure", "present f64"), Field("area", "u32")>>
SpeedFields ==
  <<Field("speeds", "u32"), Field("features", "i64"), Field("backward", "u32"), Field("patterns", "u32")>>
RasterFields == <<Field("tile", "f64"), Field("tile2", "f64")>>

Fields(kind) ==
  CASE kind = "acceleration" -> AccelerationFields
    [] kind = "names" -> NameFields
    [] kind = "profile" -> ProfileFields
    [] kind = "snapshot" -> SnapshotFields
    [] kind = "topology" -> TopologyFields
    [] kind = "traffic" -> SpeedFields
    [] kind = "elevation" -> RasterFields

\* The tag says what a file is; the header gives its version and its sizes.
BundleKinds == <<"acceleration", "names", "profile", "snapshot", "topology", "traffic", "elevation">>
Tag(kind) == <<CHOOSE n \in DOMAIN BundleKinds : BundleKinds[n] = kind>>
Sizes(kind, b) == CASE kind = "topology" -> <<Len(b.lon), Len(b.from)>>
                    [] kind = "elevation" -> <<2, Len(b.tile)>>
                    [] OTHER -> << >>
SizeCount(kind) == IF kind \in {"topology", "elevation"} THEN 2 ELSE 0
Header(kind, version, b) == <<version>> \o RawPayload(Sizes(kind, b), WideBytes)

Total(counts) == FoldLeft(LAMBDA sum, c : sum + c, 0, counts)
Below(values, bound) == \A v \in Range(values) : v < bound
AllLong(b, names, length) == \A name \in names : Len(b[name]) = length

\* Checks of the readers: columns of a table are equally long and point into
\* the tables they are about.
NamesAgree(b) ==
  /\ Len(b.exit) = Len(b.reference) /\ Below(b.edgeGuidance, Max({1, Len(b.reference)}))
  /\ \A o \in Range(b.reference) \cup Range(b.exit) : \A v \in o : v < Len(b.strings)
ProfileAgrees(b) ==
  /\ AllLong(b, {"metrics", "component"}, Len(b.positions))
  /\ Len(b.ruleEdges) = Len(b.edgeRules) /\ Below(b.ruleEdges, Len(b.positions))
SnapshotAgrees(b) ==
  /\ Len(b.otherLon) = Len(b.otherNodes)
  /\ AllLong(b, {"wayCounts", "wayNames", "attributes"}, Len(b.ways))
  /\ Len(b.wayNodes) = Total(b.wayCounts)
TopologyAgrees(sizes, b) ==
  /\ AllLong(b, {"lon", "z"}, sizes[1])
  /\ AllLong(b, {"from", "to", "way", "ascent", "rule", "attributes"}, sizes[2])
  /\ Len(b.area) \in {0, sizes[1]}
SpeedsAgree(b) == AllLong(b, {"backward", "patterns"}, Len(b.features)) /\ Below(b.patterns, Len(b.speeds))
RasterAgrees(sizes, b) == sizes[1] = 2 /\ AllLong(b, {"tile", "tile2"}, sizes[2])

Agrees(kind, sizes, b) ==
  CASE kind = "acceleration" -> TRUE
    [] kind = "names" -> NamesAgree(b)
    [] kind = "profile" -> ProfileAgrees(b)
    [] kind = "snapshot" -> SnapshotAgrees(b)
    [] kind = "topology" -> TopologyAgrees(sizes, b)
    [] kind = "traffic" -> SpeedsAgree(b)
    [] kind = "elevation" -> RasterAgrees(sizes, b)

-----------------------------------------------------------------------------
(* Writing and reading a bundle.                                           *)

\* The version this program writes and the only one it reads.
Version == 6

FileOfBundle(kind, version, b) ==
  FileOf(<<Tag(kind), Header(kind, version, b)>>
           \o FoldLeft(LAMBDA sections, f : sections \o SectionsOf(f, b), << >>, Fields(kind)))

\* Fields are read in order; derived ones from those before them.
ReadFields(kind, sections) ==
  LET field(c, f) ==
        IF Len(c.left) < SectionCount(f, c.left) THEN {}
        ELSE {[b |-> (f.name :> v) @@ c.b, left |-> SubSeq(c.left, SectionCount(f, c.left) + 1, Len(c.left))]
                : v \in ReadField(f, c.b, c.left)}
  IN  FoldLeft(LAMBDA found, f : UNION {field(c, f) : c \in found}, {[b |-> << >>, left |-> sections]}, Fields(kind))

BundleIn(kind, bytes) ==
  LET sizes(header) == IF header = << >> \/ header[1] # Version THEN {}
                       ELSE {t.value : t \in {t \in TakeRaw(Tail(header), SizeCount(kind), WideBytes) : t.left = << >>}}
      read_(sections, size) == {c.b : c \in {c \in ReadFields(kind, SubSeq(sections, 3, Len(sections))) : Agrees(kind, size, c.b)}}
      of(sections) == IF Len(sections) < 2 \/ sections[1] # Tag(kind) THEN {}
                      ELSE UNION {read_(sections, size) : size \in sizes(sections[2])}
  IN  UNION {of(sections) : sections \in Sections(bytes)}

Idle == [kind |-> "none"]

FormatInit == bundle = Idle /\ content = << >> /\ whole = FALSE /\ readAs = {}

\* A bundle is written, by this version or another.
WriteBundle ==
  /\ bundle = Idle
  /\ \E b \in Bundles, version \in {Version - 1, Version} :
       /\ bundle' = b
       /\ content' = FileOfBundle(b.kind, version, b.columns)
       /\ whole' = (version = Version)
  /\ UNCHANGED readAs

\* The file loses its end.
CutShort ==
  /\ bundle \in CutBundles /\ whole /\ readAs = {}
  /\ \E n \in 0 .. Len(content) - 1 : content' = SubSeq(content, 1, n)
  /\ whole' = FALSE
  /\ UNCHANGED <<bundle, readAs>>

\* It is read as a bundle of some kind.
ReadBundleAs(kind) ==
  /\ bundle # Idle /\ readAs = {}
  /\ readAs' = {[kind |-> kind, bundle |-> BundleIn(kind, content)]}
  /\ UNCHANGED <<bundle, content, whole>>

FormatNext == WriteBundle \/ CutShort \/ \E kind \in Range(BundleKinds) : ReadBundleAs(kind)

\* A bundle read as what it is comes back exactly, unknown heights, the
\* extremes of the integers and whatever was left out included; a file cut
\* short anywhere, of another version or of another kind is an error, never a
\* bundle.
FilesRoundTrip ==
  \A r \in readAs : r.bundle = IF whole /\ r.kind = bundle.kind THEN {bundle.columns} ELSE {}

=============================================================================
