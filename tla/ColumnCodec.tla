----------------------------- MODULE ColumnCodec -----------------------------
(***************************************************************************)
(* The column encodings of bundles (crates/persist/src/codec.rs).  A       *)
(* column is a sequence of bytes: a tag, a count and what the tag says.    *)
(* Decoding gives the set of the one value, or nothing for an error.       *)
(* Widths are constants: a byte holds 2 * Group values, of which a varint  *)
(* uses Group, and a narrow or wide integer some bytes.                    *)
(***************************************************************************)
EXTENDS Integers, SequencesExt, FiniteSetsExt

CONSTANTS Group, NarrowBytes, WideBytes,
          Tenth, Step, Single   \* grids of doubles, see below

ASSUME WidthsAssumption == Group \in Nat /\ Group > 1 /\ 0 < NarrowBytes /\ NarrowBytes < WideBytes
ASSUME GridsAssumption == Tenth > 0 /\ Step > 0 /\ Single > 0

Byte   == 2 * Group
Narrow == Byte ^ NarrowBytes      \* so many u32
Wide   == Byte ^ WideBytes        \* so many u64

\* A double is a number of some small unit, or NaN.  Whole decimetres, the
\* 1e-7 grid and singles each are the multiples of a number of units.
NaN == -(Wide \div 2)

RawTag == 0
ConstantTag == 1
IdentityTag == 2
DeltaTag == 3
VarintTag == 4
FixedTag == 5
SingleTag == 6
DecimetreTag == 7
SingleDecimetreTag == 8


-----------------------------------------------------------------------------
(* Integers as bytes.                                                      *)

Wrapped(v)  == ((v + Wide \div 2) % Wide) - Wide \div 2
Zigzag(v)   == IF v >= 0 THEN 2 * v ELSE -2 * v - 1
Unzigzag(u) == IF u % 2 = 0 THEN u \div 2 ELSE -(u \div 2) - 1

LittleEndian(v, bytes)  == [n \in 1 .. bytes |-> (v \div Byte ^ (n - 1)) % Byte]
FromLittleEndian(bytes) == FoldRight(LAMBDA digit, sum : sum * Byte + digit, bytes, 0)

\* As many bytes as 64 bits may need.
MaxVarint == CHOOSE n \in 1 .. Byte : Group ^ n >= Wide /\ Group ^ (n - 1) < Wide
Varint(u) ==
  LET size == CHOOSE n \in 1 .. MaxVarint : u < Group ^ n /\ (n = 1 \/ u >= Group ^ (n - 1))
  IN  [n \in 1 .. size |-> ((u \div Group ^ (n - 1)) % Group) + (IF n < size THEN Group ELSE 0)]

\* A cursor is what is left to read; a step gives a value and what is left.
TakeVarint(left) ==
  LET ends == {n \in 1 .. Len(left) : left[n] < Group}
      end  == Min(ends)
  IN  IF ends = {} \/ end > MaxVarint THEN {}
      ELSE {[value |-> FoldRight(LAMBDA digit, sum : (sum * Group) + (digit % Group), SubSeq(left, 1, end), 0) % Wide,
             left |-> SubSeq(left, end + 1, Len(left))]}

Take(left, size) ==
  IF Len(left) < size THEN {} ELSE {[value |-> SubSeq(left, 1, size), left |-> SubSeq(left, size + 1, Len(left))]}

\* So many varints.
TakeVarints(left, count) ==
  LET more(taken) == {[value |-> Append(taken.value, v.value), left |-> v.left] : v \in TakeVarint(taken.left)}
  IN  FoldLeft(LAMBDA found, n : UNION {more(taken) : taken \in found}, {[value |-> << >>, left |-> left]},
               [n \in 1 .. count |-> n])

\* The rest of a column must be used up.
Finished(found) == {taken.value : taken \in {taken \in found : taken.left = << >>}}

Column(tag, count, payload) == <<tag>> \o Varint(count) \o payload
MaxCount == 16 * (Narrow - 1)
\* The tag, the count and the payload.
Opened(bytes) ==
  IF bytes = << >> THEN {}
  ELSE {[tag |-> bytes[1], count |-> c.value, payload |-> c.left] : c \in {c \in TakeVarint(Tail(bytes)) : c.value <= MaxCount}}

RawPayload(values, size) == FlattenSeq([n \in DOMAIN values |-> LittleEndian(values[n], size)])
TakeRaw(left, count, size) ==
  {[value |-> [n \in 1 .. count |-> FromLittleEndian(SubSeq(t.value, (n - 1) * size + 1, n * size))], left |-> t.left]
     : t \in Take(left, count * size)}

-----------------------------------------------------------------------------
(* Columns of u32 or, signed, of i64.                                      *)

IsConstant(values) == values # << >> /\ \A v \in Range(values) : v = values[1]
IsIdentity(values) == \A n \in DOMAIN values : values[n] = n - 1

Deltas(values) == [n \in DOMAIN values |-> Zigzag(Wrapped(values[n] - (IF n = 1 THEN 0 ELSE values[n - 1])))]
Summed(deltas) == [n \in DOMAIN deltas |-> Wrapped(FoldLeft(LAMBDA sum, d : Wrapped(sum + Unzigzag(d)), 0, SubSeq(deltas, 1, n)))]
Varints(values) == FlattenSeq([n \in DOMAIN values |-> Varint(values[n])])

\* Two's complement in the bytes of a column.
Bits(v, size)     == v % (Byte ^ size)
FromBits(u, size) == IF u >= Byte ^ size \div 2 THEN u - Byte ^ size ELSE u

EncodeInts(values, signed) ==
  LET plain == [n \in DOMAIN values |-> IF signed THEN Zigzag(values[n]) ELSE values[n]]
      size  == IF signed THEN WideBytes ELSE NarrowBytes
      packed(delta, direct) ==
        CASE size * Len(values) <= Min({Len(delta), Len(direct)}) ->
               Column(RawTag, Len(values), RawPayload([n \in DOMAIN values |-> Bits(values[n], size)], size))
          [] Len(delta) <= Len(direct) /\ size * Len(values) > Len(delta) -> Column(DeltaTag, Len(values), delta)
          [] OTHER -> Column(VarintTag, Len(values), direct)
  IN  CASE IsConstant(values) -> Column(ConstantTag, Len(values), Varint(plain[1]))
        [] IsIdentity(values) -> Column(IdentityTag, Len(values), << >>)
        [] OTHER -> packed(Varints(Deltas(values)), Varints(plain))

DecodeInts(bytes, signed) ==
  LET size == IF signed THEN WideBytes ELSE NarrowBytes
      fits(values) == signed \/ \A v \in Range(values) : v \in 0 .. Narrow - 1
      direct(us) == IF signed THEN [n \in DOMAIN us |-> Unzigzag(us[n])] ELSE us
      raw(us) == IF signed THEN [n \in DOMAIN us |-> FromBits(us[n], size)] ELSE us
      of(c) == CASE c.tag = RawTag -> {raw(us) : us \in Finished(TakeRaw(c.payload, c.count, size))}
                 [] c.tag = ConstantTag -> {[n \in 1 .. c.count |-> direct(us)[1]] : us \in Finished(TakeVarints(c.payload, 1))}
                 [] c.tag = IdentityTag /\ c.payload = << >> -> {[n \in 1 .. c.count |-> n - 1]}
                 [] c.tag = DeltaTag -> {Summed(us) : us \in Finished(TakeVarints(c.payload, c.count))}
                 [] c.tag = VarintTag -> {direct(us) : us \in Finished(TakeVarints(c.payload, c.count))}
                 [] OTHER -> {}
  IN  {values \in UNION {of(c) : c \in Opened(bytes)} : fits(values)}

-----------------------------------------------------------------------------
(* Rows of heads: offsets first gives where each row begins.               *)

RowOf(first, heads, n) == SubSeq(heads, first[n] + 1, first[n + 1])
Rows(first) == 1 .. Len(first) - 1
LastOf(first) == IF first = << >> THEN 0 ELSE Last(first)

EncodeSortedRows(first, heads) ==
  LET row(n) == RowOf(first, heads, n)
      sorted == \A n \in Rows(first) : \A m \in 2 .. Len(row(n)) : row(n)[m - 1] <= row(n)[m]
      gap(n, m) == IF m = 1 THEN Zigzag(row(n)[1] - (n - 1)) ELSE row(n)[m] - row(n)[m - 1]
      gaps(n) == Varints([m \in DOMAIN row(n) |-> gap(n, m)])
  IN  IF ~sorted \/ LastOf(first) # Len(heads) THEN <<0>> \o EncodeInts(heads, FALSE)
      ELSE <<1>> \o Varint(Len(heads)) \o FlattenSeq([n \in Rows(first) |-> gaps(n)])

DecodeSortedRows(first, bytes) ==
  LET head(row, n, us, m) == IF m = 1 THEN n - 1 + Unzigzag(us[first[n] + 1]) ELSE row[m - 1] + us[first[n] + m]
      rowOf(us, n) == FoldLeft(LAMBDA row, m : Append(row, head(row, n, us, m)), << >>, [m \in 1 .. first[n + 1] - first[n] |-> m])
      joined(us) == FlattenSeq([n \in Rows(first) |-> rowOf(us, n)])
      sorted(left) == {joined(us) : us \in UNION {IF c.value # LastOf(first) THEN {} ELSE Finished(TakeVarints(c.left, c.value)) : c \in TakeVarint(left)}}
      heads == CASE bytes = << >> -> {}
                 [] bytes # << >> /\ bytes[1] = 0 -> DecodeInts(Tail(bytes), FALSE)
                 [] bytes # << >> /\ bytes[1] = 1 /\ (\A n \in Rows(first) : first[n] <= first[n + 1]) -> sorted(Tail(bytes))
                 [] OTHER -> {}
  IN  {hs \in heads : Len(hs) = LastOf(first) /\ \A h \in Range(hs) : h \in 0 .. Narrow - 1}

-----------------------------------------------------------------------------
(* Columns of doubles and of singles.                                      *)

On(grid, v) == v # NaN /\ v % grid = 0
IsSingle(v) == v = NaN \/ (On(Single, v) /\ v \div Single \in -(Narrow \div 2) + 1 .. Narrow \div 2 - 1)
SingleBits(v) == Bits(IF v = NaN THEN Narrow \div 2 ELSE v \div Single, NarrowBytes)
FromSingleBits(u) == IF u = Narrow \div 2 THEN NaN ELSE Single * FromBits(u, NarrowBytes)

HeightsOverGaps(values) ==
  LET of(v, u) == IF v = NaN THEN 0 ELSE Zigzag(v \div Tenth - (IF u = NaN THEN 0 ELSE u \div Tenth)) + 1
  IN  [n \in DOMAIN values |-> of(values[n], IF n = 1 THEN 0 ELSE values[n - 1])]

\* An unknown height takes no part in the differences.
Heights(values) ==
  LET step(c, v) == IF v = NaN THEN [c EXCEPT !.codes = Append(@, 0)]
                    ELSE [codes |-> Append(c.codes, Zigzag(v \div Tenth - c.last) + 1), last |-> v \div Tenth]
  IN  FoldLeft(step, [codes |-> << >>, last |-> 0], values).codes
FromHeights(codes) ==
  LET step(c, code) == IF code = 0 THEN [c EXCEPT !.values = Append(@, NaN)]
                       ELSE [values |-> Append(c.values, Tenth * (c.last + Unzigzag(code - 1))), last |-> c.last + Unzigzag(code - 1)]
  IN  FoldLeft(step, [values |-> << >>, last |-> 0], codes).values

EncodeDoubles(values) ==
  LET bits == [n \in DOMAIN values |-> Bits(values[n], WideBytes)]
      fixed == Column(FixedTag, Len(values), Varints(Deltas([n \in DOMAIN values |-> values[n] \div Step])))
  IN  CASE IsConstant(values) -> Column(ConstantTag, Len(values), RawPayload(<<bits[1]>>, WideBytes))
        [] ~IsConstant(values) /\ \A v \in Range(values) : v = NaN \/ On(Tenth, v) ->
             Column(DecimetreTag, Len(values), Varints(Heights(values)))
        [] OTHER -> CASE (\A v \in Range(values) : On(Step, v)) /\ Len(fixed) < WideBytes * Len(values) -> fixed
                      [] OTHER -> IF \A v \in Range(values) : IsSingle(v)
                                  THEN Column(SingleTag, Len(values), RawPayload([n \in DOMAIN values |-> SingleBits(values[n])], NarrowBytes))
                                  ELSE Column(RawTag, Len(values), RawPayload(bits, WideBytes))

DecodeDoubles(bytes) ==
  LET doubles(us) == [n \in DOMAIN us |-> FromBits(us[n], WideBytes)]
      of(c) == CASE c.tag = RawTag -> {doubles(us) : us \in Finished(TakeRaw(c.payload, c.count, WideBytes))}
                 [] c.tag = ConstantTag -> {[n \in 1 .. c.count |-> doubles(us)[1]] : us \in Finished(TakeRaw(c.payload, 1, WideBytes))}
                 [] c.tag = FixedTag -> {[n \in DOMAIN us |-> Step * Summed(us)[n]] : us \in Finished(TakeVarints(c.payload, c.count))}
                 [] c.tag = SingleTag -> {[n \in DOMAIN us |-> FromSingleBits(us[n])] : us \in Finished(TakeRaw(c.payload, c.count, NarrowBytes))}
                 [] c.tag = DecimetreTag -> {FromHeights(us) : us \in Finished(TakeVarints(c.payload, c.count))}
                 [] OTHER -> {}
  IN  UNION {of(c) : c \in Opened(bytes)}

EncodeSingles(values) ==
  LET bits == [n \in DOMAIN values |-> SingleBits(values[n])]
      tenths == Column(SingleDecimetreTag, Len(values), Varints([n \in DOMAIN values |-> Zigzag(values[n] \div Tenth)]))
  IN  CASE IsConstant(values) -> Column(ConstantTag, Len(values), RawPayload(<<bits[1]>>, NarrowBytes))
        [] ~IsConstant(values) /\ (\A v \in Range(values) : On(Tenth, v)) /\ Len(tenths) < NarrowBytes * Len(values) -> tenths
        [] OTHER -> Column(RawTag, Len(values), RawPayload(bits, NarrowBytes))

DecodeSingles(bytes) ==
  LET of(c) == CASE c.tag = RawTag -> {[n \in DOMAIN us |-> FromSingleBits(us[n])] : us \in Finished(TakeRaw(c.payload, c.count, NarrowBytes))}
                 [] c.tag = ConstantTag -> {[n \in 1 .. c.count |-> FromSingleBits(us[1])] : us \in Finished(TakeRaw(c.payload, 1, NarrowBytes))}
                 [] c.tag = SingleDecimetreTag -> {[n \in DOMAIN us |-> Tenth * Unzigzag(us[n])] : us \in Finished(TakeVarints(c.payload, c.count))}
                 [] OTHER -> {}
  IN  UNION {of(c) : c \in Opened(bytes)}

-----------------------------------------------------------------------------
(* Tables of strings.  A string is its bytes; one from Group on continues  *)
(* a character.                                                            *)

Boundary(string, n) == n \in {0, Len(string)} \/ (n < Len(string) /\ string[n + 1] < Group)
SharedLength(a, b) == Max({n \in 0 .. Min({Len(a), Len(b)}) : SubSeq(a, 1, n) = SubSeq(b, 1, n)})

EncodeStrings(values) ==
  LET shared(n) == LET common == IF n = 1 THEN 0 ELSE SharedLength(values[n - 1], values[n])
                   IN  Max({k \in 0 .. common : Boundary(values[n], k)})
      rest(n) == SubSeq(values[n], shared(n) + 1, Len(values[n]))
  IN  Varint(Len(values)) \o FlattenSeq([n \in DOMAIN values |-> Varint(shared(n)) \o Varint(Len(rest(n))) \o rest(n)])

DecodeStrings(bytes) ==
  LET previous(c) == IF c.value = << >> THEN << >> ELSE Last(c.value)
      whole(suffix) == suffix = << >> \/ suffix[1] < Group
      entry(c, s, t) == IF ~Boundary(previous(c), s) \/ s > Len(previous(c)) \/ ~whole(t.value) THEN {}
                        ELSE {[value |-> Append(c.value, SubSeq(previous(c), 1, s) \o t.value), left |-> t.left]}
      next(c) == UNION {UNION {entry(c, two.value[1], t) : t \in Take(two.left, two.value[2])} : two \in TakeVarints(c.left, 2)}
      all(count) == FoldLeft(LAMBDA found, n : UNION {next(c) : c \in found}, {[value |-> << >>, left |-> count.left]},
                             [n \in 1 .. count.value |-> n])
  IN  UNION {Finished(all(count)) : count \in TakeVarint(bytes)}

=============================================================================
