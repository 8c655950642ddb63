-------------------------------- MODULE Cbor --------------------------------
(***************************************************************************)
(* The canonical codec every wire object passes through: encode and decode *)
(* of crates/kotva-core/src/cbor.rs, over inputs that arrive piece by piece. *)
(*                                                                         *)
(* A value is <<tag, content>>; a Map is a sequence of <<key, value>>      *)
(* pairs, as in the code, and a text is its octets.  A u64 is its octets,  *)
(* most significant first and without leading zeros (zero is <<>>), so     *)
(* that all 64 bits are kept.  The error kinds are kept apart, because the *)
(* order of the checks decides which is reported.                          *)
(***************************************************************************)
EXTENDS Integers, Sequences, SequencesExt

CONSTANTS MAX_NESTING_DEPTH,    \* 64 in the code
          Pieces, MaxLen        \* bounds: the octet strings an input is put together
                                \* from, and the length from which it is not extended

VARIABLE octets               \* the input


U64(n)     == <<"u64", n>>
Bytes(b)   == <<"bytes", b>>
Text(s)    == <<"text", s>>
Bool(b)    == <<"bool", b>>
Arr(a)     == <<"array", a>>
Map(m)     == <<"map", m>>
TextMap(m) == <<"textmap", m>>

-----------------------------------------------------------------------------
(* Encoding.                                                               *)

\* A length as a u64; the inputs are far shorter than 2^16.
Number(n) == IF n = 0 THEN <<>> ELSE IF n < 256 THEN <<n>> ELSE <<n \div 256, n % 256>>

\* The head of an item: major type and argument, in the shortest form.
write_head(major, arg) ==
  LET m == major * 32
      w == Len(arg)
      Padded(width) == [i \in 1 .. width - w |-> 0] \o arg
  IN  CASE w = 0                 -> <<m>>
        [] w = 1 /\ arg[1] < 24  -> <<m + arg[1]>>
        [] w = 1 /\ arg[1] >= 24 -> <<m + 24>> \o arg
        [] w = 2                 -> <<m + 25>> \o arg
        [] w \in 3 .. 4          -> <<m + 26>> \o Padded(4)
        [] w \in 5 .. 8          -> <<m + 27>> \o Padded(8)

\* The order of octet strings: Ord for slices.
RECURSIVE Before(_, _)
Before(a, b) ==
  IF b = <<>> THEN FALSE
  ELSE IF a = <<>> THEN TRUE
  ELSE a[1] < b[1] \/ (a[1] = b[1] /\ Before(Tail(a), Tail(b)))

\* Maps are written in the order of their encoded keys; a stable sort.
RECURSIVE enc(_)
enc(v) ==
  LET body    == v[2]
      Pairs(K(_)) ==
        LET items == [i \in 1 .. Len(body) |-> <<K(body[i][1]), enc(body[i][2])>>]
        IN  write_head(5, Number(Len(body)))
              \o FlattenSeq([i \in 1 .. Len(body) |->
                   LET s == SortSeq(items, LAMBDA a, b : Before(a[1], b[1]))[i]
                   IN  s[1] \o s[2]])
  IN  CASE v[1] = "u64"     -> write_head(0, body)
        [] v[1] = "bytes"   -> write_head(2, Number(Len(body))) \o body
        [] v[1] = "text"    -> write_head(3, Number(Len(body))) \o body
        [] v[1] = "bool"    -> <<IF body THEN 245 ELSE 244>>
        [] v[1] = "array"   -> write_head(4, Number(Len(body)))
                                 \o FlattenSeq([i \in 1 .. Len(body) |-> enc(body[i])])
        [] v[1] = "map"     -> Pairs(LAMBDA k : write_head(0, k))
        [] v[1] = "textmap" -> Pairs(LAMBDA k : write_head(3, Number(Len(k))) \o k)

encode(v) == enc(v)

-----------------------------------------------------------------------------
(* Decoding: Ok(value, next position) or Err(kind).                        *)

Ok(v, pos) == <<"ok", v, pos>>
Err(e)     == <<"err", e>>
IsOk(r)    == r[1] = "ok"

\* Octets pos .. pos + n - 1, or Malformed when the input ends before.
take(b, pos, n) ==
  IF pos + n - 1 > Len(b) THEN Err("Malformed") ELSE Ok(SubSeq(b, pos, pos + n - 1), pos + n)

\* from_be_bytes: the number these octets are.
Stripped(o) ==
  LET zeros == CHOOSE z \in 0 .. Len(o) :
                 (\A i \in 1 .. z : o[i] = 0) /\ (z < Len(o) => o[z + 1] # 0)
  IN  SubSeq(o, zeros + 1, Len(o))

\* Mutant of argument: any form accepted for any number.
argument_any(b, pos, ai) ==
  IF ai \in 24 .. 27
  THEN LET o == take(b, pos, 2 ^ (ai - 24))
       IN  IF IsOk(o) THEN Ok(Stripped(o[2]), o[3]) ELSE o
  ELSE IF ai <= 23 THEN Ok(Number(ai), pos) ELSE Err("Malformed")

\* The argument of a head, refused unless it needs the form it is in: its
\* upper half is not zero (its only octet is 24 or more).
argument(b, pos, ai) ==
  LET Form(width) ==
        LET o == take(b, pos, width)
            shorter == IF width = 1 THEN o[2][1] < 24
                       ELSE \A i \in 1 .. width \div 2 : o[2][i] = 0
        IN  IF ~ IsOk(o) THEN o
            ELSE IF shorter THEN Err("NonShortestForm")
            ELSE Ok(Stripped(o[2]), o[3])
  IN  CASE ai <= 23         -> Ok(Number(ai), pos)
        [] ai \in 24 .. 27  -> Form(2 ^ (ai - 24))
        [] ai \in 28 .. 30  -> Err("Malformed")
        [] OTHER            -> Err("IndefiniteLength")

\* The argument as a length or count: one of three octets or more is beyond
\* every input b, as one more than its octets is.
Count(b, arg) ==
  IF Len(arg) > 2 THEN Len(b) + 1 ELSE FoldLeft(LAMBDA acc, o : acc * 256 + o, 0, arg)

\* Major type 7: the Booleans; null, undefined, floats and the rest refused.
simple(b, pos, ai) ==
  CASE ai = 20 -> Ok(Bool(FALSE), pos)
    [] ai = 21 -> Ok(Bool(TRUE), pos)
    [] ai = 22 -> Err("NullPresent")
    [] ai = 23 -> Err("TagOrUndefined")
    [] ai = 24 -> IF IsOk(take(b, pos, 1)) THEN Err("TagOrUndefined") ELSE Err("Malformed")
    [] ai \in 25 .. 27 ->
         IF IsOk(take(b, pos, 2 ^ (ai - 24))) THEN Err("FloatPresent") ELSE Err("Malformed")
    [] ai \in 28 .. 30 -> Err("Malformed")
    [] OTHER -> Err("IndefiniteLength")

\* Text is octets; all of those below 128 are UTF-8.
Utf8(o) == \A i \in DOMAIN o : o[i] < 128

RECURSIVE value(_, _, _), items(_, _, _, _), pairs(_, _, _, _, _)

\* n values, one after another.
items(b, pos, depth, n) ==
  IF n = 0 THEN Ok(<<>>, pos)
  ELSE LET v == value(b, pos, depth) IN
       IF ~ IsOk(v) THEN v
       ELSE LET rest == items(b, v[3], depth, n - 1) IN
            IF ~ IsOk(rest) THEN rest ELSE Ok(<<v[2]>> \o rest[2], rest[3])

\* n pairs whose encoded keys ascend from `prev` and are all of one kind, the
\* first one's ("none" before it).
pairs(b, pos, depth, n, prev) ==
  IF n = 0 THEN Ok(<<>>, pos)
  ELSE LET k   == value(b, pos, depth)
           kb  == SubSeq(b, pos, k[3] - 1)
           val == value(b, k[3], depth)
           rest == pairs(b, val[3], depth, n - 1, <<k[2][1], kb>>)
       IN  IF ~ IsOk(k) THEN k
           ELSE IF prev[1] # "none" /\ Before(kb, prev[2]) THEN Err("MapKeyOrder")
           ELSE IF prev[1] # "none" /\ kb = prev[2]
                THEN Err(IF k[2][1] = "u64" THEN "DuplicateKey" ELSE "DuplicateTextKey")
           ELSE IF ~ IsOk(val) THEN val
           ELSE IF k[2][1] \notin {"u64", "text"} \/ prev[1] \notin {"none", k[2][1]}
                THEN Err("MixedMapKeys")
           ELSE IF ~ IsOk(rest) THEN rest
           ELSE Ok(<<<<k[2][2], val[2]>>>> \o rest[2], rest[3])

\* One item; containers are entered at most MAX_NESTING_DEPTH deep.
value(b, pos, depth) ==
  LET ib    == b[pos]
      major == ib \div 32
      arg   == argument(b, pos + 1, ib % 32)
      count == Count(b, arg[2])
      body  == take(b, arg[3], count)
      list  == items(b, arg[3], depth + 1, count)
      entries == pairs(b, arg[3], depth + 1, count, <<"none">>)
      textual == value(b, arg[3], depth + 1)[2][1] = "text"
  IN  IF depth > MAX_NESTING_DEPTH \/ pos > Len(b) THEN Err("Malformed")
      ELSE IF major = 7 THEN simple(b, pos + 1, ib % 32)
      ELSE IF ~ IsOk(arg) THEN arg
      ELSE CASE major = 0 -> Ok(U64(arg[2]), arg[3])
             [] major = 1 -> Err("IntRange")
             [] major = 2 -> IF IsOk(body) THEN Ok(Bytes(body[2]), body[3]) ELSE body
             [] major = 3 -> IF ~ IsOk(body) THEN body
                             ELSE IF ~ Utf8(body[2]) THEN Err("Malformed")
                             ELSE Ok(Text(body[2]), body[3])
             [] major = 4 -> IF IsOk(list) THEN Ok(Arr(list[2]), list[3]) ELSE list
             [] major = 5 -> IF ~ IsOk(entries) THEN entries
                             ELSE IF count > 0 /\ textual THEN Ok(TextMap(entries[2]), entries[3])
                             ELSE Ok(Map(entries[2]), entries[3])
             [] major = 6 -> Err("TagOrUndefined")

\* One item and nothing after it.
decode(b) ==
  LET r == value(b, 1, 0) IN
  IF IsOk(r) /\ r[3] # Len(b) + 1 THEN Err("TrailingData") ELSE r

-----------------------------------------------------------------------------
cborInit == octets = <<>>

\* An input is extended while more could change its verdict: it is too short, or
\* accepted as it is.  Every other refusal stands, whatever follows.
Extensible ==
  LET r == decode(octets) IN Len(octets) < MaxLen /\ (IsOk(r) \/ r = Err("Malformed"))

arrive(piece) == octets' = octets \o piece

cborNext == Extensible /\ \E piece \in Pieces : arrive(piece)

cborSpec == cborInit /\ [][cborNext]_octets

\* An input that decode accepts is the one encode gives for its value: there
\* is one encoding, so that the hash of an object is that of its octets, and no
\* input of any shape takes the decoder out of its errors.
OneEncoding == LET r == decode(octets) IN IsOk(r) => encode(r[2]) = octets
=============================================================================
