---------------------------- MODULE BlockCodecs ----------------------------
(***************************************************************************)
(* The codecs that work on whole blocks of bytes: hex, modhex and base16,  *)
(* base32, base32hex, base64 and url64, and swab, with the helpers they    *)
(* share (src/src/lib/codec/helpers/codecs.rs).  A codec is the record of  *)
(* its settings: name, dir, pad (whether = fills the last block), strict,  *)
(* and length for swab.                                                    *)
(***************************************************************************)
EXTENDS Codec, Sequences, SequencesExt

Pad == 61

\* The bytes and characters of a block.
Base16 == {"hex", "base16", "modhex"}
Base32 == {"base32", "base32hex"}
Base64 == {"base64", "url64"}
Bytes(base) == CASE base \in Base16 -> 1 [] base \in Base32 -> 5 [] base \in Base64 -> 3
Chars(base) == CASE base \in Base16 -> 2 [] base \in Base32 -> 8 [] base \in Base64 -> 4
Bits(base) == (Bytes(base) * 8) \div Chars(base)

----------------------------------------------------------------------------
(***************************************************************************)
(* The alphabets, and the digit each character stands for, -1 for none.    *)
(***************************************************************************)
ModHex == <<99, 98, 100, 101, 102, 103, 104, 105, 106, 107, 108, 110, 114, 116, 117, 118>>

Char(base, d) ==
  CASE base = "hex" -> IF d < 10 THEN 48 + d ELSE 87 + d
    [] base = "modhex" -> ModHex[d + 1]
    [] base \in {"base16", "base32hex"} -> IF d < 10 THEN 48 + d ELSE 55 + d
    [] base = "base32" -> IF d < 26 THEN 65 + d ELSE 24 + d
    [] base \in Base64 ->
         CASE d < 26 -> 65 + d
           [] d \in 26 .. 51 -> 71 + d
           [] d \in 52 .. 61 -> d - 4
           [] d = 62 -> IF base = "base64" THEN 43 ELSE 45
           [] d = 63 -> IF base = "base64" THEN 47 ELSE 95

\* hex and base16 read each other; = reads as zero where it may fill a block.
Alike(base) == IF base \in {"hex", "base16"} THEN {"hex", "base16"} ELSE {base}

Digits ==
  [base \in Base16 \cup Base32 \cup Base64 |->
    [c \in 0 .. 255 |->
      LET meant == {d \in 0 .. 2 ^ Bits(base) - 1 : \E b \in Alike(base) : Char(b, d) = c}
      IN  IF meant # {} THEN CHOOSE d \in meant : TRUE
          ELSE IF c = Pad /\ base \notin Base16 THEN 0 ELSE -1]]
Digit(base, c) == IF c \in 0 .. 255 THEN Digits[base][c] ELSE -1

\* The bits of digits of some width, the first one first, and what bits write.
Bit(digits, width, i) == (digits[i \div width + 1] \div 2 ^ (width - 1 - (i % width))) % 2
Binary(bits) ==
  LET upTo[n \in 0 .. Len(bits)] == IF n = 0 THEN 0 ELSE 2 * upTo[n - 1] + bits[n]
  IN  upTo[Len(bits)]

\* The same bits cut into pieces of another width.
Regroup(digits, from, to) ==
  [j \in 1 .. (Len(digits) * from) \div to |->
    Binary([n \in 1 .. to |-> Bit(digits, from, (j - 1) * to + n - 1)])]

Repeat(x, n) == [i \in 1 .. n |-> x]

----------------------------------------------------------------------------
(***************************************************************************)
(* Encoders.                                                               *)
(***************************************************************************)
Encoded(base, bytes) ==
  LET digits == Regroup(bytes, 8, Bits(base))
  IN  [i \in DOMAIN digits |-> Char(base, digits[i])]

\* A slip: to count the room in bytes of the input.
BlockEncodeTight(s, in, room, fin) ==
  LET took == Bytes(s.name) * Smaller(Len(in) \div Bytes(s.name), room \div Bytes(s.name))
  IN  StatelessAnswer(s, in, fin, took, Encoded(s.name, Firsts(in, took)))

\* forward_transform: the whole blocks that there are and fit.
BlockEncode(s, in, room, fin) ==
  LET took == Bytes(s.name) * Smaller(Len(in) \div Bytes(s.name), room \div Chars(s.name))
  IN  StatelessAnswer(s, in, fin, took, Encoded(s.name, Firsts(in, took)))

\* A slip: to round up.
PadNeededUp(base, rest) == ((Bytes(base) - rest) * 8 + Bits(base) - 1) \div Bits(base)

\* default_padfn.
PadNeeded(base, rest) == ((Bytes(base) - rest) * 8) \div Bits(base)

\* PaddedEncoder: at the end a last block is filled with zeros, and the
\* characters that say nothing give way to =, or go.  A last block that needs
\* no filling is left for another call if anything comes before it.
PaddedEncode(s, in, room, fin) ==
  LET bytes == Bytes(s.name)
      chars == Chars(s.name)
      needed == ((Len(in) + bytes - 1) \div bytes) * chars
      took == BlockEncode(s, Firsts(in, Len(in) - 1), room, fin).took
      before == Encoded(s.name, Firsts(in, took))
      fill == PadNeeded(s.name, Len(in) - took)
      last == Encoded(s.name, Skip(in, took) \o Repeat(0, bytes - (Len(in) - took)))
  IN  IF ~(fin /\ in # <<>> /\ room >= needed) THEN BlockEncode(s, in, room, fin)
      ELSE IF before # <<>> /\ fill = 0 THEN Ans(s, "Ok", took, before)
      ELSE Ans(s, "Ok", Len(in),
               before \o Firsts(last, chars - fill)
                      \o IF s.pad THEN Repeat(Pad, fill) ELSE <<>>)

----------------------------------------------------------------------------
(***************************************************************************)
(* Decoders.                                                               *)
(***************************************************************************)

\* FilteredDecoder: unless strict, the decoder sees only characters of the
\* alphabet, those at the places `Valid', and what it took is counted in the
\* unfiltered input.
Valid(s, in) ==
  IF s.strict THEN [i \in DOMAIN in |-> i]
  ELSE SelectSeq([i \in DOMAIN in |-> i], LAMBDA i : Digit(s.name, in[i]) # -1)
Filtered(s, in) ==
  LET kept == Valid(s, in)
  IN  [k \in DOMAIN kept |-> in[kept[k]]]
Unfiltered(s, in, r) == [r EXCEPT !.took = IF @ = 0 THEN 0 ELSE Valid(s, in)[@]]

\* A slip: to read a character that is no digit as zero.
HexDecodeAny(s, in, room, fin) ==
  LET bytes == Smaller(Len(in) \div 2, room)
      digits == [i \in 1 .. 2 * bytes |->
                  IF Digit(s.name, in[i]) = -1 THEN 0 ELSE Digit(s.name, in[i])]
  IN  CASE ~fin /\ Len(in) < 2 -> Ans(s, "SeqError", 0, <<>>)
        [] fin /\ in = <<>> -> Ans(s, "StreamEnd", 0, <<>>)
        [] OTHER -> StatelessAnswer(s, in, fin, 2 * bytes, Regroup(digits, 4, 8))

\* hex.rs: Decoder.
HexDecode(s, in, room, fin) ==
  LET bytes == Smaller(Len(in) \div 2, room)
      digits == [i \in 1 .. 2 * bytes |-> Digit(s.name, in[i])]
  IN  CASE ~fin /\ Len(in) < 2 -> Ans(s, "SeqError", 0, <<>>)
        [] fin /\ in = <<>> -> Ans(s, "StreamEnd", 0, <<>>)
        [] OTHER -> IF -1 \in ToSet(digits) THEN Ans(s, "Err", 0, <<>>)
                    ELSE StatelessAnswer(s, in, fin, 2 * bytes, Regroup(digits, 4, 8))

\* process_chunk: the digits are summed as they are, so that a -1 borrows from
\* the digit before it; only a negative sum is an error.
Sum(base, chunk) ==
  LET radix == 2 ^ Bits(base)
      digit(k) == IF k <= Len(chunk) THEN Digit(base, chunk[k]) ELSE 0
      carry[k \in 1 .. Chars(base) + 1] ==
        IF k > Chars(base) THEN 0 ELSE (digit(k) + carry[k + 1]) \div radix
  IN  [negative |-> carry[1] < 0,
       bytes |-> Regroup([k \in 1 .. Chars(base) |-> (digit(k) + carry[k + 1]) % radix],
                         Bits(base), 8)]

\* ChunkedDecoder: the whole chunks that there are and fit, or at the end what
\* is left of one, read as if zeros followed.
ChunkedDecode(s, in, room, fin) ==
  LET base == s.name
      chars == Chars(base)
      n == Smaller(Len(in) \div chars, room \div Bytes(base))
      rest == fin /\ Len(in) < chars
      sum == IF rest THEN <<Sum(base, in)>>
             ELSE [i \in 1 .. n |-> Sum(base, SubSeq(in, (i - 1) * chars + 1, i * chars))]
  IN  IF \E i \in DOMAIN sum : sum[i].negative THEN Ans(s, "Err", 0, <<>>)
      ELSE Ans(s, IF rest THEN "StreamEnd" ELSE "Ok",
               IF rest THEN Len(in) ELSE n * chars,
               FlattenSeq([i \in DOMAIN sum |-> sum[i].bytes]))

\* bytes_to_trim.
Trim(base, chars) ==
  LET missing == Chars(base) - (chars % Chars(base))
  IN  IF chars % Chars(base) = 0 THEN 0
      ELSE Bytes(base) - (Bytes(base) * 8 - missing * Bits(base)) \div 8

\* PaddedDecoder: the bytes that only come of filling go, as many as the first
\* = says, or without = the end of the input.
PaddedDecode(s, in, room, fin) ==
  LET base == s.name
      r == ChunkedDecode(s, in, room, fin)
      pads == {i \in 1 .. r.took : in[i] = Pad}
      first == CHOOSE i \in pads : \A j \in pads : i <= j
      less(chars) == Ans(s, "Ok", r.took, Firsts(r.made, Len(r.made) - Trim(base, chars)))
  IN  CASE ~fin /\ Len(in) < Chars(base) -> Ans(s, "SeqError", 0, <<>>)
        [] fin /\ in = <<>> -> Ans(s, "StreamEnd", 0, <<>>)
        [] OTHER ->
             IF r.kind = "Err" THEN r
             ELSE IF s.pad THEN IF pads = {} THEN r ELSE less(first - 1)
             ELSE IF fin /\ r.took = Len(in) THEN less(Len(in)) ELSE r

----------------------------------------------------------------------------
(***************************************************************************)
(* swab: every block of `length' bytes backwards.                          *)
(***************************************************************************)
Backwards(bytes, length) ==
  [i \in 1 .. Len(bytes) |-> bytes[((i - 1) \div length) * length + length - ((i - 1) % length)]]

SwabTransform(s, in, room, fin) ==
  LET took == (Smaller(Len(in), room) \div s.length) * s.length
  IN  CASE ~fin /\ Len(in) < s.length -> Ans(s, "SeqError", 0, <<>>)
        [] fin /\ in = <<>> -> Ans(s, "StreamEnd", 0, <<>>)
        [] OTHER -> StatelessAnswer(s, in, fin, took, Backwards(Firsts(in, took), s.length))

----------------------------------------------------------------------------
(***************************************************************************)
(* The factories and the trait.                                            *)
(***************************************************************************)
BlockStart(settings) == settings

BlockBufferSize(s) ==
  IF s.name = "swab" THEN s.length
  ELSE IF s.dir = "reverse" THEN Bytes(s.name) ELSE Chars(s.name)

BlockTransform(s, in, room, fin) ==
  CASE s.name = "swab" -> SwabTransform(s, in, room, fin)
    [] s.name \in Base16 /\ s.dir = "forward" -> BlockEncode(s, in, room, fin)
    [] s.name \in Base32 \cup Base64 /\ s.dir = "forward" -> PaddedEncode(s, in, room, fin)
    [] s.name \in Base16 /\ s.dir = "reverse" ->
         Unfiltered(s, in, HexDecode(s, Filtered(s, in), room, fin))
    [] s.name \in Base32 \cup Base64 /\ s.dir = "reverse" ->
         Unfiltered(s, in, PaddedDecode(s, Filtered(s, in), room, fin))

----------------------------------------------------------------------------
(***************************************************************************)
(* What the codecs make of all the rest of their input: the same bits in   *)
(* digits of another width, and = up to a whole block.                     *)
(***************************************************************************)
Up(n, to) == ((n + to - 1) \div to) * to

EncodeMeaning(s, in) ==
  LET base == s.name
      digits == Regroup(in \o Repeat(0, Up(Len(in), Bytes(base)) - Len(in)), 8, Bits(base))
      telling == Up(Len(in) * 8, Bits(base)) \div Bits(base)
  IN  [i \in 1 .. IF s.pad THEN Len(digits) ELSE telling |->
        IF i <= telling THEN Char(base, digits[i]) ELSE Pad]

DecodeMeaning(s, in) ==
  LET base == s.name
      kept == IF s.strict THEN in ELSE SelectSeq(in, LAMBDA c : Digit(base, c) # -1)
      n == CHOOSE m \in 0 .. Len(kept) :
             (\A i \in 1 .. m : kept[i] # Pad) /\ (m = Len(kept) \/ kept[m + 1] = Pad)
      digits == [i \in 1 .. n |-> Digit(base, kept[i])]
      left == (n * Bits(base)) % 8
  IN  IF \/ -1 \in ToSet(digits)
         \/ \E i \in n + 1 .. Len(kept) : kept[i] # Pad
         \/ left >= Bits(base)
         \/ Len(kept) # IF s.pad THEN Up(n, Chars(base)) ELSE n
      THEN Malformed
      ELSE Regroup(digits, Bits(base), 8)

BlockMeaning(s, in) ==
  IF s.name = "swab"
  THEN IF Len(in) % s.length = 0 THEN Backwards(in, s.length) ELSE Malformed
  ELSE IF s.dir = "reverse" THEN DecodeMeaning(s, in)
  ELSE EncodeMeaning(s, in)
=============================================================================
