---------------------------- MODULE FramedCodecs ----------------------------
(***************************************************************************)
(* The codecs with a begin and an end: ascii85 between <~ and ~>, with the *)
(* helper AffixEncoder, uuencode with its last empty line, and             *)
(* bubblebabble between x and x with a running checksum                    *)
(* (src/src/lib/codec/codecs/).  Settings are a record of name, dir, bare  *)
(* and strict.                                                             *)
(***************************************************************************)
EXTENDS Codec, Sequences, SequencesExt, FiniteSetsExt

CONSTANT UuLine   (* the bytes in a line of uuencode: 45 in the code        *)

ASSUME UuAssumption == UuLine \in Nat /\ UuLine > 0 /\ UuLine % 3 = 0

LF == 10
Zeros(n) == [i \in 1 .. n |-> 0]
Pieces(in, n) == [i \in 1 .. Len(in) \div n |-> SubSeq(in, (i - 1) * n + 1, i * n)]
Failed(s) == Ans(s, "Err", 0, <<>>)

\* FilteredDecoder: unless strict, the decoder sees only the bytes that belong
\* to the encoding, and what it took is counted in the unfiltered input.
Meant(s, x) ==
  CASE s.name = "ascii85" -> x \in 33 .. 117 \cup {122, 126}
    [] s.name = "uuencode" -> x \in 33 .. 96 \cup {LF}
    [] s.name = "bubblebabble" -> x = 45 \/ (x \in 97 .. 122 \ {106, 113, 119})
Valid(s, in) == SelectSeq([i \in DOMAIN in |-> i], LAMBDA i : s.strict \/ Meant(s, in[i]))
Filtered(s, in) == [k \in DOMAIN Valid(s, in) |-> in[Valid(s, in)[k]]]

\* A slip: to count the filtered bytes.
CountFiltered(s, in, r) == r

Unfiltered(s, in, r) == [r EXCEPT !.took = IF @ = 0 THEN 0 ELSE Valid(s, in)[@]]

----------------------------------------------------------------------------
(***************************************************************************)
(* ascii85.  Four bytes are two halves of 16 bits here.                    *)
(***************************************************************************)
Group(bytes) ==
  LET divide(v, i) ==
        LET low == (v.hi % 85) * 65536 + v.lo
        IN  [hi |-> v.hi \div 85, lo |-> low \div 85, text |-> <<33 + (low % 85)>> \o v.text]
  IN  FoldLeft(divide,
               [hi |-> bytes[1] * 256 + bytes[2], lo |-> bytes[3] * 256 + bytes[4], text |-> <<>>],
               <<1, 2, 3, 4, 5>>).text

\* transform_chunk and dec: what exceeds 32 bits is cut off.
Ungroup(text) ==
  LET multiply(v, c) ==
        LET low == v.lo * 85 + ((c - 33) % 256)
        IN  [hi |-> (v.hi * 85 + low \div 65536) % 65536, lo |-> low % 65536]
      bytes(v) == <<v.hi \div 256, v.hi % 256, v.lo \div 256, v.lo % 256>>
  IN  bytes(FoldLeft(multiply, [hi |-> 0, lo |-> 0], text))

\* A slip: not to look at the room.
GroupsAll(in, room, fin) ==
  LET n == Len(in) \div 4
  IN  [took |-> 4 * n, made |-> FlattenSeq([i \in 1 .. n |-> Group(Pieces(in, 4)[i])])]

\* Ascii85Encoder: four zeros are a z, but not at the end.
Groups(in, room, fin) ==
  LET n == Smaller(Len(in) \div 4, room \div 5)
      code(bytes) == IF bytes = Zeros(4) /\ ~fin THEN <<122>> ELSE Group(bytes)
  IN  [took |-> 4 * n,
       made |-> FlattenSeq([i \in 1 .. n |-> code(Pieces(in, 4)[i])])]

\* What is left behind the groups is filled up with zeros, and the characters
\* that say nothing go: pad_bytes_needed.
LastGroup(in, whole) ==
  LET rest == Skip(in, whole.took)
  IN  [took |-> Len(in),
       made |-> whole.made \o Firsts(Group(rest \o Zeros(4 - Len(rest))), Len(rest) + 1)]

\* PaddedEncoder: a last group that is full and not the only one is left.
LastOrLeft(in, whole) ==
  IF whole.made # <<>> /\ whole.took + 4 = Len(in) THEN whole ELSE LastGroup(in, whole)

RoomForAll(in, room, fin) == fin /\ in # <<>> /\ room >= ((Len(in) + 3) \div 4) * 5

\* A slip: to write all five characters of the last group.
GroupsWhole(in, room, fin) ==
  IF RoomForAll(in, room, fin) THEN Groups(in \o Zeros((4 - (Len(in) % 4)) % 4), room, fin)
  ELSE Groups(in, room, fin)

GroupsPadded(in, room, fin) ==
  IF RoomForAll(in, room, fin) THEN LastOrLeft(in, Groups(Firsts(in, Len(in) - 1), room, fin))
  ELSE Groups(in, room, fin)

\* AffixEncoder.  The suffix comes when there is room for it behind what the
\* codec made, whether or not the codec took everything.
Suffixed(s, room, fin, r) ==
  IF fin /\ Len(r.made) + 2 <= room
  THEN Ans([s EXCEPT !.end = TRUE], "StreamEnd", r.took, r.made \o <<126, 62>>)
  ELSE Ans(s, "Ok", r.took, r.made)

AffixEncode(s, in, room, fin) ==
  LET opening == IF s.start THEN <<>> ELSE <<60, 126>>
      left == room - Len(opening)
      prefixed(r) == [r EXCEPT !.made = opening \o @]
  IN  IF left < 0 THEN Ans(s, "BufError", 0, <<>>)
      ELSE IF s.end THEN IF in = <<>> THEN Ans(s, "StreamEnd", 0, <<>>) ELSE Failed(s)
      ELSE prefixed(Suffixed([s EXCEPT !.start = TRUE], left, fin, GroupsPadded(in, left, fin)))

BareEncode(s, in, room, fin) ==
  LET ok(r) == Ans(s, "Ok", r.took, r.made) IN ok(GroupsPadded(in, room, fin))

\* while i < maxi && j < maxj: the text between the affixes.
Ungroups(s, text, room, fin) ==
  LET maxi == Len(text) - IF fin THEN 0 ELSE 5
      chunk(i) == SubSeq(text, i + 1, Smaller(i + 5, Len(text)))
      bytes(i) ==
        IF chunk(i)[1] = 122 THEN Zeros(4)
        ELSE Firsts(Ungroup(chunk(i) \o [k \in 1 .. 5 - Len(chunk(i)) |-> 117]), Len(chunk(i)) - 1)
      from[i \in 0 .. Len(text), j \in 0 .. 4 * Len(text)] ==
        IF i >= maxi \/ j >= room - 4 THEN Ans(s, "Ok", i, <<>>)
        ELSE LET z == text[i + 1] = 122
                 next == i + IF z THEN 1 ELSE Len(chunk(i))
             IN  [from[next, j + IF z THEN 4 ELSE Len(chunk(i)) - 1] EXCEPT !.made = bytes(i) \o @]
  IN  IF ~fin /\ Len(text) <= 5 THEN Ans(s, "SeqError", 0, <<>>) ELSE from[0, 0]

\* internal_transform once the opening was seen.  Between the affixes all of
\* the text counts as taken, whatever room there was for it.
Ascii85Body(s, in, room, fin) ==
  LET ended == [s EXCEPT !.end = TRUE]
      affixed == ~s.bare /\ 126 \in ToSet(in)
      x == IF affixed THEN Min({i \in DOMAIN in : in[i] = 126}) - 1 ELSE Len(in)
      text == Firsts(in, x)
  IN  IF affixed /\ s.end THEN Failed(s)
      ELSE IF affixed /\ x = 0 /\ Len(in) = 2 THEN Ans(ended, "StreamEnd", 2, <<>>)
      ELSE IF x + 1 >= Len(in) THEN Ungroups(s, text, room, fin)
      ELSE IF x + 2 = Len(in) /\ in[x + 2] = 62
      THEN Ans(ended, "StreamEnd", Len(in), Ungroups(ended, text, room, TRUE).made)
      ELSE Failed(s)

\* The first two bytes say whether there are affixes; the status of the call
\* that sees them is Ok.
Ascii85Decode(s, in, room, fin) ==
  LET bare == SubSeq(in, 1, 2) # <<60, 126>>
      opening == IF bare THEN 0 ELSE 2
      opened(r) == IF r.kind = "Err" THEN r ELSE Ans(r.codec, "Ok", r.took + opening, r.made)
  IN  IF s.start \/ (Len(in) < 2 /\ fin)
      THEN Ascii85Body([s EXCEPT !.bare = @ \/ ~s.start], in, room, fin)
      ELSE IF Len(in) < 2 THEN Ans(s, "SeqError", 0, <<>>)
      ELSE opened(Ascii85Body([s EXCEPT !.start = TRUE, !.bare = bare], Skip(in, opening), room, fin))

----------------------------------------------------------------------------
(***************************************************************************)
(* uuencode.                                                               *)
(***************************************************************************)
UuChars(n) == ((n + 2) \div 3) * 4 + 2
UuEnc(b) == IF b = 0 THEN 96 ELSE b + 32
UuDec(c) == (c - 32) % 64
UuEmpty == <<UuEnc(0), LF>>

\* transform_chunk: one line.
UuLineOf(bytes) ==
  LET sextets(b) == <<b[1] \div 4, (b[1] % 4) * 16 + b[2] \div 16, (b[2] % 16) * 4 + b[3] \div 64, b[3] % 64>>
      full == bytes \o Zeros((3 - (Len(bytes) % 3)) % 3)
      digits == FlattenSeq([i \in DOMAIN Pieces(full, 3) |-> sextets(Pieces(full, 3)[i])])
  IN  <<UuEnc(Len(bytes))>> \o [i \in DOMAIN digits |-> UuEnc(digits[i])] \o <<LF>>

UuEncode(s, in, room, fin) ==
  LET n == Smaller(Len(in) \div UuLine, room \div UuChars(UuLine))
      lines == FlattenSeq([i \in 1 .. n |-> UuLineOf(Pieces(in, UuLine)[i])])
      finished == [s EXCEPT !.end = TRUE]
  IN  IF n > 0 THEN Ans(s, "Ok", n * UuLine, lines)
      ELSE IF fin /\ s.end THEN Ans(s, "StreamEnd", 0, <<>>)
      ELSE IF fin /\ in = <<>> /\ room >= 2 THEN Ans(finished, "StreamEnd", 0, UuEmpty)
      ELSE IF fin /\ room >= UuChars(UuLine) + 2
      THEN Ans(finished, "StreamEnd", Len(in), UuLineOf(in) \o UuEmpty)
      ELSE Ans(s, "SeqError", 0, <<>>)

\* Decoder::transform_chunk: the first line of a slice.
UuUnline(s, slice) ==
  LET count == UuDec(slice[1])
      line == Firsts(slice, UuChars(count))
      d(k) == UuDec(line[k + 1])
      byte(k) == CASE k % 3 = 1 -> (d(4 * (k \div 3) + 1) * 4 + d(4 * (k \div 3) + 2) \div 16) % 256
                   [] k % 3 = 2 -> (d(4 * (k \div 3) + 2) * 16 + d(4 * (k \div 3) + 3) \div 4) % 256
                   [] k % 3 = 0 -> (d(4 * (k \div 3) - 1) * 64 + d(4 * (k \div 3))) % 256
  IN  IF \/ Len(line) < UuChars(count) \/ line[Len(line)] # LF
         \/ s.strict /\ \E i \in 1 .. Len(line) - 1 : line[i] \notin 33 .. 96
      THEN [bad |-> TRUE, took |-> 0, made |-> <<>>]
      ELSE [bad |-> FALSE, took |-> Len(line), made |-> [k \in 1 .. count |-> byte(k)]]

\* Slices of the length of a full line, each with its place in the output; a
\* shorter line is expected to be the last.
UuDecode(s, in, room, fin) ==
  LET width == UuChars(UuLine)
      n == Smaller((Len(in) + IF fin THEN width - 1 ELSE 0) \div width, room \div UuLine)
      line == [i \in 1 .. n |-> UuUnline(s, SubSeq(in, (i - 1) * width + 1, Smaller(i * width, Len(in))))]
      gap(i) == [k \in 1 .. (IF i = n THEN 0 ELSE UuLine - Len(line[i].made)) |-> Unwritten]
  IN  IF n = 0 /\ ~fin THEN Ans(s, "SeqError", 0, <<>>)
      ELSE IF \E i \in 1 .. n : line[i].bad THEN Failed(s)
      ELSE Ans(s, "Ok", IF n = 0 THEN 0 ELSE (n - 1) * width + line[n].took,
               FlattenSeq([i \in 1 .. n |-> line[i].made \o gap(i)]))

----------------------------------------------------------------------------
(***************************************************************************)
(* bubblebabble.                                                           *)
(***************************************************************************)
Vowels == <<97, 101, 105, 111, 117, 121>>
Consonants ==
  <<98, 99, 100, 102, 103, 104, 107, 108, 109, 110, 112, 114, 115, 116, 118, 122, 120>>
X == 120
Hyphen == 45
\* REVV and REVC.
Reverse1(letters, x) == Min({i - 1 : i \in {k \in DOMAIN letters : letters[k] = x}} \cup {99})

BubbleSum(c, b) == (c % 36) * 5 + b[1] * 7 + b[2]
BubbleHalf(b, c) ==
  <<Vowels[((b \div 64 + (c % 36)) % 6) + 1], Consonants[((b \div 4) % 16) + 1],
    Vowels[(((b % 4) + (c % 36) \div 6) % 6) + 1]>>
BubbleChunk(b, c) ==
  BubbleHalf(b[1], c) \o <<Consonants[b[2] \div 16 + 1], Hyphen, Consonants[(b[2] % 16) + 1]>>
\* transform_final_chunk.
BubbleLast(in, c) ==
  (IF in = <<>> THEN <<Vowels[(c % 6) + 1], X, Vowels[(c % 36) \div 6 + 1]>> ELSE BubbleHalf(in[1], c))
    \o <<X>>

\* The last byte is written but not taken.
BubbleEncode(s, in, room, fin) ==
  LET opening == IF s.start THEN <<>> ELSE <<X>>
      left == room - Len(opening)
      n == Smaller(Len(in) \div 2, left \div 6)
      all == FoldLeft(LAMBDA r, b : [c |-> BubbleSum(r.c, b), text |-> r.text \o BubbleChunk(b, r.c)],
                      [c |-> s.c, text |-> opening], Firsts(Pieces(in, 2), n))
      t == [s EXCEPT !.start = TRUE]
  IN  IF n > 0 THEN Ans([t EXCEPT !.c = all.c], "Ok", 2 * n, all.text)
      ELSE IF fin /\ s.end THEN Ans(t, "StreamEnd", 0, opening)
      ELSE IF fin /\ left >= 4
      THEN Ans([t EXCEPT !.end = TRUE], "StreamEnd", 0, opening \o BubbleLast(in, s.c))
      ELSE Ans(t, "SeqError", 0, opening)

\* The two bits of a vowel, and the byte of three letters, <<>> if they are
\* none.
VowelBits(x, shift) ==
  LET d == Reverse1(Vowels, x) IN IF d = 99 THEN 99 ELSE (d + 36 - shift) % 6
ThreeBits(high, middle, low) ==
  IF high >= 4 \/ middle >= 16 \/ low >= 4 THEN <<>> ELSE <<high * 64 + middle * 4 + low>>
BubbleByte(text, c) ==
  ThreeBits(VowelBits(text[1], c % 36), Reverse1(Consonants, text[2]),
            VowelBits(text[3], (c % 36) \div 6))

\* The second byte is an or of two digits that may be 16, the x.
OrDigits(high, low) ==
  ((IF low = 16 /\ high % 2 = 0 THEN high + 1 ELSE high) * 16 + (low % 16)) % 256
UnbubbleChunk(text, c) ==
  LET with(first, high, low) ==
        IF first = <<>> \/ text[5] # Hyphen \/ high = 99 \/ low = 99 THEN <<>>
        ELSE first \o <<OrDigits(high, low)>>
  IN  with(BubbleByte(text, c), Reverse1(Consonants, text[4]), Reverse1(Consonants, text[6]))

UnbubbleLast(s, text, took) ==
  LET ended(b) == Ans([s EXCEPT !.end = TRUE], "StreamEnd", took, b)
      of(b) == IF b = <<>> \/ text[4] # X THEN Failed(s) ELSE ended(b)
  IN  IF text = BubbleLast(<<>>, s.c) THEN ended(<<>>) ELSE of(BubbleByte(text, s.c))

\* The chunks from one on, until one is none.
UnbubbleNext(r, b) ==
  IF r.bad \/ b = <<>> THEN [r EXCEPT !.bad = TRUE]
  ELSE [bad |-> FALSE, c |-> BubbleSum(r.c, b), made |-> r.made \o b]
Unbubbled(c, chunks) ==
  FoldLeft(LAMBDA r, text : UnbubbleNext(r, UnbubbleChunk(text, r.c)),
           [bad |-> FALSE, c |-> c, made |-> <<>>], chunks)

BubbleDecode(s, whole, room, fin) ==
  LET opening == IF s.start THEN 0 ELSE 1
      in == Skip(whole, opening)
      n == Smaller(Len(in) \div 6, room \div 2)
      t == [s EXCEPT !.start = TRUE]
      chunks(all) ==
        IF all.bad THEN Failed(s) ELSE Ans([t EXCEPT !.c = all.c], "Ok", 6 * n + opening, all.made)
  IN  IF ~s.start /\ whole = <<>> THEN Ans(s, "SeqError", 0, <<>>)
      ELSE IF ~s.start /\ whole[1] # X THEN Failed(s)
      ELSE IF n > 0 THEN chunks(Unbubbled(s.c, Firsts(Pieces(in, 6), n)))
      ELSE IF fin /\ ~s.end /\ Len(in) = 4 /\ room >= 2 THEN UnbubbleLast(t, in, 4 + opening)
      ELSE IF fin /\ s.end THEN Ans(t, "StreamEnd", opening, <<>>)
      ELSE Ans(t, "SeqError", opening, <<>>)

----------------------------------------------------------------------------
(***************************************************************************)
(* The factories and the trait.                                            *)
(***************************************************************************)
FramedStart(settings) ==
  [name |-> settings.name, dir |-> settings.dir, strict |-> settings.strict,
   bare |-> settings.bare, start |-> FALSE, end |-> FALSE, c |-> 1]

FramedBufferSize(s) ==
  CASE s.name = "ascii85" -> IF s.dir = "reverse" THEN 4 ELSE IF s.bare THEN 5 ELSE 2
    [] s.name = "uuencode" -> IF s.dir = "reverse" THEN UuLine ELSE UuChars(UuLine)
    [] s.name = "bubblebabble" -> IF s.dir = "reverse" THEN 2 ELSE 7

FramedForward(s, in, room, fin) ==
  CASE s.name = "ascii85" -> IF s.bare THEN BareEncode(s, in, room, fin)
                             ELSE AffixEncode(s, in, room, fin)
    [] s.name = "uuencode" -> UuEncode(s, in, room, fin)
    [] s.name = "bubblebabble" -> BubbleEncode(s, in, room, fin)

FramedReverse(s, in, room, fin) ==
  CASE s.name = "ascii85" -> Ascii85Decode(s, in, room, fin)
    [] s.name = "uuencode" -> UuDecode(s, in, room, fin)
    [] s.name = "bubblebabble" -> BubbleDecode(s, in, room, fin)

FramedTransform(s, in, room, fin) ==
  IF s.dir = "forward" THEN FramedForward(s, in, room, fin)
  ELSE Unfiltered(s, in, FramedReverse(s, Filtered(s, in), room, fin))

(***************************************************************************)
(* What the codecs make of all the rest of their input.  For ascii85 every *)
(* four zeros are a z, and uuencoded text is read a line at a time; for    *)
(* the others these are the answers of calls that see all that is left and *)
(* have more than enough room, until nothing comes.                        *)
(***************************************************************************)
Ascii85Meaning(s, in) ==
  LET whole == Groups(Firsts(in, 4 * (Len(in) \div 4)), 5 * Len(in), FALSE)
      text == IF Len(in) % 4 = 0 THEN whole.made ELSE LastGroup(in, whole).made
      opening == IF s.bare \/ s.start THEN <<>> ELSE <<60, 126>>
      closing == IF s.bare \/ s.end THEN <<>> ELSE <<126, 62>>
  IN  opening \o text \o closing

Good(r) == IF r.bad THEN Malformed ELSE r.made

LinesMeaning(s, in) ==
  LET behind(r, line) ==
        [left |-> Skip(r.left, line.took), made |-> r.made \o line.made, bad |-> line.bad]
      read(r, i) ==
        IF r.bad \/ r.left = <<>> THEN r
        ELSE behind(r, UuUnline(s, Firsts(r.left, UuChars(UuLine))))
      start(text) == [left |-> text, made |-> <<>>, bad |-> FALSE]
  IN  Good(FoldLeft(read, start(Filtered(s, in)), in))

CallsMeaning(s, in) ==
  LET behind(r, answer) ==
        [codec |-> answer.codec, left |-> Skip(r.left, answer.took),
         made |-> r.made \o answer.made,
         bad |-> r.bad \/ answer.kind = "Err" \/ (answer.kind = "SeqError" /\ answer.took = 0)]
      call(r, i) == behind(r, FramedTransform(r.codec, r.left, 4 * Len(in) + 3 * UuLine, TRUE))
      start == [codec |-> s, left |-> in, made |-> <<>>, bad |-> FALSE]
  IN  Good(FoldLeft(call, start, <<1, 2, 3>>))

FramedMeaning(s, in) ==
  CASE s.name = "ascii85" /\ s.dir = "forward" -> Ascii85Meaning(s, in)
    [] s.name = "uuencode" /\ s.dir = "reverse" -> LinesMeaning(s, in)
    [] OTHER -> CallsMeaning(s, in)
=============================================================================
