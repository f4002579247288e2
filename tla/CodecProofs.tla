---------------------------- MODULE CodecProofs ----------------------------
(***************************************************************************)
(* The block codecs and the digests stream, too, and the block codecs undo *)
(* each other: so chains of them and of the newline codecs write what they *)
(* mean, and an encoder with its decoder gives back what it was given.     *)
(***************************************************************************)
EXTENDS NewlineProofs, BlockCodecs, DigestCodecs

-----------------------------------------------------------------------------
(***************************************************************************)
(* Codecs for which it does not matter how what they are shown was cut     *)
(* into a window and something fresh.                                      *)
(***************************************************************************)
\* What Tells asks, of a codec that is shown `in' and of which `later' is still to
\* come; it becomes another one of S.
Well(S, size, room, s, in, fin, later) ==
  LET answer == Transform(s, in, room, fin)
      rest == Meaning(answer.codec, Skip(in, answer.took) \o later)
  IN  /\ answer.made \in Seq(Nat)
      /\ Contract(answer.kind, answer.took, Len(answer.made), Len(in), room, size, {}, fin)
      /\ ~(answer.kind = "SeqError" /\ answer.took = 0 /\ fin)
      /\ Meaning(s, in \o later) = answer.made \o rest
      /\ rest \in Seq(Nat)
      /\ answer.made = <<>> /\ (fin \/ answer.kind = "StreamEnd") => rest = <<>>
      /\ answer.codec \in S

\* What a window may show: so much that it fits, of a message that is well-formed, and
\* nothing at all only at the end.
Shows(size, s, in, fin, later) ==
  /\ Len(in) <= size
  /\ Meaning(s, in \o later) # Malformed
  /\ fin => later = <<>>
  /\ ~fin => in # <<>>

AllWell(S, size, room) ==
  \A s \in S : \A in, later \in Seq(Nat) : \A fin \in BOOLEAN :
    Shows(size, s, in, fin, later) => Well(S, size, room, s, in, fin, later)

InRange(S, room) ==
  \A s \in S :
    /\ BufferSize(s) \in 0 .. room
    /\ \A in \in Seq(Nat) : Meaning(s, in) \in Seq(Nat) \cup {Malformed}

\* Such codecs stream.
LEMMA WellStreams ==
  ASSUME NEW size \in Nat, NEW room \in Nat, NEW S, NEW s \in S,
         InRange(S, room), AllWell(S, size, room)
  PROVE  StreamsAlone(At(s, <<>>), size, room)
<1> DEFINE C == {At(t, w) : t \in S, w \in Seq(Nat)}
<1>1. \A t : \A w : At(t, w).codec = t /\ At(t, w).win = w
  BY DEF At
<1>2. Ranged(C, room)
  <2>1. SUFFICES ASSUME NEW t \in S, NEW w \in Seq(Nat)
        PROVE  /\ At(t, w) = At(At(t, w).codec, At(t, w).win)
               /\ BufferSize(At(t, w).codec) \in 0 .. room
               /\ \A in \in Seq(Nat) : Meaning(At(t, w).codec, in) \in Seq(Nat) \cup {Malformed}
    BY DEF Ranged
  <2>2. QED
    BY <1>1 DEF InRange
<1>3. ASSUME NEW t \in S, NEW w \in Seq(Nat), NEW fresh \in Seq(Nat), NEW later \in Seq(Nat)
      PROVE  Tells(C, size, room, At(t, w), fresh, later)
  <2> DEFINE in == w \o fresh
             fin == fresh = <<>>
             answer == Transform(t, in, room, fin)
             rest == Meaning(answer.codec, Skip(in, answer.took) \o later)
  <2>1. in \in Seq(Nat) /\ fin \in BOOLEAN /\ (~fin => in # <<>>)
    BY ConcatProperties, BothEmpty
  <2>2. Answer(At(t, w), fresh, room) = answer
    BY <1>1 DEF Answer
  <2>3. ASSUME Len(in) <= size, Meaning(t, in \o later) # Malformed, fin => later = <<>>
        PROVE  /\ answer.made \in Seq(Nat)
               /\ Contract(answer.kind, answer.took, Len(answer.made), Len(in), room, size, {}, fin)
               /\ ~(answer.kind = "SeqError" /\ answer.took = 0 /\ fin)
               /\ Meaning(t, in \o later) = answer.made \o rest
               /\ rest \in Seq(Nat)
               /\ answer.made = <<>> /\ (fin \/ answer.kind = "StreamEnd") => rest = <<>>
               /\ Stays(C, answer, in)
    <3>1. Shows(size, t, in, fin, later)
      BY <2>1, <2>3 DEF Shows
    <3>2. Well(S, size, room, t, in, fin, later)
      BY <2>1, <3>1 DEF AllWell
    <3>3. answer.codec \in S /\ answer.took \in 0 .. Len(in)
      BY <3>2 DEF Well, Contract
    <3>4. Skip(in, answer.took) \in Seq(Nat)
      BY <2>1, <3>3, SkipIs
    <3>5. Stays(C, answer, in)
      BY <3>3, <3>4 DEF Stays
    <3>6. QED
      BY <3>2, <3>5 DEF Well
  <2>4. At(t, w).win = w /\ At(t, w).codec = t
    BY <1>1
  <2> HIDE DEF C, answer
  <2>5. QED
    BY <2>2, <2>3, <2>4 DEF Tells
<1>4. Truthful(C, size, room)
  BY <1>3 DEF Truthful
<1>5. At(s, <<>>) \in C
  <2>1. ASSUME NEW w \in Seq(Nat) PROVE At(s, w) \in C
    OBVIOUS
  <2>2. <<>> \in Seq(Nat)
    BY EmptySeq
  <2> HIDE DEF C
  <2>3. QED
    BY <2>1, <2>2
<1> HIDE DEF C
<1>6. QED
  BY <1>2, <1>4, <1>5 DEF StreamsAlone

\* A codec that has got everything.
LEMMA SkipsAll ==
  ASSUME NEW in \in Seq(Nat), NEW later \in Seq(Nat)
  PROVE  Len(in) \in Nat /\ (in # <<>> => Len(in) > 0) /\ Skip(in, Len(in)) \o later = later
<1>1. Len(in) \in Nat /\ (in # <<>> => Len(in) > 0) /\ Len(in) \in 0 .. Len(in)
  BY EmptySeq, LenProperties
<1>2. Skip(in, Len(in)) = <<>>
  BY <1>1, SkipIs
<1>3. QED
  BY <1>1, <1>2, ConcatEmptySeq

-----------------------------------------------------------------------------
(***************************************************************************)
(* The digests.                                                            *)
(***************************************************************************)
DigestNames == {"hash", "adler32", "fletcher16", "fletcher32,be", "fletcher32,le"}

\* These codecs are the ones DigestCodecs defines.
OfDigests ==
  \A s : s.name \in DigestNames =>
    /\ Start(s) = DigestStart(s)
    /\ BufferSize(s) = DigestBufferSize(s)
    /\ \A in, room, fin : Transform(s, in, room, fin) = DigestTransform(s, in, room, fin)
    /\ \A in : Meaning(s, in) = DigestMeaning(s, in)

\* The hash functions return bytes.
HashesBytes == \A fed \in Seq(Nat) : \A k \in Nat : HashByte(fed, k) \in Nat

\* What is fixed of a hash function, by its settings.
LEMMA HashIs ==
  ASSUME OfDigests, NEW s, s.name = "hash"
  PROVE  /\ Start(s) = HashStart(s)
         /\ BufferSize(s) = s.chunk
         /\ \A in, room, fin : Transform(s, in, room, fin) = HashTransform(s, in, room, fin)
         /\ \A in : Meaning(s, in) = DigestMeaning(s, in)
<1>1. s.name \in DigestNames
  BY DEF DigestNames
<1>2. /\ Start(s) = DigestStart(s) /\ BufferSize(s) = DigestBufferSize(s)
      /\ \A in : Meaning(s, in) = DigestMeaning(s, in)
  BY <1>1 DEF OfDigests
<1>3. ASSUME NEW in, NEW room, NEW fin
      PROVE  Transform(s, in, room, fin) = HashTransform(s, in, room, fin)
  <2>1. Transform(s, in, room, fin) = DigestTransform(s, in, room, fin)
    BY <1>1 DEF OfDigests
  <2>2. QED
    BY <2>1 DEF DigestTransform
<1>4. QED
  BY <1>2, <1>3 DEF DigestStart, DigestBufferSize

\* The bytes of a result, in two pieces.
LEMMA HashBytesJoin ==
  ASSUME HashesBytes, NEW fed \in Seq(Nat), NEW first \in Nat, NEW n \in Nat, NEW last \in Nat,
         first + n - 1 <= last
  PROVE  /\ HashBytes(fed, first, first + n - 1) \in Seq(Nat)
         /\ Len(HashBytes(fed, first, first + n - 1)) = n
         /\ HashBytes(fed, first + n, last) \in Seq(Nat)
         /\ HashBytes(fed, first, last) =
              HashBytes(fed, first, first + n - 1) \o HashBytes(fed, first + n, last)
<1> DEFINE a == HashBytes(fed, first, first + n - 1)
           b == HashBytes(fed, first + n, last)
           c == HashBytes(fed, first, last)
           m == last - (first + n) + 1
<1>1. m \in Nat /\ last - first + 1 = n + m /\ first + n - 1 - first + 1 = n
  OBVIOUS
<1> HIDE DEF m
<1>2. /\ a = [i \in 1 .. n |-> HashByte(fed, first + i - 1)]
      /\ b = [i \in 1 .. m |-> HashByte(fed, first + n + i - 1)]
      /\ c = [i \in 1 .. n + m |-> HashByte(fed, first + i - 1)]
  BY <1>1 DEF HashBytes, m
<1> HIDE DEF a, b, c
<1>3. a \in [1 .. n -> Nat] /\ b \in [1 .. m -> Nat] /\ c \in [1 .. n + m -> Nat]
  <2>1. ASSUME NEW i \in 1 .. n + m PROVE HashByte(fed, first + i - 1) \in Nat
    <3>1. first + i - 1 \in Nat
      BY <1>1
    <3>2. QED
      BY <3>1 DEF HashesBytes
  <2>2. ASSUME NEW i \in 1 .. m PROVE HashByte(fed, first + n + i - 1) \in Nat
    <3>1. first + n + i - 1 \in Nat
      BY <1>1
    <3>2. QED
      BY <3>1 DEF HashesBytes
  <2>3. \A i \in 1 .. n : i \in 1 .. n + m
    BY <1>1
  <2>4. QED
    BY <1>2, <2>1, <2>2, <2>3
<1>4. /\ a \in Seq(Nat) /\ Len(a) = n
      /\ b \in Seq(Nat) /\ Len(b) = m
      /\ c \in Seq(Nat) /\ Len(c) = n + m
  <2>1. n + m \in Nat
    BY <1>1
  <2>2. QED
    BY <1>1, <1>3, <2>1, IsRow
<1>5. a \o b \in Seq(Nat) /\ Len(a \o b) = n + m
      /\ \A i \in 1 .. n + m : (a \o b)[i] = IF i <= n THEN a[i] ELSE b[i - n]
  BY <1>4, ConcatProperties
<1>6. ASSUME NEW i \in 1 .. n + m PROVE c[i] = (a \o b)[i]
  <2>1. CASE i <= n
    BY <1>2, <1>5, <2>1
  <2>2. CASE ~(i <= n)
    <3>1. i - n \in 1 .. m /\ first + n + (i - n) - 1 = first + i - 1
      BY <1>1, <2>2
    <3>2. QED
      BY <1>2, <1>5, <2>2, <3>1
  <2>3. QED
    BY <2>1, <2>2
<1>7. c = a \o b
  BY <1>4, <1>5, <1>6, SeqEqual
<1>8. QED
  BY <1>4, <1>7 DEF a, b, c

\* A hash function of `length' bytes, read in chunks, of which `left' are due.
HashAt(chunk, length, left, fed) ==
  [name |-> "hash", chunk |-> chunk, length |-> length, left |-> left, done |-> left = 0,
   fed |-> fed]

\* The last bytes of a result.
HashDue(length, left, fed) == HashBytes(fed, length - left + 1, length)
HashSays(length, left, fed, in) ==
  IF left # 0 THEN HashDue(length, left, fed \o in)
  ELSE IF in = <<>> THEN <<>> ELSE Malformed
HashCut(length, left, chunk, fed) == HashBytes(fed, length - left + 1, length - left + chunk)

\* What it means, and what it answers.
LEMMA HashMeans ==
  ASSUME OfDigests, HashesBytes, NEW chunk \in Nat \ {0}, NEW length \in Nat,
         NEW left \in 0 .. length, NEW fed \in Seq(Nat), NEW in \in Seq(Nat)
  PROVE  Meaning(HashAt(chunk, length, left, fed), in) = HashSays(length, left, fed, in)
<1> DEFINE s == HashAt(chunk, length, left, fed)
<1>1. /\ s.name = "hash" /\ s.chunk = chunk /\ s.length = length /\ s.left = left
      /\ (s.done <=> left = 0) /\ s.fed = fed
  BY DEF HashAt
<1> HIDE DEF s
<1>2. Meaning(s, in) = DigestMeaning(s, in)
  BY <1>1, HashIs
<1>3. QED
  BY <1>1, <1>2 DEF DigestMeaning, HashDue, HashSays, s

\* A hash function answers with the first chunk of what is due, and the rest is due then.
IsCut(length, left, chunk, fed) ==
  LET made == HashCut(length, left, chunk, fed)
      after == HashDue(length, left - chunk, fed)
  IN  /\ made \in Seq(Nat) /\ Len(made) = chunk
      /\ after \in Seq(Nat)
      /\ HashDue(length, left, fed) = made \o after
      /\ left = chunk => after = <<>>

\* It does.
LEMMA DueIsCut ==
  ASSUME HashesBytes, NEW length \in Nat, NEW left \in 0 .. length, NEW chunk \in 0 .. left,
         NEW fed \in Seq(Nat)
  PROVE  IsCut(length, left, chunk, fed)
<1> DEFINE first == length - left + 1
<1>1. /\ first \in Nat /\ chunk \in Nat /\ length \in Nat /\ first + chunk - 1 <= length
      /\ first + chunk - 1 = length - left + chunk /\ first + chunk = length - (left - chunk) + 1
  OBVIOUS
<1>2. left = chunk => HashDue(length, left - chunk, fed) = <<>>
  <2>1. SUFFICES ASSUME left = chunk PROVE HashDue(length, left - chunk, fed) = <<>>
    OBVIOUS
  <2>2. length - (length - (left - chunk) + 1) + 1 = 0
    BY <2>1
  <2>3. QED
    BY <2>2 DEF HashDue, HashBytes
<1> HIDE DEF first
<1>3. /\ HashBytes(fed, first, first + chunk - 1) \in Seq(Nat)
      /\ Len(HashBytes(fed, first, first + chunk - 1)) = chunk
      /\ HashBytes(fed, first + chunk, length) \in Seq(Nat)
      /\ HashBytes(fed, first, length) =
           HashBytes(fed, first, first + chunk - 1) \o HashBytes(fed, first + chunk, length)
  BY <1>1, HashBytesJoin, ZenonT(60)
<1>4. /\ HashDue(length, left, fed) = HashBytes(fed, first, length)
      /\ HashDue(length, left - chunk, fed) = HashBytes(fed, first + chunk, length)
  BY <1>1 DEF HashDue, first
<1>5. HashCut(length, left, chunk, fed) = HashBytes(fed, first, first + chunk - 1)
  BY <1>1 DEF HashCut, first
<1>6. QED
  BY <1>1, <1>2, <1>3, <1>4, <1>5 DEF IsCut

\* What is due are bytes.
LEMMA DueIsBytes ==
  ASSUME HashesBytes, NEW length \in Nat, NEW left \in 0 .. length, NEW fed \in Seq(Nat)
  PROVE  HashDue(length, left, fed) \in Seq(Nat)
<1>1. 0 \in 0 .. left /\ left - 0 = left
  OBVIOUS
<1>2. IsCut(length, left, 0, fed)
  BY <1>1, DueIsCut
<1>3. QED
  BY <1>1, <1>2 DEF IsCut

\* The fields of a hash function.
LEMMA HashMoves ==
  ASSUME NEW chunk, NEW length, NEW left, NEW fed, NEW x
  PROVE  /\ HashAt(chunk, length, left, fed).name = "hash"
         /\ HashAt(chunk, length, left, fed).chunk = chunk
         /\ HashAt(chunk, length, left, fed).length = length
         /\ HashAt(chunk, length, left, fed).left = left
         /\ HashAt(chunk, length, left, fed).fed = fed
         /\ HashAt(chunk, length, left, fed).done <=> (left = 0)
         /\ [HashAt(chunk, length, left, fed) EXCEPT !.fed = x] = HashAt(chunk, length, left, x)
<1>1. /\ HashAt(chunk, length, left, fed).name = "hash"
      /\ HashAt(chunk, length, left, fed).chunk = chunk
      /\ HashAt(chunk, length, left, fed).length = length
      /\ HashAt(chunk, length, left, fed).left = left
      /\ HashAt(chunk, length, left, fed).fed = fed
  BY DEF HashAt
<1>2. HashAt(chunk, length, left, fed).done <=> (left = 0)
  BY DEF HashAt
<1>3. [HashAt(chunk, length, left, fed) EXCEPT !.fed = x] = HashAt(chunk, length, left, x)
  BY DEF HashAt
<1>4. QED
  BY <1>1, <1>2, <1>3

\* d says that l is zero.
SaysZero(d, l) == d \in BOOLEAN /\ (d <=> l = 0)

\* It changes as HashTransform changes it.
TurnsInto(chunk, length, left, fed, x, l, d) ==
  [HashAt(chunk, length, left, fed) EXCEPT !.fed = x, !.left = l, !.done = d]
    = HashAt(chunk, length, l, x)

\* It does, when `done' is kept as it should be.
LEMMA HashTurns ==
  ASSUME NEW chunk, NEW length, NEW left, NEW fed, NEW x, NEW l, NEW d, SaysZero(d, l)
  PROVE  TurnsInto(chunk, length, left, fed, x, l, d)
<1> DEFINE r(n, e, f) ==
      [name |-> "hash", chunk |-> chunk, length |-> length, left |-> n, done |-> e, fed |-> f]
<1>1. PICK e : e = (left = 0)
  OBVIOUS
<1> d = (l = 0)
  BY DEF SaysZero
<1>2. HashAt(chunk, length, left, fed) = r(left, e, fed) /\ HashAt(chunk, length, l, x) = r(l, d, x)
  BY <1>1 DEF HashAt
<1>3. [r(left, e, fed) EXCEPT !.fed = x] = r(left, e, x)
  OBVIOUS
<1>4. [r(left, e, x) EXCEPT !.left = l] = r(l, e, x)
  OBVIOUS
<1>5. [r(l, e, x) EXCEPT !.done = d] = r(l, d, x)
  OBVIOUS
<1> HIDE DEF r
<1>6. ASSUME NEW s
      PROVE  [s EXCEPT !.fed = x, !.left = l, !.done = d]
               = [[[s EXCEPT !.fed = x] EXCEPT !.left = l] EXCEPT !.done = d]
  OBVIOUS
<1>7. QED
  BY <1>2, <1>3, <1>4, <1>5, <1>6, ZenonT(60) DEF TurnsInto

\* All its answers.
LEMMA HashAnswers ==
  ASSUME OfDigests, NEW chunk \in Nat \ {0}, NEW length \in Nat, NEW left \in 0 .. length,
         NEW fed, NEW in, NEW room \in Nat, NEW fin \in BOOLEAN, chunk <= room,
         left = 0 \/ chunk <= left
  PROVE  Transform(HashAt(chunk, length, left, fed), in, room, fin) =
           IF left = 0 THEN Ans(HashAt(chunk, length, left, fed), "StreamEnd", 0, <<>>)
           ELSE IF ~fin THEN Ans(HashAt(chunk, length, left, fed \o in), "Ok", Len(in), <<>>)
           ELSE Ans(HashAt(chunk, length, left - chunk, fed \o in),
                    IF left = chunk THEN "StreamEnd" ELSE "Ok", Len(in),
                    HashCut(length, left, chunk, fed \o in))
<1> DEFINE s == HashAt(chunk, length, left, fed)
           t == [s EXCEPT !.fed = fed \o in, !.left = @ - chunk, !.done = s.left = chunk]
           bytes == HashBytes(fed \o in, length - left + 1, length - left + chunk)
<1>1. /\ s.name = "hash" /\ s.chunk = chunk /\ s.length = length /\ s.left = left
      /\ (s.done <=> left = 0) /\ s.fed = fed
  BY HashMoves
<1>2. ASSUME NEW x PROVE [s EXCEPT !.fed = x] = HashAt(chunk, length, left, x)
  BY HashMoves
<1>3. t = HashAt(chunk, length, left - chunk, fed \o in)
  <2> DEFINE x == fed \o in
             l == left - chunk
  <2>1. PICK d : d = (s.left = chunk)
    OBVIOUS
  <2>2. d \in BOOLEAN /\ (d <=> s.left = chunk)
    BY <2>1
  <2> HIDE DEF s
  <2>3. s.left - chunk = l
    BY <1>1
  <2>4. s.left = chunk <=> l = 0
    BY <1>1
  <2> HIDE DEF l, x
  <2>5. SaysZero(d, l)
    BY <2>2, <2>4 DEF SaysZero
  <2>6. [s EXCEPT !.fed = x, !.left = l, !.done = d] = HashAt(chunk, length, l, x)
    <3>1. TurnsInto(chunk, length, left, fed, x, l, d)
      BY <2>5, HashTurns
    <3>2. QED
      BY <3>1 DEF TurnsInto, s
  <2>7. t = [s EXCEPT !.fed = x, !.left = l, !.done = d]
    BY <2>1, <2>3 DEF x
  <2>8. QED
    BY <2>6, <2>7 DEF x, l
<1>4. t.done <=> left = chunk
  <2>1. HashAt(chunk, length, left - chunk, fed \o in).done <=> (left - chunk = 0)
    BY HashMoves
  <2> HIDE DEF t
  <2>2. QED
    BY <1>3, <2>1
<1>5. Transform(s, in, room, fin) = HashTransform(s, in, room, fin)
  BY <1>1, HashIs
<1> HIDE DEF s, t
<1>6. CASE left = 0
  BY <1>1, <1>5, <1>6 DEF HashTransform, s
<1>7. CASE left # 0 /\ ~fin
  BY <1>1, <1>2, <1>5, <1>7 DEF HashTransform, s
<1>8. CASE left # 0 /\ fin
  <2>1. Smaller(left, chunk) = chunk /\ ~(room < chunk) /\ chunk - chunk = 0
        /\ length - left + 1 + chunk - 1 = length - left + chunk
    BY <1>8 DEF Smaller
  <2>2. bytes \o [i \in 1 .. 0 |-> Unwritten] = bytes
    <3>1. [i \in 1 .. 0 |-> Unwritten] = <<>>
      OBVIOUS
    <3>2. bytes = [i \in 1 .. length - left + chunk - (length - left + 1) + 1
                     |-> HashByte(fed \o in, length - left + 1 + i - 1)]
      BY DEF HashBytes
    <3>3. length - left + chunk - (length - left + 1) + 1 = chunk
      OBVIOUS
    <3>4. \E S : bytes \in Seq(S)
      <4> DEFINE S == {bytes[i] : i \in 1 .. chunk}
      <4>1. bytes \in [1 .. chunk -> S]
        BY <3>2, <3>3
      <4> HIDE DEF bytes, S
      <4>2. bytes \in Seq(S)
        BY <4>1, IsRow
      <4>3. QED
        BY <4>2
    <3>5. QED
      BY <3>1, <3>4, ConcatEmptySeq
  <2> HIDE DEF bytes
  <2>3. HashTransform(s, in, room, fin) =
          IF t.done THEN Ans(t, "StreamEnd", Len(in), bytes) ELSE Ans(t, "Ok", Len(in), bytes)
    BY <1>1, <1>8, <2>1, <2>2 DEF HashTransform, t, bytes
  <2>4. QED
    BY <1>3, <1>4, <1>5, <1>8, <2>3 DEF HashCut, s, bytes
<1>9. QED
  BY <1>6, <1>7, <1>8

\* So it does what Well asks, if it goes on to be one of S.
LEMMA HashWell ==
  ASSUME OfDigests, HashesBytes, NEW chunk \in Nat \ {0}, NEW length \in Nat,
         NEW left \in 0 .. length, left = 0 \/ chunk <= left,
         NEW size \in Nat, NEW room \in Nat, chunk <= room, NEW fed \in Seq(Nat), NEW S,
         \A some \in Seq(Nat) : /\ HashAt(chunk, length, left, some) \in S
                                /\ left # 0 => HashAt(chunk, length, left - chunk, some) \in S,
         NEW in \in Seq(Nat), NEW later \in Seq(Nat), NEW fin \in BOOLEAN,
         Shows(size, HashAt(chunk, length, left, fed), in, fin, later)
  PROVE  Well(S, size, room, HashAt(chunk, length, left, fed), in, fin, later)
<1> DEFINE s == HashAt(chunk, length, left, fed)
           answer == Transform(s, in, room, fin)
           rest == Meaning(answer.codec, Skip(in, answer.took) \o later)
           more == fed \o in
           all == in \o later
           due == HashDue(length, left, more \o later)
<1>1. /\ Meaning(s, all) # Malformed
      /\ fin => later = <<>>
      /\ ~fin => in # <<>>
  BY DEF Shows
<1>2. /\ all \in Seq(Nat) /\ more \in Seq(Nat) /\ more \o later \in Seq(Nat)
      /\ more \o later = fed \o all
  BY ConcatProperties, Joined
<1>3. Len(in) \in Nat /\ (in # <<>> => Len(in) > 0) /\ Skip(in, Len(in)) \o later = later
  BY SkipsAll
<1>4. <<>> \in Seq(Nat) /\ Len(<<>>) = 0
  BY EmptySeq
<1>5. answer = IF left = 0 THEN Ans(s, "StreamEnd", 0, <<>>)
               ELSE IF ~fin THEN Ans(HashAt(chunk, length, left, more), "Ok", Len(in), <<>>)
               ELSE Ans(HashAt(chunk, length, left - chunk, more),
                        IF left = chunk THEN "StreamEnd" ELSE "Ok", Len(in),
                        HashCut(length, left, chunk, more))
  BY HashAnswers
<1>6. SUFFICES
      /\ answer.made \in Seq(Nat)
      /\ Contract(answer.kind, answer.took, Len(answer.made), Len(in), room, size, {}, fin)
      /\ ~(answer.kind = "SeqError" /\ answer.took = 0 /\ fin)
      /\ Meaning(s, all) = answer.made \o rest
      /\ rest \in Seq(Nat)
      /\ answer.made = <<>> /\ (fin \/ answer.kind = "StreamEnd") => rest = <<>>
      /\ answer.codec \in S
  BY DEF Well
<1>7. \A any \in Seq(Nat) : Meaning(s, any) = HashSays(length, left, fed, any)
  BY HashMeans
<1>8. /\ left # 0 => Meaning(s, all) = due
      /\ left = 0 => /\ all = <<>>
                     /\ Meaning(s, <<>>) = <<>>
  <2>1. Meaning(s, all) = HashSays(length, left, fed, all)
    BY <1>2, <1>7
  <2>2. Meaning(s, <<>>) = HashSays(length, left, fed, <<>>)
    BY <1>4, <1>7
  <2> HIDE DEF s, all, more
  <2>3. QED
    BY <1>1, <1>2, <2>1, <2>2 DEF HashSays
<1>9. s \in S
  OBVIOUS
<1> HIDE DEF answer, s, more
<1>10. CASE left = 0
  <2>1. answer.codec = s /\ answer.kind = "StreamEnd" /\ answer.took = 0 /\ answer.made = <<>>
    BY <1>5, <1>10 DEF Ans
  <2>2. all = <<>>
    BY <1>8, <1>10
  <2>3. in = <<>> /\ later = <<>>
    BY <2>2, BothEmpty
  <2>4. Skip(in, 0) \o later = <<>>
    <3>1. 0 \in 0 .. Len(in) /\ Skip(in, 0) = in
      BY <1>3, SkipIs
    <3>2. QED
      BY <2>2, <3>1
  <2>5. rest = <<>>
    BY <1>8, <1>10, <2>1, <2>4
  <2>6. Contract("StreamEnd", 0, 0, Len(in), room, size, {}, fin)
    BY <1>1, <1>3, <2>3 DEF Contract, Kinds
  <2>7. <<>> \o <<>> = <<>>
    BY ConcatEmptySeq
  <2> HIDE DEF rest, all
  <2>8. QED
    BY <1>4, <1>8, <1>9, <1>10, <2>1, <2>2, <2>5, <2>6, <2>7
<1>11. CASE left # 0 /\ ~fin
  <2>1. /\ answer.codec = HashAt(chunk, length, left, more) /\ answer.kind = "Ok"
        /\ answer.took = Len(in) /\ answer.made = <<>>
    BY <1>5, <1>11 DEF Ans
  <2>2. rest = due
    <3>1. rest = Meaning(HashAt(chunk, length, left, more), later)
      BY <1>3, <2>1
    <3> HIDE DEF rest
    <3>2. Meaning(HashAt(chunk, length, left, more), later) = HashSays(length, left, more, later)
      BY <1>2, HashMeans
    <3>3. QED
      BY <1>11, <3>1, <3>2 DEF HashSays
  <2>3. due \in Seq(Nat)
    BY <1>2, DueIsBytes
  <2>4. answer.codec \in S
    BY <1>2, <2>1
  <2>5. <<>> \o due = due
    BY <2>3, ConcatEmptySeq
  <2>6. Contract("Ok", Len(in), 0, Len(in), room, size, {}, fin)
    BY <1>1, <1>3, <1>11 DEF Contract, Kinds
  <2> HIDE DEF rest, due, all
  <2>7. QED
    BY <1>4, <1>8, <1>11, <2>1, <2>2, <2>3, <2>4, <2>5, <2>6
<1>12. CASE left # 0 /\ fin
  <2> DEFINE made == HashCut(length, left, chunk, more)
             after == HashDue(length, left - chunk, more)
  <2>1. /\ answer.codec = HashAt(chunk, length, left - chunk, more)
        /\ answer.kind \in {"Ok", "StreamEnd"}
        /\ answer.took = Len(in) /\ answer.made = made
    BY <1>5, <1>12 DEF Ans
  <2>2. later = <<>> /\ more \o later = more
    BY <1>1, <1>2, <1>12, ConcatEmptySeq
  <2>3. left - chunk \in 0 .. length /\ chunk <= left /\ left - (left - chunk) = chunk
        /\ chunk \in 1 .. room /\ chunk \in 0 .. left
    BY <1>12
  <2>4. /\ made \in Seq(Nat) /\ Len(made) = chunk
        /\ after \in Seq(Nat)
        /\ HashDue(length, left, more) = made \o after
        /\ left = chunk => after = <<>>
    <3>1. IsCut(length, left, chunk, more)
      <4>1. more \in Seq(Nat)
        BY <1>2
      <4>2. QED
        BY <2>3, <4>1, DueIsCut
    <3>2. QED
      BY <3>1 DEF IsCut
  <2>5. rest = after
    <3>1. rest = Meaning(HashAt(chunk, length, left - chunk, more), <<>>)
      BY <1>3, <2>1, <2>2
    <3> DEFINE n == left - chunk
    <3>2. n \in 0 .. length /\ (n = 0 <=> left = chunk)
      BY <2>3
    <3> HIDE DEF n
    <3>3. \A any \in Seq(Nat) :
            Meaning(HashAt(chunk, length, n, more), any) = HashSays(length, n, more, any)
      BY <1>2, <3>2, HashMeans
    <3>4. HashSays(length, n, more, <<>>) = IF n # 0 THEN HashDue(length, n, more) ELSE <<>>
      BY <2>2 DEF HashSays
    <3> HIDE DEF rest
    <3>5. QED
      BY <1>4, <2>4, <3>1, <3>2, <3>3, <3>4 DEF n
  <2>6. answer.codec \in S
    BY <1>2, <1>12, <2>1
  <2>7. made # <<>>
    <3> HIDE DEF made
    <3>1. QED
      BY <2>3, <2>4, EmptySeq
  <2>8. Contract(answer.kind, Len(in), chunk, Len(in), room, size, {}, fin)
    BY <1>3, <1>12, <2>1, <2>3 DEF Contract, Kinds
  <2>9. due = HashDue(length, left, more)
    BY <2>2
  <2> HIDE DEF rest, made, after, due, all
  <2>10. QED
    BY <1>8, <1>12, <2>1, <2>4, <2>5, <2>6, <2>7, <2>8, <2>9
<1>13. QED
  BY <1>10, <1>11, <1>12

\* A hash function of whole chunks streams.
LEMMA HashStreams ==
  ASSUME OfDigests, HashesBytes, NEW s, s.name = "hash", s.chunk \in Nat \ {0},
         s.length \in Nat \ {0}, s.length % s.chunk = 0,
         NEW size \in Nat, NEW room \in Nat, s.chunk <= room
  PROVE  /\ StreamsAlone(At(Start(s), <<>>), size, room)
         /\ \A in \in Seq(Nat) : Meaning(Start(s), in) \in Seq(Nat)
<1> DEFINE chunk == s.chunk
           length == s.length
           m == length \div chunk
           S == {HashAt(chunk, length, chunk * p, some) : p \in 0 .. m, some \in Seq(Nat)}
<1>1. chunk \in Nat \ {0} /\ length \in Nat /\ m \in Nat /\ length = chunk * m
  <2>1. length = (chunk * m) + (length % chunk) /\ m \in Nat
    BY ModIs
  <2>2. chunk * m \in Nat
    BY <2>1
  <2>3. QED
    BY <2>1, <2>2
<1> HIDE DEF chunk, length, m
<1>2. ASSUME NEW p \in 0 .. m
      PROVE  /\ chunk * p \in 0 .. length /\ (chunk * p = 0 \/ chunk <= chunk * p)
             /\ chunk * p # 0 => p - 1 \in 0 .. m /\ chunk * (p - 1) = chunk * p - chunk
  <2>1. chunk * p \in Nat /\ chunk * (m - p) \in Nat /\ chunk * (m - p) = chunk * m - chunk * p
        /\ chunk * m \in Nat
    BY <1>1
  <2>2. chunk * (p - 1) = chunk * p - chunk /\ (p # 0 => chunk * (p - 1) \in Nat)
        /\ (p = 0 => chunk * p = 0)
    BY <1>1
  <2>3. QED
    BY <1>1, <2>1, <2>2
<1>3. ASSUME NEW p \in 0 .. m, NEW fed \in Seq(Nat), NEW in \in Seq(Nat), NEW later \in Seq(Nat),
             NEW fin \in BOOLEAN, Shows(size, HashAt(chunk, length, chunk * p, fed), in, fin, later)
      PROVE  Well(S, size, room, HashAt(chunk, length, chunk * p, fed), in, fin, later)
  <2> DEFINE left == chunk * p
  <2>1. left \in 0 .. length /\ (left = 0 \/ chunk <= left)
    BY <1>2
  <2>2. ASSUME NEW some \in Seq(Nat)
        PROVE  /\ HashAt(chunk, length, left, some) \in S
               /\ left # 0 => HashAt(chunk, length, left - chunk, some) \in S
    <3>1. left # 0 => HashAt(chunk, length, chunk * (p - 1), some) \in S
      BY <1>2
    <3>2. QED
      BY <1>2, <3>1
  <2>3. Shows(size, HashAt(chunk, length, left, fed), in, fin, later)
    BY <1>3
  <2>4. chunk <= room
    BY DEF chunk
  <2> HIDE DEF left, S
  <2>5. Well(S, size, room, HashAt(chunk, length, left, fed), in, fin, later)
    BY <1>1, <2>1, <2>2, <2>3, <2>4, HashWell, SMTT(30)
  <2>6. QED
    BY <2>5 DEF left
<1>4. AllWell(S, size, room)
  <2> HIDE DEF S
  <2>1. SUFFICES ASSUME NEW t \in S, NEW in \in Seq(Nat), NEW later \in Seq(Nat),
                        NEW fin \in BOOLEAN, Shows(size, t, in, fin, later)
        PROVE  Well(S, size, room, t, in, fin, later)
    BY DEF AllWell
  <2>2. PICK p \in 0 .. m, fed \in Seq(Nat) : t = HashAt(chunk, length, chunk * p, fed)
    BY DEF S
  <2>3. QED
    BY <1>3, <2>1, <2>2
<1>5. ASSUME NEW p \in 0 .. m, NEW fed \in Seq(Nat)
      PROVE  /\ BufferSize(HashAt(chunk, length, chunk * p, fed)) \in 0 .. room
             /\ \A in \in Seq(Nat) :
                  Meaning(HashAt(chunk, length, chunk * p, fed), in) \in Seq(Nat) \cup {Malformed}
  <2> DEFINE left == chunk * p
             t == HashAt(chunk, length, left, fed)
  <2>1. left \in 0 .. length
    BY <1>2
  <2> HIDE DEF left
  <2>2. t.name = "hash" /\ t.chunk = chunk
    BY HashMoves
  <2>3. BufferSize(t) = chunk
    BY <2>2, HashIs
  <2>4. chunk \in 0 .. room
    BY <1>1 DEF chunk
  <2>5. ASSUME NEW in \in Seq(Nat) PROVE Meaning(t, in) \in Seq(Nat) \cup {Malformed}
    <3>1. Meaning(t, in) = HashSays(length, left, fed, in)
      BY <1>1, <2>1, HashMeans
    <3> DEFINE all == fed \o in
    <3>2. all \in Seq(Nat) /\ <<>> \in Seq(Nat)
      BY ConcatProperties, EmptySeq
    <3> HIDE DEF all
    <3>3. HashDue(length, left, all) \in Seq(Nat)
      BY <1>1, <2>1, <3>2, DueIsBytes
    <3> HIDE DEF t
    <3>4. QED
      BY <3>1, <3>2, <3>3 DEF HashSays, all
  <2>6. QED
    BY <2>3, <2>4, <2>5 DEF left
<1>6. InRange(S, room)
  BY <1>5 DEF InRange
<1>7. Start(s) = HashAt(chunk, length, chunk * m, <<>>)
  <2>1. Start(s) = HashStart(s)
    BY HashIs
  <2>2. length # 0 /\ chunk * m = length
    BY <1>1 DEF length
  <2>3. HashAt(chunk, length, length, <<>>) = HashStart(s)
    BY <2>2 DEF HashAt, HashStart, chunk, length
  <2>4. QED
    BY <2>1, <2>2, <2>3
<1>8. Start(s) \in S
  <2>1. m \in 0 .. m /\ <<>> \in Seq(Nat)
    BY <1>1, EmptySeq
  <2>2. ASSUME NEW p \in 0 .. m, NEW fed \in Seq(Nat)
        PROVE  HashAt(chunk, length, chunk * p, fed) \in S
    OBVIOUS
  <2> HIDE DEF S
  <2>3. QED
    BY <1>7, <2>1, <2>2
<1>9. StreamsAlone(At(Start(s), <<>>), size, room)
  <2> HIDE DEF S
  <2>1. QED
    BY <1>4, <1>6, <1>8, WellStreams
<1>10. ASSUME NEW in \in Seq(Nat) PROVE Meaning(Start(s), in) \in Seq(Nat)
  <2> DEFINE t == HashAt(chunk, length, length, <<>>)
  <2>1. Start(s) = t /\ length \in 0 .. length /\ length # 0 /\ <<>> \in Seq(Nat)
    BY <1>1, <1>7, EmptySeq DEF length
  <2>2. \A fed \in Seq(Nat) :
          Meaning(HashAt(chunk, length, length, fed), in) = HashSays(length, length, fed, in)
    BY <1>1, <2>1, HashMeans
  <2>3. <<>> \o in = in
    BY ConcatEmptySeq
  <2>4. HashDue(length, length, in) \in Seq(Nat)
    BY <1>1, <2>1, DueIsBytes
  <2>5. QED
    BY <2>1, <2>2, <2>3, <2>4 DEF HashSays
<1>11. QED
  BY <1>9, <1>10

-----------------------------------------------------------------------------
(***************************************************************************)
(* Recursion that goes on from each value to the next one.                 *)
(***************************************************************************)
\* f goes from x on as g says.
Iterates(f, n, x, g) == f[0] = x /\ \A k \in 1 .. n : f[k] = g[k][f[k - 1]]

\* There is such a function.
LEMMA GoesOnSomehow ==
  ASSUME NEW V, NEW x \in V, NEW g \in [Nat -> [V -> V]], NEW n \in Nat
  PROVE  \E f \in [0 .. n -> V] : Iterates(f, n, x, g)
<1> DEFINE bad == {m \in Nat : ~ \E f \in [0 .. m -> V] : Iterates(f, m, x, g)}
<1>1. SUFFICES ASSUME bad # {} PROVE FALSE
  OBVIOUS
<1>2. bad \in SUBSET Nat
  OBVIOUS
<1>3. PICK m \in bad : \A i \in bad : m <= i
  BY <1>1, <1>2, HasLeast
<1>4. m # 0
  <2> DEFINE f == [k \in 0 .. 0 |-> x]
  <2>1. f \in [0 .. 0 -> V] /\ f[0] = x
    OBVIOUS
  <2> HIDE DEF f
  <2>2. Iterates(f, 0, x, g)
    <3>1. \A k \in 1 .. 0 : FALSE
      OBVIOUS
    <3>2. QED
      BY <2>1, <3>1 DEF Iterates
  <2>3. 0 \notin bad
    BY <2>1, <2>2
  <2>4. QED
    BY <1>3, <2>3
<1>5. m \in Nat /\ m - 1 \in Nat /\ m - 1 \notin bad
  BY <1>3, <1>4
<1>6. PICK f \in [0 .. m - 1 -> V] : Iterates(f, m - 1, x, g)
  BY <1>5
<1> DEFINE h == [k \in 0 .. m |-> IF k = m THEN g[m][f[m - 1]] ELSE f[k]]
<1>7. f[m - 1] \in V /\ g[m][f[m - 1]] \in V
  <2>1. m - 1 \in 0 .. m - 1
    BY <1>5
  <2>2. f[m - 1] \in V
    BY <2>1
  <2>3. g[m] \in [V -> V]
    BY <1>5
  <2>4. QED
    BY <2>2, <2>3
<1>8. h \in [0 .. m -> V]
  <2>1. ASSUME NEW k \in 0 .. m, k # m PROVE f[k] \in V
    <3>1. k \in 0 .. m - 1
      BY <1>5, <2>1
    <3>2. QED
      BY <3>1
  <2>2. QED
    BY <1>7, <2>1
<1>9. Iterates(h, m, x, g)
  <2>1. h[0] = x
    <3>1. 0 \in 0 .. m /\ 0 # m
      BY <1>4, <1>5
    <3>2. h[0] = f[0]
      BY <3>1
    <3>3. QED
      BY <1>6, <3>2 DEF Iterates
  <2>2. ASSUME NEW k \in 1 .. m PROVE h[k] = g[k][h[k - 1]]
    <3>1. k - 1 \in 0 .. m /\ k - 1 # m /\ k \in 0 .. m
      BY <1>5
    <3>2. h[k - 1] = f[k - 1]
      BY <3>1
    <3>3. CASE k = m
      BY <3>1, <3>2, <3>3
    <3>4. CASE k # m
      <4>1. k \in 1 .. m - 1
        BY <1>5, <3>4
      <4>2. f[k] = g[k][f[k - 1]]
        BY <1>6, <4>1 DEF Iterates
      <4>3. QED
        BY <3>1, <3>2, <3>4, <4>2
    <3>5. QED
      BY <3>3, <3>4
  <2> HIDE DEF h
  <2>3. QED
    BY <2>1, <2>2 DEF Iterates
<1> HIDE DEF h
<1>10. m \notin bad
  BY <1>8, <1>9
<1>11. QED
  BY <1>3, <1>10

\* Numbers that a modulus does not tell apart.
Same(x, y, m) == x % m = y % m

\* A number and what is left of it are the same.
LEMMA SameOnes ==
  ASSUME NEW m \in Nat \ {0}, NEW x \in Nat
  PROVE  Same(x, x, m) /\ Same(x % m, x, m) /\ Same(x, x % m, m) /\ x % m \in 0 .. m - 1
<1>1. x % m \in 0 .. m - 1
  BY ModIs
<1>2. (x % m) % m = x % m
  BY <1>1
<1>3. QED
  BY <1>1, <1>2 DEF Same

\* So are sums of such.
LEMMA SameSum ==
  ASSUME NEW m \in Nat \ {0}, NEW x \in Nat, NEW y \in Nat, NEW p \in Nat, NEW q \in Nat,
         Same(x, y, m), Same(p, q, m)
  PROVE  Same(x + p, y + q, m)
<1>1. PICK a \in Nat : x = m * a + (x % m) /\ x % m \in 0 .. m - 1
  BY ModIs
<1>2. PICK b \in Nat : y = m * b + (y % m)
  BY ModIs
<1>3. PICK c \in Nat : p = m * c + (p % m) /\ p % m \in 0 .. m - 1
  BY ModIs
<1>4. PICK d \in Nat : q = m * d + (q % m)
  BY ModIs
<1>5. PICK e \in Nat : x + p = m * e + ((x + p) % m) /\ (x + p) % m \in 0 .. m - 1
  <2>1. x + p \in Nat
    OBVIOUS
  <2>2. QED
    BY <2>1, ModIs
<1>6. PICK f \in Nat : y + q = m * f + ((y + q) % m) /\ (y + q) % m \in 0 .. m - 1
  <2>1. y + q \in Nat
    OBVIOUS
  <2>2. QED
    BY <2>1, ModIs
<1>7. x % m = y % m /\ p % m = q % m
  BY DEF Same
<1> DEFINE r == x % m
           s == p % m
           u == (x + p) % m
           v == (y + q) % m
<1>8. /\ x = m * a + r /\ y = m * b + r /\ p = m * c + s /\ q = m * d + s
      /\ x + p = m * e + u /\ y + q = m * f + v
      /\ r \in Nat /\ s \in Nat /\ u \in 0 .. m - 1 /\ v \in 0 .. m - 1
  BY <1>1, <1>2, <1>3, <1>4, <1>5, <1>6, <1>7
<1> HIDE DEF r, s, u, v
<1>9. m * (e - a - c) + u = m * (f - b - d) + v
  <2>1. /\ m * (e - a - c) = m * e - m * a - m * c
        /\ m * (f - b - d) = m * f - m * b - m * d
    OBVIOUS
  <2>2. /\ m * a \in Nat /\ m * b \in Nat /\ m * c \in Nat /\ m * d \in Nat
        /\ m * e \in Nat /\ m * f \in Nat
    OBVIOUS
  <2>3. QED
    BY <1>8, <2>1, <2>2
<1>10. u = v
  <2>1. e - a - c \in Int /\ f - b - d \in Int
    OBVIOUS
  <2>2. QED
    BY <1>8, <1>9, <2>1, ModUnique
<1>11. QED
  BY <1>10 DEF Same, u, v

\* f adds what w has to a.
Adding(f, n, a, w) == f \in [0 .. n -> Nat] /\ f[0] = a /\ \A k \in 1 .. n : f[k] = f[k - 1] + w[k]

WordsAre(w, n) == \A k \in 1 .. n : w[k] \in Nat
AddsUp(f, n, a, w) == f = [k \in 0 .. n |-> IF k = 0 THEN a ELSE f[k - 1] + w[k]]

\* There is such a function.
LEMMA AddsSomehow ==
  ASSUME NEW n \in Nat, NEW a \in Nat, NEW w, WordsAre(w, n)
  PROVE  \E f : AddsUp(f, n, a, w)
<1> DEFINE g == [k \in Nat |-> [x \in Nat |-> IF k \in 1 .. n THEN x + w[k] ELSE 0]]
<1>1. g \in [Nat -> [Nat -> Nat]]
  BY DEF WordsAre
<1>2. ASSUME NEW x \in Nat, NEW k \in 1 .. n PROVE g[k][x] = x + w[k]
  OBVIOUS
<1> HIDE DEF g
<1>3. PICK f \in [0 .. n -> Nat] : Iterates(f, n, a, g)
  BY <1>1, GoesOnSomehow
<1>4. ASSUME NEW k \in 1 .. n PROVE f[k] = f[k - 1] + w[k]
  <2>1. k - 1 \in 0 .. n
    OBVIOUS
  <2>2. f[k - 1] \in Nat
    BY <1>3, <2>1
  <2>3. QED
    BY <1>2, <1>3, <2>2 DEF Iterates
<1>5. f[0] = a
  BY <1>3 DEF Iterates
<1>6. \A k \in 0 .. n : f[k] = IF k = 0 THEN a ELSE f[k - 1] + w[k]
  <2>1. \A k \in 0 .. n : k # 0 => k \in 1 .. n
    OBVIOUS
  <2>2. QED
    BY <1>4, <1>5, <2>1
<1>7. AddsUp(f, n, a, w)
  BY <1>3, <1>6 DEF AddsUp
<1>8. QED
  BY <1>7

\* What is added to something else from some place on is the same as ever.
LEMMA AddingSame ==
  ASSUME NEW m \in Nat \ {0}, NEW n \in Nat, NEW a, NEW w, NEW f, Adding(f, n, a, w),
         NEW p \in Nat, NEW b, NEW v, NEW h, Adding(h, p, b, v),
         NEW q \in Nat, q + p <= n, Same(f[q], b, m),
         \A k \in 1 .. p : w[q + k] \in Nat /\ v[k] \in Nat /\ Same(w[q + k], v[k], m)
  PROVE  \A k \in 0 .. p : Same(f[q + k], h[k], m)
<1> DEFINE bad == {k \in 0 .. p : ~Same(f[q + k], h[k], m)}
<1>1. SUFFICES ASSUME bad # {} PROVE FALSE
  OBVIOUS
<1>2. bad \in SUBSET Nat
  OBVIOUS
<1>3. PICK k \in bad : \A i \in bad : k <= i
  BY <1>1, <1>2, HasLeast
<1>4. k # 0 /\ k \in 0 .. p
  <2>1. h[0] = b /\ q + 0 = q
    BY DEF Adding
  <2>2. QED
    BY <1>3, <2>1
<1>5. k - 1 \in 0 .. p /\ k \in 1 .. p /\ k - 1 \notin bad
  BY <1>3, <1>4
<1>6. Same(f[q + (k - 1)], h[k - 1], m)
  BY <1>5
<1>7. q + k \in 1 .. n /\ (q + k) - 1 = q + (k - 1) /\ q + (k - 1) \in 0 .. n
  BY <1>5
<1>8. f[q + k] = f[q + (k - 1)] + w[q + k] /\ h[k] = h[k - 1] + v[k]
  BY <1>5, <1>7 DEF Adding
<1>9. f[q + (k - 1)] \in Nat /\ h[k - 1] \in Nat
  BY <1>5, <1>7 DEF Adding
<1>10. w[q + k] \in Nat /\ v[k] \in Nat /\ Same(w[q + k], v[k], m)
  BY <1>5
<1> DEFINE x == f[q + (k - 1)]
           y == h[k - 1]
           c == w[q + k]
           d == v[k]
<1>11. x \in Nat /\ y \in Nat /\ c \in Nat /\ d \in Nat /\ Same(x, y, m) /\ Same(c, d, m)
  BY <1>6, <1>9, <1>10
<1> HIDE DEF x, y, c, d
<1>12. Same(x + c, y + d, m)
  BY <1>11, SameSum
<1>13. Same(f[q + k], h[k], m)
  BY <1>8, <1>12 DEF x, y, c, d
<1>14. QED
  BY <1>3, <1>13

-----------------------------------------------------------------------------
(***************************************************************************)
(* The checksums.                                                          *)
(***************************************************************************)
\* x and y are what the sums a and b come to with n words.
ComeTo(a, b, w, n, x, y, m) ==
  \E f, g : /\ Adding(f, n, a, w) /\ Adding(g, n, b, f)
            /\ x = f[n] % m /\ y = g[n] % m

\* u is a copy of w behind q.
Copies(u, n, w, q) == \A k \in 1 .. n : u[k] = w[q + k]

\* What the sums come to may be reached in two goes.
LEMMA ComeToJoin ==
  ASSUME NEW m \in Nat \ {0}, NEW n \in Nat, NEW p \in Nat, NEW w, WordsAre(w, n + p),
         NEW u, Copies(u, n, w, 0), NEW v, Copies(v, p, w, n),
         NEW a, NEW b, NEW x, NEW y, NEW xx, NEW yy, NEW xxx, NEW yyy,
         ComeTo(a, b, u, n, x, y, m), ComeTo(x, y, v, p, xx, yy, m),
         ComeTo(a, b, w, n + p, xxx, yyy, m)
  PROVE  xx = xxx /\ yy = yyy
<1>1. PICK f, g : /\ Adding(f, n + p, a, w) /\ Adding(g, n + p, b, f)
                  /\ xxx = f[n + p] % m /\ yyy = g[n + p] % m
  BY DEF ComeTo
<1>2. PICK ff, gg : /\ Adding(ff, n, a, u) /\ Adding(gg, n, b, ff)
                    /\ x = ff[n] % m /\ y = gg[n] % m
  BY DEF ComeTo
<1>3. PICK fff, ggg : /\ Adding(fff, p, x, v) /\ Adding(ggg, p, y, fff)
                      /\ xx = fff[p] % m /\ yy = ggg[p] % m
  BY DEF ComeTo
<1> DEFINE l == n + p
<1>4. /\ l \in Nat /\ 0 + n <= l /\ n + p <= l
      /\ \A k \in 1 .. n : k \in 0 .. n /\ 0 + k = k /\ k \in 1 .. l /\ k \in 0 .. l
      /\ \A k \in 1 .. p : n + k \in 1 .. l /\ n + k \in 0 .. l /\ k \in 0 .. p
      /\ 0 \in 0 .. l /\ n \in 0 .. l /\ n \in 0 .. n /\ p \in 0 .. p /\ 0 + n = n
  OBVIOUS
<1> HIDE DEF l
<1>5. /\ Adding(f, l, a, w) /\ Adding(g, l, b, f) /\ WordsAre(w, l)
      /\ xxx = f[l] % m /\ yyy = g[l] % m
  BY <1>1 DEF l
<1>6. f[0] \in Nat /\ f[0] = a /\ g[0] = b /\ g[0] \in Nat /\ ff[n] \in Nat /\ gg[n] \in Nat
  BY <1>2, <1>4, <1>5 DEF Adding
<1>7. \A k \in 0 .. n : Same(f[0 + k], ff[k], m)
  <2>1. Same(f[0], a, m)
    BY <1>6, SameOnes
  <2>2. \A k \in 1 .. n : w[0 + k] \in Nat /\ u[k] \in Nat /\ Same(w[0 + k], u[k], m)
    BY <1>4, <1>5, SameOnes DEF WordsAre, Copies
  <2>3. QED
    BY <1>2, <1>4, <1>5, <2>1, <2>2, AddingSame
<1>8. \A k \in 0 .. n : Same(g[0 + k], gg[k], m)
  <2>1. Same(g[0], b, m)
    BY <1>6, SameOnes
  <2>2. \A k \in 1 .. n : f[0 + k] \in Nat /\ ff[k] \in Nat /\ Same(f[0 + k], ff[k], m)
    BY <1>2, <1>4, <1>5, <1>7 DEF Adding
  <2>3. QED
    BY <1>2, <1>4, <1>5, <2>1, <2>2, AddingSame, SMTT(30)
<1>9. Same(f[n], x, m) /\ Same(g[n], y, m)
  <2>1. Same(f[n], ff[n], m) /\ Same(g[n], gg[n], m)
    BY <1>4, <1>7, <1>8
  <2>2. Same(ff[n], x, m) /\ Same(gg[n], y, m)
    BY <1>2, <1>6, SameOnes
  <2>3. QED
    BY <2>1, <2>2 DEF Same
<1>10. \A k \in 0 .. p : Same(f[n + k], fff[k], m)
  <2>1. \A k \in 1 .. p : w[n + k] \in Nat /\ v[k] \in Nat /\ Same(w[n + k], v[k], m)
    BY <1>4, <1>5, SameOnes DEF WordsAre, Copies
  <2>2. Adding(f, l, a, w) /\ Adding(fff, p, x, v) /\ Same(f[n], x, m) /\ l \in Nat /\ n + p <= l
    BY <1>3, <1>4, <1>5, <1>9
  <2>3. QED
    BY <2>1, <2>2, AddingSame
<1>11. \A k \in 0 .. p : Same(g[n + k], ggg[k], m)
  <2>1. \A k \in 1 .. p : f[n + k] \in Nat /\ fff[k] \in Nat /\ Same(f[n + k], fff[k], m)
    BY <1>3, <1>4, <1>5, <1>10 DEF Adding
  <2>2. QED
    BY <1>3, <1>4, <1>5, <1>9, <2>1, AddingSame, SMTT(30)
<1>12. QED
  BY <1>3, <1>4, <1>5, <1>10, <1>11 DEF Same, l

\* The checksums, and a checksum with its sums.
ChecksumNames == {"adler32", "fletcher16", "fletcher32,be", "fletcher32,le"}

SumAt(name, x, y, d) == [name |-> name, a |-> x, b |-> y, done |-> d]

\* What recursion adds is a function of numbers.
LEMMA AddsNumbers ==
  ASSUME NEW n \in Nat, NEW a \in Nat, NEW w, WordsAre(w, n), NEW f, AddsUp(f, n, a, w)
  PROVE  Adding(f, n, a, w) /\ \A k \in 0 .. n : f[k] \in Nat
<1>1. \A k \in 0 .. n : f[k] = IF k = 0 THEN a ELSE f[k - 1] + w[k]
  BY DEF AddsUp
<1>2. f[0] = a
  <2>1. 0 \in 0 .. n
    OBVIOUS
  <2>2. QED
    BY <1>1, <2>1
<1>3. \A k \in 1 .. n : f[k] = f[k - 1] + w[k]
  <2>1. \A k \in 1 .. n : k \in 0 .. n /\ k # 0
    OBVIOUS
  <2>2. QED
    BY <1>1, <2>1
<1>4. \A k \in 0 .. n : f[k] \in Nat
  <2> DEFINE bad == {k \in 0 .. n : f[k] \notin Nat}
  <2>1. SUFFICES ASSUME bad # {} PROVE FALSE
    OBVIOUS
  <2>2. bad \in SUBSET Nat
    OBVIOUS
  <2>3. PICK k \in bad : \A i \in bad : k <= i
    BY <2>1, <2>2, HasLeast
  <2>4. k # 0 /\ k \in 0 .. n
    BY <1>2, <2>3
  <2>5. k - 1 \in 0 .. n /\ k \in 1 .. n /\ k - 1 \notin bad
    BY <2>3, <2>4
  <2>6. f[k - 1] \in Nat /\ w[k] \in Nat
    BY <2>5 DEF WordsAre
  <2>7. QED
    BY <1>3, <2>3, <2>5, <2>6
<1>5. f \in [0 .. n -> Nat]
  BY <1>4 DEF AddsUp
<1>6. QED
  BY <1>2, <1>3, <1>4, <1>5 DEF Adding

\* The codec of a checksum, and what becomes of it.
SumTurns(name, x, y, d, p, q, e) ==
  /\ [SumAt(name, x, y, d) EXCEPT !.a = p, !.b = q] = SumAt(name, p, q, d)
  /\ [SumAt(name, x, y, d) EXCEPT !.done = e] = SumAt(name, x, y, e)

\* Its fields, and what becomes of it.
LEMMA SumIs ==
  ASSUME NEW name, NEW x, NEW y, NEW d
  PROVE  /\ SumAt(name, x, y, d).name = name
         /\ SumAt(name, x, y, d).a = x
         /\ SumAt(name, x, y, d).b = y
         /\ d \in BOOLEAN => (SumAt(name, x, y, d).done <=> d)
BY DEF SumAt

\* It changes as the definition says.
LEMMA SumMoves ==
  ASSUME NEW name, NEW x, NEW y, NEW d, NEW p, NEW q, NEW e
  PROVE  SumTurns(name, x, y, d, p, q, e)
<1> DEFINE r(i, j, k) == [name |-> name, a |-> i, b |-> j, done |-> k]
<1>1. SumAt(name, x, y, d) = r(x, y, d) /\ SumAt(name, p, q, d) = r(p, q, d)
      /\ SumAt(name, x, y, e) = r(x, y, e)
  BY DEF SumAt
<1>2. [r(x, y, d) EXCEPT !.a = p] = r(p, y, d)
  OBVIOUS
<1>3. [r(p, y, d) EXCEPT !.b = q] = r(p, q, d)
  OBVIOUS
<1>4. [r(x, y, d) EXCEPT !.done = e] = r(x, y, e)
  OBVIOUS
<1> HIDE DEF r
<1>5. ASSUME NEW s PROVE [s EXCEPT !.a = p, !.b = q] = [[s EXCEPT !.a = p] EXCEPT !.b = q]
  OBVIOUS
<1>6. QED
  BY <1>1, <1>2, <1>3, <1>4, <1>5 DEF SumTurns

\* The sums of some words, one by one.
SumStep(name, h, w, m, k) ==
  [h EXCEPT !.a = (@ + w[k]) % m, !.b = (@ + h.a + w[k]) % m]

\* One word more: what the two sums are, reduced, is what the unreduced ones come to.
StepsOn(name, f, g, w, m, k, d) ==
  SumStep(name, SumAt(name, f[k - 1] % m, g[k - 1] % m, d), w, m, k)
    = SumAt(name, f[k] % m, g[k] % m, d)

\* It is.
LEMMA SumStepIs ==
  ASSUME NEW name, NEW m \in Nat \ {0}, NEW n \in Nat, NEW a, NEW b, NEW w, NEW f, NEW g,
         WordsAre(w, n), Adding(f, n, a, w), Adding(g, n, b, f), NEW k \in 1 .. n, NEW d
  PROVE  StepsOn(name, f, g, w, m, k, d)
<1> DEFINE x == f[k - 1]
           y == g[k - 1]
           c == w[k]
           s == SumAt(name, x % m, y % m, d)
<1>1. k - 1 \in 0 .. n /\ k \in 0 .. n
  OBVIOUS
<1>2. x \in Nat /\ y \in Nat /\ c \in Nat
  BY <1>1 DEF Adding, WordsAre
<1>3. f[k] = x + c /\ g[k] = y + (x + c)
  BY <1>1 DEF Adding
<1> HIDE DEF x, y, c
<1> DEFINE p == x % m
           q == y % m
<1>4. p \in Nat /\ q \in Nat /\ Same(p, x, m) /\ Same(q, y, m) /\ Same(c, c, m)
  <2>1. x % m \in 0 .. m - 1 /\ Same(x % m, x, m)
    BY <1>2, SameOnes
  <2>2. y % m \in 0 .. m - 1 /\ Same(y % m, y, m)
    BY <1>2, SameOnes
  <2>3. Same(c, c, m)
    BY <1>2, SameOnes
  <2>4. p \in 0 .. m - 1 /\ q \in 0 .. m - 1 /\ Same(p, x, m) /\ Same(q, y, m)
    BY <2>1, <2>2
  <2> HIDE DEF p, q
  <2>5. QED
    BY <2>3, <2>4
<1> HIDE DEF p, q
<1>5. (p + c) % m = (x + c) % m /\ (q + p + c) % m = (y + (x + c)) % m
  <2>1. Same(p + c, x + c, m)
    BY <1>2, <1>4, SameSum
  <2>2. p + c \in Nat /\ x + c \in Nat /\ q + p + c = q + (p + c)
    BY <1>2, <1>4
  <2>3. Same(q + (p + c), y + (x + c), m)
    BY <1>2, <1>4, <2>1, <2>2, SameSum
  <2>4. QED
    BY <2>1, <2>2, <2>3 DEF Same
<1>6. s.a = p /\ s.b = q
  BY SumIs DEF p, q
<1> DEFINE i == (s.a + c) % m
           j == (s.b + s.a + c) % m
<1>7. i = (x + c) % m /\ j = (y + (x + c)) % m
  BY <1>5, <1>6
<1> HIDE DEF i, j
<1>8. [s EXCEPT !.a = i, !.b = j] = SumAt(name, i, j, d)
  <2>1. SumTurns(name, p, q, d, i, j, d)
    BY SumMoves
  <2>2. [SumAt(name, p, q, d) EXCEPT !.a = i, !.b = j] = SumAt(name, i, j, d)
    BY <2>1 DEF SumTurns
  <2>3. QED
    BY <2>2 DEF p, q
<1>9. SumStep(name, s, w, m, k) = [s EXCEPT !.a = i, !.b = j]
  BY DEF SumStep, i, j, c
<1>10. QED
  BY <1>3, <1>7, <1>8, <1>9 DEF x, y, StepsOn

\* Arithmetic.
LEMMA ModSmall ==
  ASSUME NEW m \in Nat \ {0}, NEW a \in 0 .. m - 1
  PROVE  a % m = a
OBVIOUS

\* Halves, rounded up.
LEMMA Halves ==
  ASSUME NEW n \in Nat, NEW h \in Nat
  PROVE  /\ (n + 1) \div 2 \in Nat
         /\ n % 2 = 0 => n = 2 * ((n + 1) \div 2)
         /\ (2 * h + n + 1) \div 2 = h + ((n + 1) \div 2)
OBVIOUS

\* The words of bytes.
Word(name, x, y) == IF name = "fletcher32,le" THEN x + 256 * y ELSE 256 * x + y
WordCount(name, n) == IF InputSize(name) = 1 THEN n ELSE (n + 1) \div 2

\* The words are as many, and numbers.
LEMMA WordsOf ==
  ASSUME NEW name \in ChecksumNames, NEW in \in Seq(Nat)
  PROVE  /\ Len(Words(name, in)) = WordCount(name, Len(in))
         /\ WordCount(name, Len(in)) \in Nat
         /\ WordsAre(Words(name, in), WordCount(name, Len(in)))
<1>1. Len(in) \in Nat /\ \A i \in 1 .. Len(in) : in[i] \in Nat
  BY LenProperties, ElementOfSeq
<1>2. InputSize(name) \in {1, 2}
  BY DEF InputSize
<1>3. CASE InputSize(name) = 1
  BY <1>1, <1>3 DEF Words, WordCount, WordsAre
<1>4. CASE InputSize(name) = 2
  <2> DEFINE n == (Len(in) + 1) \div 2
             byte(i) == IF i <= Len(in) THEN in[i] ELSE 0
             word(k) == Word(name, byte(2 * k - 1), byte(2 * k))
  <2>1. n \in Nat /\ WordCount(name, Len(in)) = n
    BY <1>1, <1>4 DEF WordCount
  <2>2. Words(name, in) = [k \in 1 .. n |-> word(k)]
    BY <1>4 DEF Words, Word
  <2>3. ASSUME NEW k \in 1 .. n PROVE word(k) \in Nat
    <3>1. 2 * k - 1 \in Nat \ {0} /\ 2 * k \in Nat \ {0}
      OBVIOUS
    <3>2. \A i \in Nat \ {0} : byte(i) \in Nat
      BY <1>1
    <3> HIDE DEF byte
    <3>3. byte(2 * k - 1) \in Nat /\ byte(2 * k) \in Nat
      BY <3>1, <3>2
    <3>4. ASSUME NEW x \in Nat, NEW y \in Nat PROVE Word(name, x, y) \in Nat
      <4>1. x + 256 * y \in Nat /\ 256 * x + y \in Nat
        OBVIOUS
      <4>2. QED
        BY <4>1 DEF Word
    <3>5. QED
      BY <3>3, <3>4
  <2> HIDE DEF n, word
  <2>4. [k \in 1 .. n |-> word(k)] \in [1 .. n -> Nat]
    BY <2>3
  <2>5. Len(Words(name, in)) = n
    BY <2>1, <2>2, <2>4, IsRow
  <2>6. QED
    BY <2>1, <2>2, <2>3, <2>5 DEF WordsAre
<1>5. QED
  BY <1>2, <1>3, <1>4

\* The words of two inputs, of which the first one ends with a whole word.
LEMMA WordsJoin ==
  ASSUME NEW name \in ChecksumNames, NEW p \in Seq(Nat), NEW q \in Seq(Nat),
         Len(p) % InputSize(name) = 0
  PROVE  /\ WordCount(name, Len(p \o q)) = WordCount(name, Len(p)) + WordCount(name, Len(q))
         /\ Copies(Words(name, p), WordCount(name, Len(p)), Words(name, p \o q), 0)
         /\ Copies(Words(name, q), WordCount(name, Len(q)),
                    Words(name, p \o q), WordCount(name, Len(p)))
<1> DEFINE all == p \o q
<1>1. /\ all \in Seq(Nat) /\ Len(all) = Len(p) + Len(q) /\ Len(p) \in Nat /\ Len(q) \in Nat
      /\ \A i \in 1 .. Len(p) : all[i] = p[i]
      /\ \A i \in 1 .. Len(q) : all[Len(p) + i] = q[i]
  BY ConcatProperties, LenProperties
<1>2. InputSize(name) \in {1, 2}
  BY DEF InputSize
<1> HIDE DEF all
<1>3. CASE InputSize(name) = 1
  <2>1. /\ Words(name, p) = p /\ Words(name, q) = q /\ Words(name, all) = all
        /\ WordCount(name, Len(p)) = Len(p) /\ WordCount(name, Len(q)) = Len(q)
        /\ WordCount(name, Len(all)) = Len(all)
    BY <1>3 DEF Words, WordCount
  <2>2. Copies(Words(name, p), WordCount(name, Len(p)), Words(name, all), 0)
    <3>1. \A i \in 1 .. Len(p) : 0 + i = i
      BY <1>1
    <3>2. QED
      BY <1>1, <2>1, <3>1 DEF Copies
  <2>3. QED
    BY <1>1, <2>1, <2>2 DEF Copies, all
<1>4. CASE InputSize(name) = 2
  <2> DEFINE byte(in, i) == IF i <= Len(in) THEN in[i] ELSE 0
             word(in, k) == Word(name, byte(in, 2 * k - 1), byte(in, 2 * k))
             count(in) == (Len(in) + 1) \div 2
             h == count(p)
  <2>1. \A in : /\ Words(name, in) = [k \in 1 .. count(in) |-> word(in, k)]
               /\ WordCount(name, Len(in)) = count(in)
    BY <1>4 DEF Words, WordCount, Word
  <2>2. h \in Nat /\ Len(p) = 2 * h
    <3>1. Len(p) % 2 = 0
      BY <1>4
    <3>2. QED
      BY <1>1, <3>1, Halves
  <2>3. count(all) = h + count(q) /\ count(q) \in Nat
    <3> DEFINE l == Len(q)
               k == Len(all)
    <3>1. l \in Nat /\ k = 2 * h + l
      BY <1>1, <2>2
    <3> HIDE DEF l, k, h
    <3>2. (l + 1) \div 2 \in Nat /\ (k + 1) \div 2 = h + ((l + 1) \div 2)
      BY <2>2, <3>1, Halves
    <3>3. QED
      BY <3>2 DEF l, k
  <2>4. ASSUME NEW i \in 1 .. Len(p) PROVE byte(p, i) = byte(all, i)
    BY <1>1
  <2>5. ASSUME NEW i \in Nat \ {0} PROVE byte(q, i) = byte(all, Len(p) + i)
    <3>1. CASE i <= Len(q)
      BY <1>1, <3>1
    <3>2. CASE ~(i <= Len(q))
      BY <1>1, <3>2
    <3>3. QED
      BY <3>1, <3>2
  <2> HIDE DEF h, byte
  <2>6. ASSUME NEW k \in 1 .. h PROVE word(p, k) = word(all, k)
    <3>1. 2 * k - 1 \in 1 .. Len(p) /\ 2 * k \in 1 .. Len(p)
      BY <2>2
    <3>2. QED
      BY <2>4, <3>1
  <2>7. ASSUME NEW k \in 1 .. count(q) PROVE word(q, k) = word(all, h + k)
    <3>1. 2 * k - 1 \in Nat \ {0} /\ 2 * k \in Nat \ {0}
      OBVIOUS
    <3>2. Len(p) + (2 * k - 1) = 2 * (h + k) - 1 /\ Len(p) + 2 * k = 2 * (h + k)
      BY <2>2
    <3>3. QED
      BY <2>5, <3>1, <3>2
  <2> HIDE DEF word, count
  <2>8. Copies(Words(name, p), h, Words(name, all), 0)
    <3>1. \A k \in 1 .. h : 0 + k = k /\ k \in 1 .. count(all)
      BY <2>2, <2>3
    <3>2. ASSUME NEW k \in 1 .. h PROVE Words(name, p)[k] = Words(name, all)[0 + k]
      <4>1. k \in 1 .. count(p) /\ k \in 1 .. count(all) /\ 0 + k = k
        BY <3>1 DEF h
      <4>2. Words(name, p)[k] = word(p, k) /\ Words(name, all)[k] = word(all, k)
        BY <2>1, <4>1
      <4>3. QED
        BY <2>6, <4>1, <4>2
    <3>3. QED
      BY <3>2 DEF Copies
  <2>9. Copies(Words(name, q), count(q), Words(name, all), h)
    <3>1. \A k \in 1 .. count(q) : h + k \in 1 .. count(all)
      BY <2>2, <2>3
    <3>2. ASSUME NEW k \in 1 .. count(q) PROVE Words(name, q)[k] = Words(name, all)[h + k]
      <4>1. Words(name, q)[k] = word(q, k) /\ Words(name, all)[h + k] = word(all, h + k)
        BY <2>1, <3>1
      <4>2. QED
        BY <2>7, <4>1
    <3>3. QED
      BY <3>2 DEF Copies
  <2>10. /\ WordCount(name, Len(p)) = h /\ WordCount(name, Len(q)) = count(q)
         /\ WordCount(name, Len(all)) = count(all)
    BY <2>1 DEF h
  <2>11. QED
    BY <2>3, <2>8, <2>9, <2>10 DEF all
<1>5. QED
  BY <1>2, <1>3, <1>4

\* The sums come to x and y, and that is what is kept, and what is meant.
SumsTo(name, a, b, in, x, y) ==
  ComeTo(a, b, Words(name, in), Len(Words(name, in)), x, y, Modulus(name))

Summed(name, a, b, d, in, x, y) ==
  /\ SumsTo(name, a, b, in, x, y)
  /\ ChecksumMeaning(SumAt(name, a, b, d), in) = Result(name, x, y)
  /\ Sums(SumAt(name, a, b, d), in) = SumAt(name, x, y, d)

\* The sums of the words of an input, which is what the checksum means and what
\* Hash::input leaves.
LEMMA SumsAre ==
  ASSUME NEW name \in ChecksumNames, NEW a, NEW b, NEW d, NEW in \in Seq(Nat),
         NEW m \in Nat \ {0}, m = Modulus(name), a \in 0 .. m - 1, b \in 0 .. m - 1
  PROVE  \E x, y \in 0 .. m - 1 : Summed(name, a, b, d, in, x, y)
<1> DEFINE w == Words(name, in)
           n == Len(w)
           s == SumAt(name, a, b, d)
           first == CHOOSE f : AddsUp(f, n, a, w)
           second == CHOOSE g : AddsUp(g, n, b, first)
<1>1. n \in Nat /\ WordsAre(w, n) /\ a \in Nat /\ b \in Nat
  BY WordsOf
<1>2. s.name = name /\ s.a = a /\ s.b = b
  BY SumIs
<1>3. ChecksumMeaning(s, in) = Result(name, first[n] % m, second[n] % m)
  BY <1>2 DEF ChecksumMeaning, AddsUp
<1> HIDE DEF w, n, s
<1>4. AddsUp(first, n, a, w)
  BY <1>1, AddsSomehow
<1> HIDE DEF first
<1>5. Adding(first, n, a, w) /\ \A k \in 0 .. n : first[k] \in Nat
  BY <1>1, <1>4, AddsNumbers
<1>6. WordsAre(first, n)
  BY <1>5 DEF WordsAre
<1>7. AddsUp(second, n, b, first)
  BY <1>1, <1>6, AddsSomehow
<1> HIDE DEF second
<1>8. Adding(second, n, b, first) /\ \A k \in 0 .. n : second[k] \in Nat
  BY <1>1, <1>6, <1>7, AddsNumbers
<1> DEFINE x == first[n] % m
           y == second[n] % m
           at(k) == SumAt(name, first[k] % m, second[k] % m, d)
           sums == CHOOSE h : h = [k \in 0 .. n |->
                                  IF k = 0 THEN s ELSE SumStep(name, h[k - 1], w, m, k)]
<1>9. Sums(s, in) = sums[n]
  BY <1>2 DEF Sums, SumStep, w, n
<1>10. at(0) = s
  <2>1. first[0] = a /\ second[0] = b
    BY <1>5, <1>8 DEF Adding
  <2>2. a % m = a /\ b % m = b
    BY ModSmall
  <2>3. QED
    BY <2>1, <2>2 DEF s
<1>11. \A k \in 1 .. n : at(k) = SumStep(name, at(k - 1), w, m, k)
  <2>1. ASSUME NEW k \in 1 .. n PROVE at(k) = SumStep(name, at(k - 1), w, m, k)
    <3>1. StepsOn(name, first, second, w, m, k, d)
      BY <1>1, <1>5, <1>8, SumStepIs
    <3>2. QED
      BY <3>1 DEF StepsOn
  <2> HIDE DEF at
  <2>2. QED
    BY <2>1
<1> HIDE DEF at
<1>12. sums = [k \in 0 .. n |-> IF k = 0 THEN s ELSE SumStep(name, sums[k - 1], w, m, k)]
  <2> DEFINE h == [k \in 0 .. n |-> at(k)]
  <2>1. ASSUME NEW k \in 0 .. n, k # 0 PROVE h[k] = SumStep(name, h[k - 1], w, m, k)
    <3>1. k \in 1 .. n /\ k - 1 \in 0 .. n
      BY <1>1, <2>1
    <3>2. h[k] = at(k) /\ h[k - 1] = at(k - 1)
      BY <3>1
    <3>3. QED
      BY <1>11, <3>1, <3>2
  <2>2. 0 \in 0 .. n => h[0] = s
    BY <1>10
  <2>3. h = [k \in 0 .. n |-> h[k]]
    OBVIOUS
  <2> HIDE DEF h
  <2>4. h = [k \in 0 .. n |-> IF k = 0 THEN s ELSE SumStep(name, h[k - 1], w, m, k)]
    BY <2>1, <2>2, <2>3
  <2>5. QED
    BY <2>4
<1> HIDE DEF sums
<1>13. sums[n] = at(n)
  <2> DEFINE bad == {k \in 0 .. n : sums[k] # at(k)}
  <2>1. SUFFICES ASSUME bad # {} PROVE FALSE
    BY <1>1
  <2>2. bad \in SUBSET Nat
    OBVIOUS
  <2>3. PICK k \in bad : \A i \in bad : k <= i
    BY <2>1, <2>2, HasLeast
  <2>4. \A i \in 0 .. n : sums[i] = IF i = 0 THEN s ELSE SumStep(name, sums[i - 1], w, m, i)
    BY <1>12
  <2>5. k # 0 /\ k \in 0 .. n
    BY <1>10, <2>3, <2>4
  <2>6. k - 1 \in 0 .. n /\ k \in 1 .. n /\ k - 1 \notin bad
    BY <1>1, <2>2, <2>3, <2>5
  <2>7. sums[k - 1] = at(k - 1)
    BY <2>6
  <2>8. sums[k] = at(k)
    BY <1>11, <2>4, <2>5, <2>6, <2>7
  <2>9. QED
    BY <2>3, <2>8
<1>14. x \in 0 .. m - 1 /\ y \in 0 .. m - 1
  <2>1. n \in 0 .. n
    BY <1>1
  <2>2. first[n] \in Nat /\ second[n] \in Nat
    BY <1>5, <1>8, <2>1
  <2>3. QED
    BY <2>2, ModIs
<1>15. SumsTo(name, a, b, in, x, y)
  BY <1>5, <1>8 DEF SumsTo, ComeTo, w, n
<1> HIDE DEF x, y
<1>16. Sums(s, in) = SumAt(name, x, y, d)
  BY <1>9, <1>13 DEF at, x, y
<1>17. ChecksumMeaning(s, in) = Result(name, x, y)
  BY <1>3 DEF x, y
<1>18. QED
  BY <1>14, <1>15, <1>16, <1>17 DEF s, Summed

\* The sums go on from where they were.
SumsGoOn(name, a, b, d, p, q, x, y) ==
  /\ Sums(SumAt(name, a, b, d), p) = SumAt(name, x, y, d)
  /\ ChecksumMeaning(SumAt(name, a, b, d), p \o q) = ChecksumMeaning(SumAt(name, x, y, d), q)

\* The sums of p and then q are those of the two together, when p has whole words.
LEMMA ChecksumGoesOn ==
  ASSUME NEW name \in ChecksumNames, NEW m \in Nat \ {0}, m = Modulus(name),
         NEW a \in 0 .. m - 1, NEW b \in 0 .. m - 1, NEW d,
         NEW p \in Seq(Nat), NEW q \in Seq(Nat), Len(p) % InputSize(name) = 0
  PROVE  \E x, y \in 0 .. m - 1 : SumsGoOn(name, a, b, d, p, q, x, y)
<1> DEFINE all == p \o q
           n == WordCount(name, Len(p))
           l == WordCount(name, Len(q))
<1>1. all \in Seq(Nat)
  BY ConcatProperties
<1>2. \A in \in Seq(Nat) : /\ Len(Words(name, in)) = WordCount(name, Len(in))
                           /\ WordCount(name, Len(in)) \in Nat
                           /\ WordsAre(Words(name, in), WordCount(name, Len(in)))
  BY WordsOf
<1>3. /\ WordCount(name, Len(all)) = n + l
      /\ Copies(Words(name, p), n, Words(name, all), 0)
      /\ Copies(Words(name, q), l, Words(name, all), n)
  BY WordsJoin
<1> HIDE DEF all, n, l
<1>4. PICK x, y \in 0 .. m - 1 :
        /\ SumsTo(name, a, b, p, x, y)
        /\ Sums(SumAt(name, a, b, d), p) = SumAt(name, x, y, d)
  <2>1. PICK x, y \in 0 .. m - 1 : Summed(name, a, b, d, p, x, y)
    BY SumsAre
  <2>2. QED
    BY <2>1 DEF Summed
<1>5. PICK xx, yy \in 0 .. m - 1 :
        /\ SumsTo(name, x, y, q, xx, yy)
        /\ ChecksumMeaning(SumAt(name, x, y, d), q) = Result(name, xx, yy)
  <2>1. PICK xx, yy \in 0 .. m - 1 : Summed(name, x, y, d, q, xx, yy)
    BY SumsAre
  <2>2. QED
    BY <2>1 DEF Summed
<1>6. PICK xxx, yyy \in 0 .. m - 1 :
        /\ SumsTo(name, a, b, all, xxx, yyy)
        /\ ChecksumMeaning(SumAt(name, a, b, d), all) = Result(name, xxx, yyy)
  <2>1. PICK xxx, yyy \in 0 .. m - 1 : Summed(name, a, b, d, all, xxx, yyy)
    BY <1>1, SumsAre
  <2>2. QED
    BY <2>1 DEF Summed
<1>7. xx = xxx /\ yy = yyy
  <2> DEFINE u == Words(name, p)
             v == Words(name, q)
             w == Words(name, all)
  <2>1. n \in Nat /\ l \in Nat /\ WordsAre(w, n + l)
    BY <1>1, <1>2, <1>3 DEF n, l
  <2>2. ComeTo(a, b, u, n, x, y, m)
    BY <1>2, <1>4 DEF SumsTo, n
  <2>3. ComeTo(x, y, v, l, xx, yy, m)
    BY <1>2, <1>5 DEF SumsTo, l
  <2>4. ComeTo(a, b, w, n + l, xxx, yyy, m)
    BY <1>1, <1>2, <1>3, <1>6 DEF SumsTo
  <2>5. Copies(u, n, w, 0) /\ Copies(v, l, w, n)
    BY <1>3
  <2> HIDE DEF u, v, w
  <2>6. QED
    BY <2>1, <2>2, <2>3, <2>4, <2>5, ComeToJoin
<1>8. QED
  BY <1>4, <1>5, <1>6, <1>7 DEF all, SumsGoOn

\* An answer that is well: the codec becomes t, and the rest of its input means `rest'.
GoodReply(size, room, s, in, fin, later, t, kind, took, made, rest) ==
  /\ Transform(s, in, room, fin) = Ans(t, kind, took, made)
  /\ made \in Seq(Nat)
  /\ Contract(kind, took, Len(made), Len(in), room, size, {}, fin)
  /\ ~(kind = "SeqError" /\ took = 0 /\ fin)
  /\ Meaning(t, Skip(in, took) \o later) = rest
  /\ Meaning(s, in \o later) = made \o rest
  /\ rest \in Seq(Nat)
  /\ made = <<>> /\ (fin \/ kind = "StreamEnd") => rest = <<>>

\* An answer that is what Well asks.
LEMMA WellAnswer ==
  ASSUME NEW S, NEW size, NEW room, NEW s, NEW in, NEW later, NEW fin, NEW t \in S, NEW kind,
         NEW took, NEW made, NEW rest,
         GoodReply(size, room, s, in, fin, later, t, kind, took, made, rest)
  PROVE  Well(S, size, room, s, in, fin, later)
<1> DEFINE answer == Transform(s, in, room, fin)
<1>1. answer = Ans(t, kind, took, made)
  BY DEF GoodReply
<1>2. answer.codec = t /\ answer.kind = kind /\ answer.took = took /\ answer.made = made
  BY <1>1, AnsIs
<1> HIDE DEF answer
<1>3. QED
  BY <1>2 DEF Well, GoodReply, answer

\* What is fixed of a checksum, by its settings.
LEMMA ChecksumIs ==
  ASSUME OfDigests, NEW s, s.name \in ChecksumNames
  PROVE  /\ Start(s) = ChecksumStart(s)
         /\ BufferSize(s) = OutputSize(s.name)
         /\ \A in, room, fin : Transform(s, in, room, fin) = ChecksumTransform(s, in, room, fin)
         /\ \A in : Meaning(s, in) = DigestMeaning(s, in)
<1>1. s.name \in DigestNames /\ s.name # "hash"
  BY DEF DigestNames, ChecksumNames
<1>2. QED
  BY <1>1 DEF OfDigests, DigestStart, DigestBufferSize, DigestTransform

\* The result of a checksum.
LEMMA ResultIs ==
  ASSUME NEW name \in ChecksumNames, NEW x \in Nat, NEW y \in Nat
  PROVE  /\ Result(name, x, y) \in Seq(Nat)
         /\ Len(Result(name, x, y)) = OutputSize(name)
         /\ OutputSize(name) \in Nat \ {0} /\ InputSize(name) \in Nat \ {0}
         /\ Modulus(name) \in Nat \ {0, 1}
<1>1. x \div 256 \in Nat /\ x % 256 \in Nat /\ y \div 256 \in Nat /\ y % 256 \in Nat
  OBVIOUS
<1>2. /\ OutputSize(name) \in Nat \ {0} /\ InputSize(name) \in Nat \ {0}
      /\ Modulus(name) \in Nat \ {0, 1}
  <2>1. OutputSize(name) \in {2, 4} /\ InputSize(name) \in {1, 2}
    BY DEF OutputSize, InputSize
  <2>2. Modulus(name) \in {65521, 255, 65535}
    BY DEF Modulus
  <2>3. QED
    BY <2>1, <2>2
<1>3. CASE name = "fletcher16"
  BY <1>2, <1>3 DEF Result, OutputSize
<1>4. CASE name # "fletcher16"
  <2> DEFINE i == x \div 256
             j == x % 256
             k == y \div 256
             l == y % 256
  <2>1. i \in Nat /\ j \in Nat /\ k \in Nat /\ l \in Nat
    BY <1>1
  <2>2. Result(name, x, y) = <<k, l, i, j>> /\ OutputSize(name) = 4
    BY <1>4 DEF Result, OutputSize
  <2> HIDE DEF i, j, k, l
  <2>3. QED
    BY <1>2, <2>1, <2>2
<1>5. QED
  BY <1>3, <1>4

\* What is left of a sum.
LEMMA RestIs ==
  ASSUME NEW L \in Nat \ {0}, NEW k \in Nat, NEW r \in 0 .. L - 1
  PROVE  (L * k + r) % L = r
OBVIOUS

\* Nothing is left of a multiple.
LEMMA NoRest ==
  ASSUME NEW L \in Nat \ {0}, NEW k \in Nat
  PROVE  (L * k) % L = 0
<1>1. PICK z \in 0 .. L - 1 : z = 0
  OBVIOUS
<1>2. (L * k + z) % L = z
  BY RestIs
<1>3. L * k + z = L * k
  BY <1>1
<1>4. QED
  BY <1>1, <1>2, <1>3

\* The greatest multiple up to a number.
LEMMA WholeBlocks ==
  ASSUME NEW L \in Nat \ {0}, NEW l \in Nat, NEW n, n = l - (l % L)
  PROVE  n \in 0 .. l /\ n % L = 0 /\ n = L * (l \div L) /\ (L <= l => n > 0)
<1> DEFINE q == l \div L
           r == l % L
<1>1. l = L * q + r /\ r \in 0 .. L - 1 /\ q \in Nat
  BY ModIs
<1> HIDE DEF q, r
<1>2. n = L * q
  <2>1. L * q \in Nat
    BY <1>1
  <2>2. n = l - r
    BY DEF r
  <2>3. QED
    BY <1>1, <2>1, <2>2
<1>3. n \in 0 .. l
  <2>1. L * q \in Nat
    BY <1>1
  <2>2. QED
    BY <1>1, <1>2, <2>1
<1>4. n % L = 0
  <2>1. (L * q) % L = 0
    BY <1>1, NoRest
  <2>2. QED
    BY <1>2, <2>1
<1>5. L <= l => n > 0
  <2>1. L * q \in Nat
    BY <1>1
  <2>2. QED
    BY <1>1, <1>2, <2>1
<1>6. QED
  BY <1>2, <1>3, <1>4, <1>5 DEF q

\* What is shown of the input is cut where a word ends.
CutsWhole(name, in, later, n) ==
  /\ n \in 0 .. Len(in)
  /\ Firsts(in, n) \in Seq(Nat) /\ Skip(in, n) \o later \in Seq(Nat)
  /\ Len(Firsts(in, n)) % InputSize(name) = 0
  /\ in \o later = Firsts(in, n) \o (Skip(in, n) \o later)
  /\ InputSize(name) <= Len(in) => n > 0

\* What a checksum takes of its window ends with a whole word.
LEMMA WholeWords ==
  ASSUME NEW name \in ChecksumNames, NEW in \in Seq(Nat), NEW later \in Seq(Nat), NEW n,
         n = Len(in) - (Len(in) % InputSize(name))
  PROVE  CutsWhole(name, in, later, n)
<1>1. Len(in) \in Nat /\ InputSize(name) \in Nat \ {0}
  BY LenProperties DEF InputSize
<1>2. n \in 0 .. Len(in) /\ n % InputSize(name) = 0 /\ (InputSize(name) <= Len(in) => n > 0)
  BY <1>1, WholeBlocks
<1>3. Firsts(in, n) \in Seq(Nat) /\ Len(Firsts(in, n)) = n /\ Firsts(in, n) \o Skip(in, n) = in
  <2>1. n \in Nat
    BY <1>1, <1>2
  <2>2. Len(Firsts(in, n)) = n
    BY <1>2, FirstsLength
  <2>3. Firsts(in, n) \in Seq(Nat) /\ Firsts(in, n) \o Skip(in, Len(Firsts(in, n))) = in
    BY <2>1, FirstsIs
  <2>4. QED
    BY <2>2, <2>3
<1>4. Skip(in, n) \in Seq(Nat)
  BY <1>2, SkipIs
<1>5. Skip(in, n) \o later \in Seq(Nat)
  BY <1>4, ConcatProperties
<1>6. (Firsts(in, n) \o Skip(in, n)) \o later = Firsts(in, n) \o (Skip(in, n) \o later)
  BY <1>3, <1>4, Joined
<1>7. QED
  BY <1>2, <1>3, <1>5, <1>6 DEF CutsWhole

\* A checksum that has answered has nothing more to say.
LEMMA SumDone ==
  ASSUME OfDigests, NEW name \in ChecksumNames, NEW a, NEW b, NEW d \in BOOLEAN, NEW in
  PROVE  /\ d /\ in = <<>> => Meaning(SumAt(name, a, b, d), in) = <<>>
         /\ d /\ in # <<>> => Meaning(SumAt(name, a, b, d), in) = Malformed
<1> DEFINE s == SumAt(name, a, b, d)
<1>1. s.name = name /\ (s.done <=> d)
  BY SumIs
<1>2. s.name \in ChecksumNames /\ s.name # "hash"
  BY <1>1 DEF ChecksumNames
<1>3. Meaning(s, in) = DigestMeaning(s, in)
  BY <1>2, ChecksumIs
<1>4. QED
  BY <1>1, <1>3 DEF DigestMeaning

\* A checksum is well whatever it is shown.
HasSums(S, name, m) == \A x, y \in 0 .. m - 1 : \A e \in BOOLEAN : SumAt(name, x, y, e) \in S

\* So a checksum does what Well asks, among the ones with any sums.
LEMMA ChecksumWell ==
  ASSUME OfDigests, NEW name \in ChecksumNames, NEW m \in Nat \ {0}, m = Modulus(name),
         NEW a \in 0 .. m - 1, NEW b \in 0 .. m - 1, NEW d \in BOOLEAN,
         NEW size \in Nat, NEW room \in Nat, InputSize(name) <= size, OutputSize(name) <= room,
         NEW S, HasSums(S, name, m),
         NEW in \in Seq(Nat), NEW later \in Seq(Nat), NEW fin \in BOOLEAN,
         Shows(size, SumAt(name, a, b, d), in, fin, later)
  PROVE  Well(S, size, room, SumAt(name, a, b, d), in, fin, later)
<1> DEFINE s == SumAt(name, a, b, d)
           all == in \o later
<1>1. Meaning(s, all) # Malformed /\ (fin => later = <<>>) /\ (~fin => in # <<>>)
  BY DEF Shows
<1>2. all \in Seq(Nat) /\ Len(in) \in Nat /\ <<>> \in Seq(Nat) /\ Len(<<>>) = 0
  BY ConcatProperties, LenProperties, EmptySeq
<1>3. s.name = name /\ s.a = a /\ s.b = b /\ (s.done <=> d)
  BY SumIs
<1>4. ASSUME NEW x, NEW y, NEW e \in BOOLEAN
      PROVE  SumAt(name, x, y, e).name = name /\ (SumAt(name, x, y, e).done <=> e)
  BY SumIs
<1>5. ASSUME NEW x, NEW y, NEW e \in BOOLEAN, NEW any
      PROVE  /\ e /\ any = <<>> => Meaning(SumAt(name, x, y, e), any) = <<>>
             /\ e /\ any # <<>> => Meaning(SumAt(name, x, y, e), any) = Malformed
             /\ ~e => Meaning(SumAt(name, x, y, e), any)
                        = ChecksumMeaning(SumAt(name, x, y, e), any)
  <2>1. SumAt(name, x, y, e).name \in ChecksumNames /\ SumAt(name, x, y, e).name # "hash"
    BY <1>4 DEF ChecksumNames
  <2>2. Meaning(SumAt(name, x, y, e), any) = DigestMeaning(SumAt(name, x, y, e), any)
    BY <2>1, ChecksumIs
  <2>3. QED
    BY <1>4, <2>1, <2>2 DEF DigestMeaning
<1>6. Transform(s, in, room, fin) = ChecksumTransform(s, in, room, fin)
  BY <1>3, ChecksumIs
<1>7. a \in Nat /\ b \in Nat /\ OutputSize(name) \in Nat \ {0} /\ InputSize(name) \in Nat \ {0}
  BY ResultIs
<1>8. CASE d
  <2>1. Transform(s, in, room, fin) = Ans(s, "StreamEnd", 0, <<>>)
    BY <1>3, <1>6, <1>8 DEF ChecksumTransform
  <2>2. all = <<>> /\ Meaning(s, all) = <<>>
    <3>1. /\ all = <<>> => Meaning(SumAt(name, a, b, d), all) = <<>>
          /\ all # <<>> => Meaning(SumAt(name, a, b, d), all) = Malformed
      BY <1>8, SumDone
    <3> HIDE DEF all
    <3>2. QED
      BY <1>1, <3>1
  <2>3. in = <<>> /\ later = <<>>
    BY <2>2, BothEmpty
  <2>4. 0 \in 0 .. Len(in) /\ Skip(in, 0) = in
    BY <1>2, SkipIs
  <2>5. Meaning(s, Skip(in, 0) \o later) = <<>>
    BY <2>2, <2>4
  <2>6. <<>> \o <<>> = <<>>
    BY <1>2, ConcatEmptySeq
  <2>7. s \in S
    BY DEF HasSums
  <2>8. Contract("StreamEnd", 0, Len(<<>>), Len(in), room, size, {}, fin)
    BY <1>1, <1>2, <2>3 DEF Contract, Kinds
  <2> HIDE DEF s
  <2>9. GoodReply(size, room, s, in, fin, later, s, "StreamEnd", 0, <<>>, <<>>)
    BY <1>2, <2>1, <2>2, <2>5, <2>6, <2>8 DEF all, GoodReply
  <2>10. QED
    BY <2>7, <2>9, WellAnswer DEF s
<1>9. CASE ~d /\ ~fin
  <2> DEFINE n == Len(in) - (Len(in) % InputSize(name))
             p == Firsts(in, n)
             q == Skip(in, n) \o later
  <2>1. /\ n \in 0 .. Len(in) /\ p \in Seq(Nat) /\ q \in Seq(Nat)
        /\ Len(p) % InputSize(name) = 0 /\ all = p \o q /\ (InputSize(name) <= Len(in) => n > 0)
    <3>1. CutsWhole(name, in, later, n)
      BY WholeWords
    <3>2. QED
      BY <3>1 DEF CutsWhole
  <2>2. Transform(s, in, room, fin) = Ans(Sums(s, p), "Ok", n, <<>>)
    BY <1>3, <1>6, <1>9 DEF ChecksumTransform
  <2> HIDE DEF n, p, q, s, all
  <2>3. PICK x, y \in 0 .. m - 1 : SumsGoOn(name, a, b, d, p, q, x, y)
    BY <2>1, ChecksumGoesOn, ZenonT(60)
  <2> DEFINE t == SumAt(name, x, y, d)
             rest == Meaning(t, q)
  <2>4. t \in S /\ Transform(s, in, room, fin) = Ans(t, "Ok", n, <<>>)
    BY <2>2, <2>3 DEF s, SumsGoOn, HasSums
  <2>5. Meaning(s, all) = rest
    BY <1>5, <1>9, <2>1, <2>3 DEF s, SumsGoOn
  <2>6. rest \in Seq(Nat)
    <3>1. rest = ChecksumMeaning(t, q)
      BY <1>5, <1>9
    <3>2. PICK xx, yy \in 0 .. m - 1 : Summed(name, x, y, d, q, xx, yy)
      BY <2>1, SumsAre
    <3>3. rest = Result(name, xx, yy)
      BY <3>1, <3>2 DEF Summed
    <3>4. xx \in Nat /\ yy \in Nat
      OBVIOUS
    <3>5. Result(name, xx, yy) \in Seq(Nat)
      BY <3>4, ResultIs
    <3> HIDE DEF rest
    <3>6. QED
      BY <3>3, <3>5
  <2>7. Contract("Ok", n, Len(<<>>), Len(in), room, size, {}, fin)
    BY <1>2, <1>7, <1>9, <2>1, SMTT(30) DEF Contract, Kinds
  <2>8. rest = Meaning(t, Skip(in, n) \o later)
    BY DEF q
  <2>9. <<>> \o rest = rest
    BY <2>6, ConcatEmptySeq
  <2> HIDE DEF rest, t
  <2>10. GoodReply(size, room, s, in, fin, later, t, "Ok", n, <<>>, rest)
    BY <1>2, <1>9, <2>4, <2>5, <2>6, <2>7, <2>8, <2>9 DEF all, GoodReply
  <2>11. QED
    BY <2>4, <2>10, WellAnswer DEF s
<1>10. CASE ~d /\ fin
  <2>1. Firsts(in, Len(in)) = in
    <3>1. Len(in) \in 0 .. Len(in)
      BY <1>2
    <3>2. Skip(in, Len(in)) = <<>> /\ Len(Firsts(in, Len(in))) = Len(in)
      BY <3>1, SkipIs, FirstsLength
    <3>3. /\ Firsts(in, Len(in)) \in Seq(Nat)
          /\ Firsts(in, Len(in)) \o Skip(in, Len(Firsts(in, Len(in)))) = in
      BY <1>2, FirstsIs
    <3>4. QED
      BY <3>2, <3>3, ConcatEmptySeq
  <2>2. PICK x, y \in 0 .. m - 1 : Summed(name, a, b, d, in, x, y)
    BY SumsAre
  <2> DEFINE t == SumAt(name, x, y, TRUE)
             made == Result(name, x, y)
  <2>3. [SumAt(name, x, y, d) EXCEPT !.done = TRUE] = t
    <3>1. SumTurns(name, x, y, d, x, y, TRUE)
      BY SumMoves
    <3>2. QED
      BY <3>1 DEF SumTurns
  <2>4. Sums(s, in) = SumAt(name, x, y, d)
    BY <2>2 DEF Summed
  <2>5. SumAt(name, x, y, d).a = x /\ SumAt(name, x, y, d).b = y
    BY SumIs
  <2>6. Transform(s, in, room, fin) = Ans(t, "StreamEnd", Len(in), made)
    <3>1. Transform(s, in, room, fin)
            = Ans([SumAt(name, x, y, d) EXCEPT !.done = TRUE], "StreamEnd", Len(in),
                  Result(name, SumAt(name, x, y, d).a, SumAt(name, x, y, d).b))
      BY <1>3, <1>6, <1>7, <1>10, <2>1, <2>4 DEF ChecksumTransform
    <3>2. QED
      BY <2>3, <2>5, <3>1
  <2>7. x \in Nat /\ y \in Nat /\ made \in Seq(Nat) /\ Len(made) = OutputSize(name)
    BY ResultIs
  <2>8. later = <<>> /\ all = in /\ Skip(in, Len(in)) \o later = later /\ Len(in) \in 0 .. Len(in)
    BY <1>1, <1>2, <1>10, ConcatEmptySeq, SkipsAll, SMTT(30)
  <2>9. Meaning(s, in) = made
    BY <1>5, <1>10, <2>2 DEF Summed
  <2>10. Meaning(t, later) = <<>>
    <3>1. t.done /\ t.name = name
      BY DEF SumAt
    <3> HIDE DEF t
    <3>2. t.name \in ChecksumNames
      BY <3>1
    <3>3. Meaning(t, later) = DigestMeaning(t, later)
      BY <3>2, ChecksumIs
    <3>4. QED
      BY <2>8, <3>1, <3>3 DEF DigestMeaning
  <2>11. Contract("StreamEnd", Len(in), Len(made), Len(in), room, size, {}, fin)
    BY <1>2, <1>7, <1>10, <2>7 DEF Contract, Kinds
  <2>12. made \o <<>> = made
    BY <2>7, ConcatEmptySeq
  <2>13. t \in S
    BY DEF HasSums
  <2> HIDE DEF made, t, s, all
  <2>14. GoodReply(size, room, s, in, fin, later, t, "StreamEnd", Len(in), made, <<>>)
    BY <1>2, <2>6, <2>7, <2>8, <2>9, <2>10, <2>11, <2>12 DEF all, GoodReply
  <2>15. QED
    BY <2>13, <2>14, WellAnswer DEF s
<1>11. QED
  BY <1>8, <1>9, <1>10

\* A checksum streams.
LEMMA ChecksumStreams ==
  ASSUME OfDigests, NEW s, s.name \in ChecksumNames, NEW size \in Nat, NEW room \in Nat,
         InputSize(s.name) <= size, OutputSize(s.name) <= room
  PROVE  /\ StreamsAlone(At(Start(s), <<>>), size, room)
         /\ \A in \in Seq(Nat) : Meaning(Start(s), in) \in Seq(Nat)
<1> DEFINE name == s.name
           m == Modulus(name)
           S == {SumAt(name, x, y, e) : x \in 0 .. m - 1, y \in 0 .. m - 1, e \in BOOLEAN}
<1>1. /\ name \in ChecksumNames /\ m \in Nat \ {0, 1} /\ OutputSize(name) \in Nat
      /\ InputSize(name) <= size /\ OutputSize(name) <= room /\ m = Modulus(name)
  <2>1. 0 \in Nat
    OBVIOUS
  <2>2. QED
    BY <2>1, ResultIs
<1> HIDE DEF name, m
<1>2. HasSums(S, name, m)
  BY DEF HasSums
<1> HIDE DEF S
<1>3. ASSUME NEW x \in 0 .. m - 1, NEW y \in 0 .. m - 1, NEW e \in BOOLEAN,
             NEW in \in Seq(Nat), NEW later \in Seq(Nat), NEW fin \in BOOLEAN,
             Shows(size, SumAt(name, x, y, e), in, fin, later)
      PROVE  Well(S, size, room, SumAt(name, x, y, e), in, fin, later)
  <2>1. m \in Nat \ {0}
    BY <1>1
  <2>2. QED
    BY <1>1, <1>2, <1>3, <2>1, ChecksumWell, SMTT(30)
<1>4. AllWell(S, size, room)
  <2>1. SUFFICES ASSUME NEW t \in S, NEW in \in Seq(Nat), NEW later \in Seq(Nat),
                        NEW fin \in BOOLEAN, Shows(size, t, in, fin, later)
        PROVE  Well(S, size, room, t, in, fin, later)
    BY DEF AllWell
  <2>2. PICK x \in 0 .. m - 1, y \in 0 .. m - 1, e \in BOOLEAN : t = SumAt(name, x, y, e)
    BY DEF S
  <2>3. QED
    BY <1>3, <2>1, <2>2
<1>5. ASSUME NEW x \in 0 .. m - 1, NEW y \in 0 .. m - 1, NEW d, NEW in \in Seq(Nat)
      PROVE  ChecksumMeaning(SumAt(name, x, y, d), in) \in Seq(Nat)
  <2>1. PICK xx, yy \in 0 .. m - 1 : Summed(name, x, y, d, in, xx, yy)
    BY <1>1, SumsAre
  <2>2. ChecksumMeaning(SumAt(name, x, y, d), in) = Result(name, xx, yy)
    BY <2>1 DEF Summed
  <2>3. xx \in Nat /\ yy \in Nat
    BY <1>1
  <2>4. QED
    BY <1>1, <2>2, <2>3, ResultIs
<1>6. ASSUME NEW x \in 0 .. m - 1, NEW y \in 0 .. m - 1, NEW e \in BOOLEAN
      PROVE  /\ BufferSize(SumAt(name, x, y, e)) \in 0 .. room
             /\ \A in \in Seq(Nat) : Meaning(SumAt(name, x, y, e), in) \in Seq(Nat) \cup {Malformed}
  <2> DEFINE t == SumAt(name, x, y, e)
  <2>1. t.name = name
    BY SumIs
  <2>2. BufferSize(t) = OutputSize(name) /\ (\A in : Meaning(t, in) = DigestMeaning(t, in))
    BY <1>1, <2>1, ChecksumIs
  <2>3. ASSUME NEW in \in Seq(Nat) PROVE Meaning(t, in) \in Seq(Nat) \cup {Malformed}
    <3>1. ChecksumMeaning(t, in) \in Seq(Nat) /\ <<>> \in Seq(Nat)
      BY <1>5, EmptySeq
    <3>2. t.name # "hash"
      BY <1>1, <2>1 DEF ChecksumNames
    <3> HIDE DEF t
    <3>3. QED
      BY <2>2, <3>1, <3>2 DEF DigestMeaning
  <2>4. QED
    BY <1>1, <2>2, <2>3
<1>7. InRange(S, room)
  BY <1>6 DEF InRange, S
<1>8. PICK a \in 0 .. m - 1 : Start(s) = SumAt(name, a, 0, FALSE)
  <2> DEFINE a == IF name = "adler32" THEN 1 ELSE 0
  <2>1. a \in 0 .. m - 1
    BY <1>1
  <2>2. Start(s) = ChecksumStart(s)
    BY <1>1, ChecksumIs DEF name
  <2>3. Start(s) = SumAt(name, a, 0, FALSE)
    BY <2>2 DEF ChecksumStart, SumAt, name
  <2> HIDE DEF a
  <2>4. QED
    BY <2>1, <2>3
<1>9. 0 \in 0 .. m - 1 /\ FALSE \in BOOLEAN
  BY <1>1
<1>10. Start(s) \in S
  BY <1>2, <1>8, <1>9 DEF HasSums
<1>11. StreamsAlone(At(Start(s), <<>>), size, room)
  BY <1>4, <1>7, <1>10, WellStreams
<1>12. ASSUME NEW in \in Seq(Nat) PROVE Meaning(Start(s), in) \in Seq(Nat)
  <2> DEFINE t == SumAt(name, a, 0, FALSE)
  <2>1. t.name = name /\ ~t.done
    BY DEF SumAt
  <2>2. ChecksumMeaning(t, in) \in Seq(Nat)
    BY <1>5, <1>9
  <2> HIDE DEF t
  <2>3. Meaning(t, in) = DigestMeaning(t, in) /\ t.name # "hash"
    <3>1. t.name \in ChecksumNames
      BY <1>1, <2>1
    <3>2. t.name # "hash"
      BY <3>1 DEF ChecksumNames
    <3>3. QED
      BY <3>1, <3>2, ChecksumIs
  <2>4. QED
    BY <1>8, <2>1, <2>2, <2>3 DEF DigestMeaning, t
<1>13. QED
  BY <1>11, <1>12

\* The room for a digest: a checksum is shown a word and has room for its result, and
\* a hash function reads whole chunks.
DigestSuits(s, size, room) ==
  \/ /\ s.name = "hash"
     /\ s.chunk \in Nat \ {0} /\ s.length \in Nat \ {0} /\ s.length % s.chunk = 0
     /\ s.chunk <= room
  \/ /\ s.name \in ChecksumNames
     /\ InputSize(s.name) <= size /\ OutputSize(s.name) <= room

\* The digests stream, and everything means something to them.
LEMMA DigestStreams ==
  ASSUME OfDigests, HashesBytes, NEW s, NEW size \in Nat, NEW room \in Nat,
         DigestSuits(s, size, room)
  PROVE  /\ StreamsAlone(At(Start(s), <<>>), size, room)
         /\ \A in \in Seq(Nat) : Meaning(Start(s), in) \in Seq(Nat)
<1>1. CASE s.name = "hash" /\ s.chunk \in Nat \ {0} /\ s.length \in Nat \ {0}
           /\ s.length % s.chunk = 0 /\ s.chunk <= room
  BY <1>1, HashStreams
<1>2. CASE s.name \in ChecksumNames /\ InputSize(s.name) <= size /\ OutputSize(s.name) <= room
  BY <1>2, ChecksumStreams
<1>3. QED
  BY <1>1, <1>2 DEF DigestSuits

-----------------------------------------------------------------------------
(***************************************************************************)
(* Whole blocks.                                                           *)
(***************************************************************************)
\* n is made of whole blocks of L.
Whole(L, n) == \E k \in Nat : n = L * k

\* Nothing is left of what is whole.
LEMMA WholeIs ==
  ASSUME NEW L \in Nat \ {0}, NEW n \in Nat
  PROVE  Whole(L, n) <=> n % L = 0
<1>1. ASSUME n % L = 0 PROVE Whole(L, n)
  <2>1. n = (L * (n \div L)) + (n % L) /\ (n \div L) \in Nat
    BY ModIs
  <2> DEFINE k == n \div L
  <2>2. k \in Nat /\ n = L * k
    <3>1. L * k \in Nat
      BY <2>1
    <3>2. QED
      BY <1>1, <2>1, <3>1
  <2> HIDE DEF k
  <2>3. QED
    BY <2>2 DEF Whole
<1>2. ASSUME Whole(L, n) PROVE n % L = 0
  <2>1. PICK k \in Nat : n = L * k
    BY <1>2 DEF Whole
  <2>2. (L * k) % L = 0
    BY NoRest
  <2>3. QED
    BY <2>1, <2>2
<1>3. QED
  BY <1>1, <1>2

\* What is added to whole pieces.
LEMMA WholeSum ==
  ASSUME NEW L \in Nat \ {0}, NEW a \in Nat, NEW b \in Nat, Whole(L, a)
  PROVE  Whole(L, a + b) <=> Whole(L, b)
<1>1. PICK k \in Nat : a = L * k
  BY DEF Whole
<1>2. ASSUME Whole(L, b) PROVE Whole(L, a + b)
  <2>1. PICK l \in Nat : b = L * l
    BY <1>2 DEF Whole
  <2>2. k + l \in Nat /\ L * (k + l) = L * k + L * l
    OBVIOUS
  <2>3. QED
    BY <1>1, <2>1, <2>2 DEF Whole
<1>3. ASSUME Whole(L, a + b) PROVE Whole(L, b)
  <2>1. PICK l \in Nat : a + b = L * l
    BY <1>3 DEF Whole
  <2>2. L * (l - k) = L * l - L * k /\ L * l \in Nat /\ L * k \in Nat
    OBVIOUS
  <2>3. b = L * (l - k)
    BY <1>1, <2>1, <2>2
  <2>4. l - k \in Nat
    <3>1. SUFFICES ASSUME l < k PROVE FALSE
      OBVIOUS
    <3>2. L * l + L <= L * k
      BY <3>1, OneMore
    <3>3. QED
      BY <1>1, <2>1, <2>2, <3>2
  <2>5. QED
    BY <2>3, <2>4 DEF Whole
<1>4. QED
  BY <1>2, <1>3

\* There is nothing, or one piece.
LEMMA WholeLeast ==
  ASSUME NEW L \in Nat \ {0}, NEW n \in Nat, Whole(L, n)
  PROVE  n = 0 \/ L <= n
<1>1. PICK k \in Nat : n = L * k
  BY DEF Whole
<1>2. CASE k = 0
  BY <1>1, <1>2
<1>3. CASE k # 0
  <2>1. k - 1 \in Nat /\ L * k = L * (k - 1) + L /\ L * (k - 1) \in Nat
    BY <1>3
  <2>2. QED
    BY <1>1, <2>1
<1>4. QED
  BY <1>2, <1>3

\* Quotient and rest.
LEMMA DivIs ==
  ASSUME NEW L \in Nat \ {0}, NEW q \in Nat, NEW r \in 0 .. L - 1
  PROVE  (L * q + r) \div L = q /\ (L * q + r) % L = r
<1> DEFINE n == L * q + r
           k == n \div L
           p == n % L
<1>1. n \in Nat
  <2>1. L * q \in Nat
    OBVIOUS
  <2>2. QED
    BY <2>1
<1>2. p = r
  BY RestIs
<1>3. n = L * k + p /\ k \in Nat /\ p \in 0 .. L - 1
  <2> HIDE DEF n
  <2>1. QED
    BY <1>1, ModIs
<1>4. L * k = L * q
  <2>1. n = L * q + r
    OBVIOUS
  <2> HIDE DEF n, k, p
  <2>2. L * k \in Nat /\ L * q \in Nat
    BY <1>3
  <2>3. QED
    BY <1>2, <1>3, <2>1, <2>2
<1> HIDE DEF k, n, p
<1>5. k = q
  <2>1. CASE k < q
    <3>1. L * k + L <= L * q
      BY <1>3, <2>1, OneMore
    <3>2. L * k \in Nat
      BY <1>3
    <3>3. QED
      BY <1>4, <3>1, <3>2
  <2>2. CASE q < k
    <3>1. L * q + L <= L * k
      BY <1>3, <2>2, OneMore
    <3>2. L * k \in Nat
      BY <1>3
    <3>3. QED
      BY <1>4, <3>1, <3>2
  <2>3. QED
    BY <1>3, <2>1, <2>2
<1>6. QED
  BY <1>2, <1>5 DEF k, p, n

-----------------------------------------------------------------------------
(***************************************************************************)
(* swab.                                                                   *)
(***************************************************************************)
\* The place a byte comes from.
Mirror(L, i) == ((i - 1) \div L) * L + L - ((i - 1) % L)

\* It is in the same block, and the other way round.
LEMMA MirrorIs ==
  ASSUME NEW L \in Nat \ {0}, NEW n \in Nat, Whole(L, n), NEW i \in 1 .. n
  PROVE  /\ Mirror(L, i) \in 1 .. n
         /\ Mirror(L, Mirror(L, i)) = i
<1> DEFINE q == (i - 1) \div L
           r == (i - 1) % L
           j == L * q + (L - 1 - r)
<1>1. i - 1 = L * q + r /\ r \in 0 .. L - 1 /\ q \in Nat
  <2>1. i - 1 \in Nat
    OBVIOUS
  <2>2. QED
    BY <2>1, ModIs
<1>2. Mirror(L, i) = q * L + L - r
  BY DEF Mirror
<1> HIDE DEF q, r
<1>3. L * q \in Nat /\ L * q = q * L /\ L - 1 - r \in 0 .. L - 1
  BY <1>1
<1>4. Mirror(L, i) = j + 1 /\ j \in Nat
  BY <1>1, <1>2, <1>3
<1>5. j \div L = q /\ j % L = L - 1 - r
  BY <1>1, <1>3, DivIs
<1>6. i <= n /\ L * q + L <= n
  <2>1. PICK k \in Nat : n = L * k
    BY DEF Whole
  <2>2. q < k
    <3>1. SUFFICES ASSUME k <= q PROVE FALSE
      BY <1>1
    <3>2. L * k <= L * q
      <4>1. CASE k = q
        BY <4>1, <1>3
      <4>2. CASE k < q
        <5>1. L * k + L <= L * q
          BY <1>1, <4>2, OneMore
        <5>2. L * k \in Nat
          OBVIOUS
        <5>3. QED
          BY <1>3, <5>1, <5>2
      <4>3. QED
        BY <1>1, <3>1, <4>1, <4>2
    <3>3. QED
      BY <1>1, <1>3, <2>1, <3>2
  <2>3. QED
    BY <1>1, <2>1, <2>2, OneMore
<1>7. Mirror(L, j + 1) = q * L + L - (L - 1 - r)
  <2>1. (j + 1) - 1 = j
    BY <1>4
  <2>2. QED
    BY <1>5, <2>1 DEF Mirror
<1>8. Mirror(L, j + 1) = i
  BY <1>1, <1>3, <1>7
<1>9. j + 1 \in 1 .. n
  BY <1>1, <1>3, <1>4, <1>6
<1>10. QED
  BY <1>4, <1>8, <1>9

\* A place behind whole blocks is mirrored in its own block.
LEMMA MirrorOn ==
  ASSUME NEW L \in Nat \ {0}, NEW n \in Nat, Whole(L, n), NEW i \in Nat \ {0}
  PROVE  Mirror(L, n + i) = n + Mirror(L, i)
<1> DEFINE q == (i - 1) \div L
           r == (i - 1) % L
<1>1. i - 1 = L * q + r /\ r \in 0 .. L - 1 /\ q \in Nat
  <2>1. i - 1 \in Nat
    OBVIOUS
  <2>2. QED
    BY <2>1, ModIs
<1>2. Mirror(L, i) = q * L + L - r
  BY DEF Mirror
<1> HIDE DEF q, r
<1>3. PICK k \in Nat : n = L * k
  BY DEF Whole
<1>4. k + q \in Nat /\ L * (k + q) = L * k + L * q /\ L * q \in Nat /\ L * k \in Nat
      /\ (k + q) * L = L * k + q * L /\ q * L = L * q
  BY <1>1
<1>5. (n + i) - 1 = L * (k + q) + r
  BY <1>1, <1>3, <1>4
<1>6. (L * (k + q) + r) \div L = k + q /\ (L * (k + q) + r) % L = r
  BY <1>1, <1>4, DivIs
<1>7. Mirror(L, n + i) = (k + q) * L + L - r
  BY <1>5, <1>6 DEF Mirror
<1>8. QED
  BY <1>1, <1>2, <1>3, <1>4, <1>7

\* Blocks written backwards twice are what they were.
LEMMA BackwardsIs ==
  ASSUME NEW L \in Nat \ {0}, NEW s \in Seq(Nat), Whole(L, Len(s))
  PROVE  /\ Backwards(s, L) \in Seq(Nat)
         /\ Len(Backwards(s, L)) = Len(s)
         /\ \A i \in 1 .. Len(s) : Backwards(s, L)[i] = s[Mirror(L, i)]
         /\ Backwards(Backwards(s, L), L) = s
<1> DEFINE n == Len(s)
           t == Backwards(s, L)
<1>1. n \in Nat /\ \A i \in 1 .. n : s[i] \in Nat
  BY LenProperties, ElementOfSeq
<1>2. \A i \in 1 .. n : Mirror(L, i) \in 1 .. n /\ Mirror(L, Mirror(L, i)) = i
  BY <1>1, MirrorIs
<1>3. t = [i \in 1 .. n |-> s[Mirror(L, i)]]
  BY DEF Backwards, Mirror
<1> HIDE DEF t
<1>4. t \in [1 .. n -> Nat]
  BY <1>1, <1>2, <1>3
<1>5. t \in Seq(Nat) /\ Len(t) = n
  BY <1>1, <1>4, IsRow
<1>6. \A i \in 1 .. n : t[i] = s[Mirror(L, i)]
  BY <1>3
<1>7. Backwards(t, L) = s
  <2> DEFINE u == Backwards(t, L)
  <2>1. u = [i \in 1 .. n |-> t[Mirror(L, i)]]
    BY <1>5 DEF Backwards, Mirror
  <2>2. \A i \in 1 .. n : u[i] = s[i]
    BY <1>2, <1>6, <2>1
  <2>3. u \in [1 .. n -> Nat]
    BY <1>2, <1>4, <2>1
  <2>4. u \in Seq(Nat) /\ Len(u) = n
    BY <1>1, <2>3, IsRow
  <2> HIDE DEF u
  <2>5. Len(u) = Len(s) /\ \A i \in 1 .. Len(u) : u[i] = s[i]
    BY <2>2, <2>4
  <2>6. u = s
    BY <2>4, <2>5, SeqEqual
  <2>7. QED
    BY <2>6 DEF u
<1>8. QED
  BY <1>5, <1>6, <1>7 DEF t

\* Whole blocks are turned one behind the other.
BackwardsJoined(L, p, q) == Backwards(p \o q, L) = Backwards(p, L) \o Backwards(q, L)

\* Blocks behind blocks are written backwards each for itself.
LEMMA BackwardsJoin ==
  ASSUME NEW L \in Nat \ {0}, NEW p \in Seq(Nat), NEW q \in Seq(Nat),
         Whole(L, Len(p)), Whole(L, Len(q))
  PROVE  BackwardsJoined(L, p, q)
<1> DEFINE all == p \o q
           b == Backwards(p, L)
           c == Backwards(q, L)
           e == Backwards(all, L)
           n == Len(p)
           l == Len(q)
<1>1. /\ n \in Nat /\ l \in Nat /\ all \in Seq(Nat) /\ Len(all) = n + l
      /\ \A i \in 1 .. n : all[i] = p[i]
      /\ \A i \in 1 .. l : all[n + i] = q[i]
  BY ConcatProperties, LenProperties
<1>2. Whole(L, n) /\ Whole(L, l) /\ Whole(L, n + l)
  BY <1>1, WholeSum
<1> HIDE DEF all
<1>3. /\ b \in Seq(Nat) /\ Len(b) = n
      /\ \A i \in 1 .. n : b[i] = p[Mirror(L, i)]
  BY <1>2, BackwardsIs
<1>4. /\ c \in Seq(Nat) /\ Len(c) = l
      /\ \A i \in 1 .. l : c[i] = q[Mirror(L, i)]
  BY <1>2, BackwardsIs
<1>5. /\ e \in Seq(Nat) /\ Len(e) = n + l
      /\ \A i \in 1 .. n + l : e[i] = all[Mirror(L, i)]
  BY <1>1, <1>2, BackwardsIs, ZenonT(60)
<1> HIDE DEF b, c, e, n, l
<1>6. ASSUME NEW i \in 1 .. n PROVE e[i] = b[i]
  <2>1. Mirror(L, i) \in 1 .. n /\ i \in 1 .. n + l
    BY <1>1, <1>2, MirrorIs, SMTT(30)
  <2>2. QED
    BY <1>1, <1>3, <1>5, <2>1
<1>7. ASSUME NEW i \in 1 .. l PROVE e[n + i] = c[i]
  <2>1. Mirror(L, i) \in 1 .. l /\ n + i \in 1 .. n + l
    <3>1. Mirror(L, i) \in 1 .. l
      BY <1>1, <1>2, MirrorIs
    <3>2. QED
      BY <1>1, <3>1
  <2>2. Mirror(L, n + i) = n + Mirror(L, i)
    BY <1>1, <1>2, MirrorOn
  <2>3. e[n + i] = all[n + Mirror(L, i)] /\ all[n + Mirror(L, i)] = q[Mirror(L, i)]
    BY <1>1, <1>5, <2>1, <2>2
  <2>4. QED
    BY <1>4, <2>3
<1>8. e = b \o c
  <2>1. /\ b \in Seq(Nat) /\ c \in Seq(Nat) /\ e \in Seq(Nat) /\ Len(e) = Len(b) + Len(c)
        /\ \A i \in 1 .. Len(b) : e[i] = b[i]
        /\ \A i \in 1 .. Len(c) : e[Len(b) + i] = c[i]
    BY <1>3, <1>4, <1>5, <1>6, <1>7
  <2>2. QED
    BY <2>1, RowsJoin
<1>9. QED
  BY <1>8 DEF BackwardsJoined, b, c, e, all

-----------------------------------------------------------------------------
(***************************************************************************)
(* The codecs of whole blocks, for which nothing depends on what came      *)
(* before.                                                                 *)
(***************************************************************************)
BlockNames == {"swab"} \cup Base16 \cup Base32 \cup Base64

\* These codecs are the ones BlockCodecs defines.
OfBlocks ==
  \A s : s.name \in BlockNames =>
    /\ Start(s) = BlockStart(s)
    /\ BufferSize(s) = BlockBufferSize(s)
    /\ \A in, room, fin : Transform(s, in, room, fin) = BlockTransform(s, in, room, fin)
    /\ \A in : Meaning(s, in) = BlockMeaning(s, in)

\* An input is what is taken of it, and the rest.
Cuts(in, later, n) ==
  /\ Firsts(in, n) \in Seq(Nat) /\ Len(Firsts(in, n)) = n
  /\ Skip(in, n) \o later \in Seq(Nat)
  /\ Len(Skip(in, n) \o later) = Len(in) - n + Len(later)
  /\ in \o later = Firsts(in, n) \o (Skip(in, n) \o later)
  /\ Len(in) \in Nat /\ Len(later) \in Nat /\ Len(in \o later) = Len(in) + Len(later)

\* They do.
LEMMA CutsAt ==
  ASSUME NEW in \in Seq(Nat), NEW later \in Seq(Nat), NEW n \in 0 .. Len(in)
  PROVE  Cuts(in, later, n)
<1>1. Len(in) \in Nat /\ Len(later) \in Nat /\ n \in Nat
  BY LenProperties
<1>2. Len(Firsts(in, n)) = n
  BY FirstsLength
<1>3. Firsts(in, n) \in Seq(Nat) /\ Firsts(in, n) \o Skip(in, Len(Firsts(in, n))) = in
  BY <1>1, FirstsIs
<1>4. Skip(in, n) \in Seq(Nat) /\ Len(Skip(in, n)) = Len(in) - n
  BY SkipIs
<1>5. /\ Skip(in, n) \o later \in Seq(Nat) /\ Len(Skip(in, n) \o later) = Len(in) - n + Len(later)
      /\ Len(in \o later) = Len(in) + Len(later)
  BY <1>4, ConcatProperties
<1>6. (Firsts(in, n) \o Skip(in, n)) \o later = Firsts(in, n) \o (Skip(in, n) \o later)
  BY <1>3, <1>4, Joined
<1>7. QED
  BY <1>1, <1>2, <1>3, <1>5, <1>6 DEF Cuts

\* Codecs that stay as they are.
Steady(s, size, room) ==
  /\ BufferSize(s) \in 0 .. room
  /\ \A in \in Seq(Nat) : Meaning(s, in) \in Seq(Nat) \cup {Malformed}
  /\ \A in, later \in Seq(Nat) : \A fin \in BOOLEAN :
       Shows(size, s, in, fin, later) => Well({s}, size, room, s, in, fin, later)

\* A steady codec streams.
LEMMA SteadyStreams ==
  ASSUME NEW s, NEW size \in Nat, NEW room \in Nat, Steady(s, size, room)
  PROVE  StreamsAlone(At(s, <<>>), size, room)
<1> DEFINE S == {s}
<1>1. \A t \in S : t = s
  OBVIOUS
<1>2. s \in S
  OBVIOUS
<1>3. AllWell(S, size, room)
  BY DEF AllWell, Steady
<1>4. InRange(S, room)
  BY DEF InRange, Steady
<1> HIDE DEF S
<1>5. QED
  BY <1>2, <1>3, <1>4, WellStreams

-----------------------------------------------------------------------------
(***************************************************************************)
(* swab reads and writes its blocks.                                       *)
(***************************************************************************)
LEMMA SwabIs ==
  ASSUME OfBlocks, NEW s, s.name = "swab"
  PROVE  /\ Start(s) = s
         /\ BufferSize(s) = s.length
         /\ \A in, room, fin : Transform(s, in, room, fin) = SwabTransform(s, in, room, fin)
         /\ \A in : Meaning(s, in) =
              IF Len(in) % s.length = 0 THEN Backwards(in, s.length) ELSE Malformed
<1>1. s.name \in BlockNames
  BY DEF BlockNames
<1>2. /\ Start(s) = BlockStart(s) /\ BufferSize(s) = BlockBufferSize(s)
      /\ \A in, room, fin : Transform(s, in, room, fin) = BlockTransform(s, in, room, fin)
      /\ \A in : Meaning(s, in) = BlockMeaning(s, in)
  BY <1>1 DEF OfBlocks
<1>3. Start(s) = s /\ BufferSize(s) = s.length
  BY <1>2 DEF BlockStart, BlockBufferSize
<1>4. ASSUME NEW in, NEW room, NEW fin
      PROVE  Transform(s, in, room, fin) = SwabTransform(s, in, room, fin)
  <2>1. s.name \notin Base16 /\ s.name \notin Base32 \cup Base64
    BY DEF Base16, Base32, Base64
  <2>2. QED
    BY <1>2, <2>1 DEF BlockTransform
<1>5. ASSUME NEW in
      PROVE  Meaning(s, in) = IF Len(in) % s.length = 0 THEN Backwards(in, s.length) ELSE Malformed
  BY <1>2 DEF BlockMeaning
<1>6. QED
  BY <1>3, <1>4, <1>5

\* The whole blocks that there are and fit.
BlocksOf(L, a, room, n) ==
  n \in 0 .. a /\ n <= room /\ Whole(L, n) /\ (L <= a /\ L <= room => n > 0)

\* What swab takes are whole blocks, as many as fit.
LEMMA BlocksFit ==
  ASSUME NEW L \in Nat \ {0}, NEW a \in Nat, NEW room \in Nat
  PROVE  BlocksOf(L, a, room, (Smaller(a, room) \div L) * L)
<1> DEFINE n == (Smaller(a, room) \div L) * L
           l == Smaller(a, room)
           q == l \div L
           r == l % L
<1>1. l \in Nat /\ l <= a /\ l <= room /\ (L <= a /\ L <= room => L <= l)
  BY DEF Smaller
<1> HIDE DEF l
<1>2. l = L * q + r /\ r \in 0 .. L - 1 /\ q \in Nat
  BY <1>1, ModIs
<1>3. n = q * L
  BY DEF l
<1> HIDE DEF q, r, n
<1>4. q * L = L * q /\ L * q \in Nat
  BY <1>2
<1>5. n = L * q /\ n \in Nat
  BY <1>3, <1>4
<1>6. Whole(L, n)
  BY <1>2, <1>5 DEF Whole
<1>7. BlocksOf(L, a, room, n)
  BY <1>1, <1>2, <1>5, <1>6 DEF BlocksOf
<1>8. QED
  BY <1>7 DEF n

\* swab is steady, if the window and the room hold a block.
LEMMA SwabSteady ==
  ASSUME OfBlocks, NEW s, s.name = "swab", s.length \in Nat \ {0},
         NEW size \in Nat, NEW room \in Nat, s.length <= size, s.length <= room
  PROVE  Steady(s, size, room)
<1> DEFINE L == s.length
<1>1. L \in Nat \ {0} /\ L <= size /\ L <= room /\ BufferSize(s) = L
  BY SwabIs
<1>2. ASSUME NEW in \in Seq(Nat)
      PROVE  /\ Whole(L, Len(in)) => /\ Meaning(s, in) = Backwards(in, L)
                                     /\ Meaning(s, in) \in Seq(Nat)
             /\ ~Whole(L, Len(in)) => Meaning(s, in) = Malformed
  <2>1. Meaning(s, in) = IF Len(in) % L = 0 THEN Backwards(in, L) ELSE Malformed
    BY SwabIs
  <2>2. Len(in) \in Nat
    BY LenProperties
  <2>3. Whole(L, Len(in)) <=> Len(in) % L = 0
    BY <1>1, <2>2, WholeIs
  <2> HIDE DEF L
  <2>4. Whole(L, Len(in)) => Backwards(in, L) \in Seq(Nat)
    BY <1>1, BackwardsIs
  <2>5. QED
    BY <2>1, <2>3, <2>4
<1>3. \A in, r, fin : Transform(s, in, r, fin) = SwabTransform(s, in, r, fin)
  BY SwabIs
<1>4. ASSUME NEW in \in Seq(Nat), NEW later \in Seq(Nat), NEW fin \in BOOLEAN,
             Shows(size, s, in, fin, later)
      PROVE  Well({s}, size, room, s, in, fin, later)
  <2> DEFINE all == in \o later
             n == (Smaller(Len(in), room) \div L) * L
             p == Firsts(in, n)
             q == Skip(in, n) \o later
             made == Backwards(p, L)
             rest == Backwards(q, L)
             answer == Transform(s, in, room, fin)
  <2>1. Meaning(s, all) # Malformed /\ (fin => later = <<>>) /\ (~fin => in # <<>>)
    BY <1>4 DEF Shows
  <2>2. all \in Seq(Nat) /\ Len(in) \in Nat /\ <<>> \in Seq(Nat) /\ Len(<<>>) = 0
    BY ConcatProperties, LenProperties, EmptySeq
  <2> HIDE DEF all, L
  <2>3. Whole(L, Len(all)) /\ Meaning(s, all) = Backwards(all, L) /\ Backwards(all, L) \in Seq(Nat)
    BY <1>2, <2>1, <2>2
  <2>4. CASE ~fin /\ Len(in) < L
    <3>1. answer = Ans(s, "SeqError", 0, <<>>)
      BY <1>3, <2>4 DEF SwabTransform, L
    <3>2. 0 \in 0 .. Len(in) /\ Skip(in, 0) = in
      BY <2>2, SkipIs
    <3>3. <<>> \o Backwards(all, L) = Backwards(all, L)
      BY <2>3, ConcatEmptySeq
    <3>4. Contract("SeqError", 0, Len(<<>>), Len(in), room, size, {}, fin)
      BY <1>1, <2>2, <2>4 DEF Contract, Kinds
    <3>5. GoodReply(size, room, s, in, fin, later, s, "SeqError", 0, <<>>, Backwards(all, L))
      BY <2>2, <2>3, <2>4, <3>1, <3>2, <3>3, <3>4 DEF GoodReply, all
    <3>6. s \in {s}
      OBVIOUS
    <3>7. QED
      BY <3>5, <3>6, WellAnswer
  <2>5. CASE fin /\ in = <<>>
    <3>1. answer = Ans(s, "StreamEnd", 0, <<>>)
      BY <1>3, <2>5 DEF SwabTransform, L
    <3>2. 0 \in 0 .. Len(in) /\ Skip(in, 0) = in
      BY <2>2, SkipIs
    <3>3. all = <<>>
      BY <2>1, <2>2, <2>5, ConcatEmptySeq DEF all
    <3>4. Backwards(all, L) = <<>>
      <4>1. Len(Backwards(all, L)) = 0
        BY <1>1, <2>2, <2>3, <3>3, BackwardsIs
      <4>2. QED
        BY <2>3, <4>1, EmptySeq
    <3>5. <<>> \o <<>> = <<>>
      BY <2>2, ConcatEmptySeq
    <3>6. Contract("StreamEnd", 0, Len(<<>>), Len(in), room, size, {}, fin)
      BY <2>2, <2>5 DEF Contract, Kinds
    <3>7. GoodReply(size, room, s, in, fin, later, s, "StreamEnd", 0, <<>>, <<>>)
      BY <2>2, <2>3, <3>1, <3>2, <3>4, <3>5, <3>6 DEF GoodReply, all
    <3>8. s \in {s}
      OBVIOUS
    <3>9. QED
      BY <3>7, <3>8, WellAnswer
  <2>6. CASE ~(~fin /\ Len(in) < L) /\ ~(fin /\ in = <<>>)
    <3>1. answer = Ans(s, IF fin /\ n = Len(in) THEN "StreamEnd" ELSE "Ok", n, made)
      BY <1>3, <2>6 DEF SwabTransform, StatelessAnswer, L
    <3> HIDE DEF n, made, rest, answer
    <3>2. /\ n \in 0 .. Len(in) /\ n <= room /\ Whole(L, n) /\ (L <= Len(in) => n > 0)
      <4>1. BlocksOf(L, Len(in), room, n)
        BY <1>1, <2>2, BlocksFit DEF n
      <4>2. QED
        BY <1>1, <4>1 DEF BlocksOf
    <3>3. Cuts(in, later, n)
      BY <3>2, CutsAt
    <3>4. /\ p \in Seq(Nat) /\ Len(p) = n /\ q \in Seq(Nat) /\ all = p \o q
          /\ Len(all) = n + Len(q) /\ Len(q) \in Nat /\ Len(later) \in Nat
          /\ Len(all) = Len(in) + Len(later)
      BY <3>2, <3>3 DEF Cuts, all
    <3> HIDE DEF p, q
    <3>5. Whole(L, Len(q))
      BY <1>1, <2>3, <3>2, <3>4, WholeSum
    <3>6. Backwards(all, L) = made \o rest
      <4>1. BackwardsJoined(L, p, q)
        BY <1>1, <3>2, <3>4, <3>5, BackwardsJoin
      <4>2. QED
        BY <3>4, <4>1 DEF BackwardsJoined, made, rest
    <3>7. made \in Seq(Nat) /\ Len(made) = n
      BY <1>1, <3>2, <3>4, BackwardsIs DEF made
    <3>8. rest \in Seq(Nat) /\ Meaning(s, q) = rest
      BY <1>2, <3>4, <3>5 DEF rest
    <3>9. fin => Len(in) >= L
      <4>1. SUFFICES ASSUME fin PROVE Len(in) >= L
        OBVIOUS
      <4>2. Whole(L, Len(in)) /\ Len(in) # 0
        BY <2>1, <2>2, <2>3, <2>6, <3>4, <4>1, EmptySeq
      <4>3. QED
        BY <1>1, <2>2, <4>2, WholeLeast
    <3>10. n > 0 /\ made # <<>>
      BY <1>1, <2>2, <2>6, <3>2, <3>7, <3>9
    <3> DEFINE kind == IF fin /\ n = Len(in) THEN "StreamEnd" ELSE "Ok"
    <3>11. Contract(kind, n, Len(made), Len(in), room, size, {}, fin)
      BY <2>2, <3>2, <3>7, <3>10 DEF Contract, Kinds
    <3>12. kind # "SeqError" /\ answer = Ans(s, kind, n, made)
      BY <3>1
    <3> HIDE DEF kind
    <3>13. GoodReply(size, room, s, in, fin, later, s, kind, n, made, rest)
      BY <2>3, <3>6, <3>7, <3>8, <3>10, <3>11, <3>12 DEF GoodReply, all, answer, q
    <3>14. s \in {s}
      OBVIOUS
    <3>15. QED
      BY <3>13, <3>14, WellAnswer
  <2>7. QED
    BY <2>4, <2>5, <2>6
<1>5. \A in \in Seq(Nat) : Meaning(s, in) \in Seq(Nat) \cup {Malformed}
  BY <1>2
<1>6. BufferSize(s) \in 0 .. room
  BY <1>1
<1> HIDE DEF L
<1>7. QED
  BY <1>4, <1>5, <1>6 DEF Steady

-----------------------------------------------------------------------------
(***************************************************************************)
(* Bits and digits.                                                        *)
(***************************************************************************)
Widths == {4, 5, 6, 8}

\* The powers of two that a bit is found with.
LEMMA PowersAre == \A k \in 0 .. 7 : 2 ^ k \in Nat \ {0}
<1>1. SUFFICES ASSUME NEW k \in 0 .. 7 PROVE 2 ^ k \in Nat \ {0}
  OBVIOUS
<1>2. k \in {0, 1, 2, 3, 4, 5, 6, 7}
  OBVIOUS
<1>3. 2 ^ k \in {2 ^ 0, 2 ^ 1, 2 ^ 2, 2 ^ 3, 2 ^ 4, 2 ^ 5, 2 ^ 6, 2 ^ 7}
  BY <1>2, Zenon
<1>4. {2 ^ 0, 2 ^ 1, 2 ^ 2, 2 ^ 3, 2 ^ 4, 2 ^ 5, 2 ^ 6, 2 ^ 7} \subseteq Nat \ {0}
  OBVIOUS
<1>5. QED
  BY <1>3, <1>4

\* A bit of a digit, counted from its first one, and which one the i-th of some
\* digits is.
BitOf(d, width, r) == (d \div 2 ^ (width - 1 - r)) % 2

\* A bit of a digit, and a bit of digits.
LEMMA BitIs ==
  ASSUME NEW width \in Widths, NEW digits, NEW q \in Nat, NEW r \in 0 .. width - 1
  PROVE  Bit(digits, width, width * q + r) = BitOf(digits[q + 1], width, r)
<1>1. width \in Nat \ {0}
  BY DEF Widths
<1>2. (width * q + r) \div width = q /\ (width * q + r) % width = r
  BY <1>1, DivIs
<1>3. QED
  BY <1>2 DEF Bit, BitOf

\* A bit is 0 or 1.
LEMMA BitType ==
  ASSUME NEW width \in Widths, NEW d \in Nat, NEW r \in 0 .. width - 1
  PROVE  BitOf(d, width, r) \in {0, 1}
<1>1. width - 1 - r \in 0 .. 7
  BY DEF Widths
<1> DEFINE p == 2 ^ (width - 1 - r)
<1>2. p \in Nat \ {0}
  BY <1>1, PowersAre
<1> HIDE DEF p
<1>3. d \div p \in Nat
  BY <1>2, ModIs
<1>4. (d \div p) % 2 \in {0, 1}
  BY <1>3
<1>5. QED
  BY <1>4 DEF BitOf, p

\* Multiples are in the order of what they are multiples of.
LEMMA TimesLess ==
  ASSUME NEW L \in Nat \ {0}, NEW a \in Nat, NEW b \in Nat
  PROVE  /\ L * a \in Nat /\ L * b \in Nat
         /\ L * a < L * b <=> a < b
<1>1. L * a \in Nat /\ L * b \in Nat
  OBVIOUS
<1>2. a < b => L * a + L <= L * b
  BY OneMore
<1>3. b < a => L * b + L <= L * a
  BY OneMore
<1>4. a = b => L * a = L * b
  OBVIOUS
<1> DEFINE p == L * a
           q == L * b
<1> HIDE DEF p, q
<1>5. /\ p \in Nat /\ q \in Nat /\ (a < b => p + L <= q) /\ (b < a => q + L <= p)
      /\ (a = b => p = q)
  BY <1>1, <1>2, <1>3, <1>4 DEF p, q
<1>6. p \in Nat /\ q \in Nat /\ (p < q <=> a < b)
  BY <1>5
<1>7. QED
  BY <1>6 DEF p, q

\* So many bits there are.
IsBit(digits, width, i) == i \in Nat /\ i < width * Len(digits)

\* Each is a bit, and in one of the digits.
LEMMA BitsOfSeq ==
  ASSUME NEW width \in Widths, NEW digits \in Seq(Nat), NEW i, IsBit(digits, width, i)
  PROVE  /\ Bit(digits, width, i) \in {0, 1}
         /\ \E q \in 0 .. Len(digits) - 1, r \in 0 .. width - 1 : i = width * q + r
<1> DEFINE q == i \div width
           r == i % width
           n == Len(digits)
<1>1. width \in Nat \ {0} /\ n \in Nat /\ i \in Nat
  BY LenProperties DEF Widths, IsBit
<1>2. i = width * q + r /\ r \in 0 .. width - 1 /\ q \in Nat
  BY <1>1, ModIs
<1> HIDE DEF q, r
<1>3. q < n
  <2>1. i < width * n
    BY DEF IsBit
  <2> HIDE DEF n
  <2>2. width * q \in Nat /\ width * n \in Nat /\ (width * q < width * n <=> q < n)
    BY <1>1, <1>2, TimesLess
  <2>3. QED
    BY <1>2, <2>1, <2>2
<1>4. digits[q + 1] \in Nat
  <2>1. q + 1 \in 1 .. Len(digits)
    BY <1>1, <1>2, <1>3
  <2>2. QED
    BY <2>1, ElementOfSeq
<1>5. BitOf(digits[q + 1], width, r) \in {0, 1}
  BY <1>2, <1>4, BitType
<1>6. Bit(digits, width, i) = BitOf(digits[q + 1], width, r)
  BY <1>2, BitIs
<1>7. q \in 0 .. Len(digits) - 1
  BY <1>1, <1>2, <1>3
<1>8. QED
  BY <1>2, <1>5, <1>6, <1>7

\* What bits write, step by step.
Doubling(f, bits) == f[0] = 0 /\ \A k \in 1 .. Len(bits) : f[k] = 2 * f[k - 1] + bits[k]

\* Binary doubles and adds.
LEMMA BinaryIs ==
  ASSUME NEW bits \in Seq({0, 1})
  PROVE  \E f \in [0 .. Len(bits) -> Nat] : Doubling(f, bits) /\ Binary(bits) = f[Len(bits)]
<1> DEFINE n == Len(bits)
           up == CHOOSE f : f = [k \in 0 .. n |-> IF k = 0 THEN 0 ELSE 2 * f[k - 1] + bits[k]]
           g == [k \in Nat |-> [x \in Nat |-> IF k \in 1 .. n THEN 2 * x + bits[k] ELSE 0]]
<1>1. n \in Nat /\ \A k \in 1 .. n : bits[k] \in Nat
  <2>1. n \in Nat
    BY LenProperties
  <2>2. ASSUME NEW k \in 1 .. n PROVE bits[k] \in Nat
    <3>1. bits[k] \in {0, 1}
      BY ElementOfSeq
    <3>2. QED
      BY <3>1
  <2>3. QED
    BY <2>1, <2>2
<1>2. Binary(bits) = up[n]
  BY DEF Binary
<1> HIDE DEF n
<1>3. g \in [Nat -> [Nat -> Nat]]
  BY <1>1
<1>4. ASSUME NEW x \in Nat, NEW k \in 1 .. n PROVE g[k][x] = 2 * x + bits[k]
  BY <1>1
<1> HIDE DEF g
<1>5. PICK f \in [0 .. n -> Nat] : Iterates(f, n, 0, g)
  <2>1. 0 \in Nat
    OBVIOUS
  <2>2. QED
    BY <1>1, <1>3, <2>1, GoesOnSomehow
<1>6. ASSUME NEW k \in 1 .. n PROVE f[k] = 2 * f[k - 1] + bits[k]
  <2>1. k - 1 \in 0 .. n
    BY <1>1
  <2>2. f[k - 1] \in Nat
    BY <1>5, <2>1
  <2>3. QED
    BY <1>4, <1>5, <2>2 DEF Iterates
<1>7. f[0] = 0
  BY <1>5 DEF Iterates
<1>8. f = [k \in 0 .. n |-> IF k = 0 THEN 0 ELSE 2 * f[k - 1] + bits[k]]
  <2>1. \A k \in 0 .. n : k # 0 => k \in 1 .. n
    BY <1>1
  <2>2. \A k \in 0 .. n : f[k] = IF k = 0 THEN 0 ELSE 2 * f[k - 1] + bits[k]
    BY <1>6, <1>7, <2>1
  <2>3. QED
    BY <1>5, <2>2
<1>9. up = [k \in 0 .. n |-> IF k = 0 THEN 0 ELSE 2 * up[k - 1] + bits[k]]
  <2> DEFINE IsUp(h) == h = [k \in 0 .. n |-> IF k = 0 THEN 0 ELSE 2 * h[k - 1] + bits[k]]
  <2>1. IsUp(f)
    BY <1>8
  <2>2. up = CHOOSE h : IsUp(h)
    OBVIOUS
  <2> HIDE DEF IsUp
  <2>3. IsUp(up)
    BY <2>1, <2>2
  <2>4. QED
    BY <2>3 DEF IsUp
<1> HIDE DEF up
<1>10. \A k \in 0 .. n : up[k] = f[k]
  <2> DEFINE bad == {k \in 0 .. n : up[k] # f[k]}
  <2>1. SUFFICES ASSUME bad # {} PROVE FALSE
    OBVIOUS
  <2>2. bad \in SUBSET Nat
    OBVIOUS
  <2>3. PICK k \in bad : \A i \in bad : k <= i
    BY <2>1, <2>2, HasLeast
  <2>4. \A i \in 0 .. n : up[i] = IF i = 0 THEN 0 ELSE 2 * up[i - 1] + bits[i]
    BY <1>9
  <2>5. k # 0 /\ k \in 0 .. n
    BY <1>7, <2>3, <2>4
  <2>6. k - 1 \in 0 .. n /\ k \in 1 .. n /\ k - 1 \notin bad
    BY <1>1, <2>2, <2>3, <2>5
  <2>7. up[k - 1] = f[k - 1]
    BY <2>6
  <2>8. up[k] = f[k]
    BY <1>6, <2>4, <2>5, <2>6, <2>7
  <2>9. QED
    BY <2>3, <2>8
<1>11. Binary(bits) = f[n] /\ n \in 0 .. n
  BY <1>1, <1>2, <1>10
<1>12. Doubling(f, bits)
  BY <1>6, <1>7 DEF Doubling, n
<1>13. QED
  BY <1>5, <1>11, <1>12 DEF n

\* The bits of the j-th piece of `to' bits.
BitsAt(digits, from, to, j) == [n \in 1 .. to |-> Bit(digits, from, (j - 1) * to + n - 1)]

\* The pieces there are, and what is in them.
Pieces(digits, from, to) == (Len(digits) * from) \div to

\* Regroup writes the pieces.
LEMMA RegroupIs ==
  ASSUME NEW digits, NEW from, NEW to
  PROVE  Regroup(digits, from, to)
           = [j \in 1 .. Pieces(digits, from, to) |-> Binary(BitsAt(digits, from, to, j))]
BY DEF Regroup, Pieces, BitsAt

\* Every bit of a piece is a bit of the digits.
LEMMA PieceInside ==
  ASSUME NEW to \in Nat \ {0}, NEW all \in Nat, NEW j \in 1 .. all \div to, NEW n \in 1 .. to
  PROVE  /\ (j - 1) * to + n - 1 \in Nat
         /\ (j - 1) * to + n - 1 < all
<1> DEFINE q == all \div to
           r == all % to
<1>1. all = to * q + r /\ q \in Nat /\ r \in 0 .. to - 1
  BY ModIs
<1>2. j - 1 \in Nat /\ j \in 1 .. q
  BY <1>1
<1> HIDE DEF q, r
<1>3. j - 1 < q
  BY <1>1, <1>2
<1>4. to * (j - 1) + to <= to * q
  BY <1>1, <1>2, <1>3, OneMore
<1>5. to * (j - 1) \in Nat /\ to * q \in Nat /\ (j - 1) * to = to * (j - 1)
  BY <1>1, <1>2
<1> DEFINE u == to * (j - 1)
           v == to * q
<1> HIDE DEF u, v
<1>6. u \in Nat /\ v \in Nat /\ u + to <= v /\ all = v + r
  BY <1>1, <1>4, <1>5 DEF u, v
<1>7. u + n - 1 \in Nat /\ u + n - 1 < all
  BY <1>1, <1>6
<1>8. QED
  BY <1>5, <1>7 DEF u

\* The bits of one piece are among the bits of the digits.
LEMMA BitsAtIs ==
  ASSUME NEW from \in Widths, NEW to \in Widths, NEW digits \in Seq(Nat),
         NEW j \in 1 .. Pieces(digits, from, to)
  PROVE  /\ BitsAt(digits, from, to, j) \in Seq({0, 1})
         /\ Len(BitsAt(digits, from, to, j)) = to
         /\ \A n \in 1 .. to :
              /\ IsBit(digits, from, (j - 1) * to + n - 1)
              /\ BitsAt(digits, from, to, j)[n] = Bit(digits, from, (j - 1) * to + n - 1)
<1> DEFINE all == Len(digits) * from
           bits == BitsAt(digits, from, to, j)
<1>1. from \in Nat \ {0} /\ to \in Nat \ {0} /\ Len(digits) \in Nat
  BY LenProperties DEF Widths
<1>2. all \in Nat /\ from * Len(digits) = all
  BY <1>1
<1> HIDE DEF all
<1>3. j \in 1 .. all \div to
  BY DEF Pieces, all
<1>4. ASSUME NEW n \in 1 .. to PROVE IsBit(digits, from, (j - 1) * to + n - 1)
  BY <1>1, <1>2, <1>3, PieceInside DEF IsBit
<1>5. \A n \in 1 .. to : Bit(digits, from, (j - 1) * to + n - 1) \in {0, 1}
  <2>1. SUFFICES ASSUME NEW n \in 1 .. to
                 PROVE  Bit(digits, from, (j - 1) * to + n - 1) \in {0, 1}
    OBVIOUS
  <2>2. IsBit(digits, from, (j - 1) * to + n - 1)
    BY <1>4
  <2>3. QED
    BY <2>2, BitsOfSeq
<1>6. bits \in [1 .. to -> {0, 1}]
  BY <1>5 DEF BitsAt
<1>7. bits \in Seq({0, 1}) /\ Len(bits) = to
  BY <1>1, <1>6, IsRow
<1>8. QED
  BY <1>4, <1>7 DEF BitsAt

\* What four, five, six and eight bits write.
Four(b) == 2 * (2 * (2 * b[1] + b[2]) + b[3]) + b[4]
Five(b) == 2 * Four(b) + b[5]
Six(b) == 2 * Five(b) + b[6]
Eight(b) == 2 * (2 * Six(b) + b[7]) + b[8]

\* Binary, written out.
LEMMA BinarySums ==
  ASSUME NEW bits \in Seq({0, 1})
  PROVE  /\ Len(bits) = 4 => Binary(bits) = Four(bits)
         /\ Len(bits) = 5 => Binary(bits) = Five(bits)
         /\ Len(bits) = 6 => Binary(bits) = Six(bits)
         /\ Len(bits) = 8 => Binary(bits) = Eight(bits)
<1>1. PICK f \in [0 .. Len(bits) -> Nat] : Doubling(f, bits) /\ Binary(bits) = f[Len(bits)]
  BY BinaryIs
<1>2. Len(bits) \in Nat
  BY LenProperties
<1>3. f[0] = 0
  BY <1>1 DEF Doubling
<1>4. ASSUME NEW k \in Nat \ {0}, k <= Len(bits)
      PROVE  f[k] = 2 * f[k - 1] + bits[k] /\ bits[k] \in Nat
  <2>1. k \in 1 .. Len(bits)
    BY <1>2, <1>4
  <2>2. f[k] = 2 * f[k - 1] + bits[k]
    BY <1>1, <2>1 DEF Doubling
  <2>3. bits[k] \in {0, 1}
    BY <2>1, ElementOfSeq
  <2>4. QED
    BY <2>2, <2>3
<1>5. ASSUME 4 <= Len(bits) PROVE f[4] = Four(bits)
  <2>1. f[1] = 2 * f[0] + bits[1] /\ bits[1] \in Nat
    BY <1>4, <1>5
  <2>2. f[2] = 2 * f[1] + bits[2] /\ f[3] = 2 * f[2] + bits[3] /\ f[4] = 2 * f[3] + bits[4]
    BY <1>4, <1>5
  <2>3. f[1] = bits[1]
    BY <1>3, <2>1
  <2>4. QED
    BY <2>2, <2>3 DEF Four
<1>6. ASSUME 5 <= Len(bits) PROVE f[5] = Five(bits)
  <2>1. f[5] = 2 * f[4] + bits[5]
    BY <1>4, <1>6
  <2>2. QED
    BY <1>2, <1>5, <1>6, <2>1 DEF Five
<1>7. ASSUME 6 <= Len(bits) PROVE f[6] = Six(bits)
  <2>1. f[6] = 2 * f[5] + bits[6]
    BY <1>4, <1>7
  <2>2. QED
    BY <1>2, <1>6, <1>7, <2>1 DEF Six
<1>8. ASSUME 8 <= Len(bits) PROVE f[8] = Eight(bits)
  <2>1. f[7] = 2 * f[6] + bits[7] /\ f[8] = 2 * f[7] + bits[8]
    BY <1>4, <1>8
  <2>2. QED
    BY <1>2, <1>7, <1>8, <2>1 DEF Eight
<1>9. QED
  BY <1>1, <1>5, <1>6, <1>7, <1>8, SMTT(30)

\* And they are its bits again.
LEMMA FourWrites ==
  ASSUME NEW b, \A i \in 1 .. 4 : b[i] \in {0, 1}
  PROVE  /\ Four(b) \in 0 .. 15
         /\ (Four(b) \div 8) % 2 = b[1]
         /\ (Four(b) \div 4) % 2 = b[2]
         /\ (Four(b) \div 2) % 2 = b[3]
         /\ (Four(b) \div 1) % 2 = b[4]
<1>1. b[1] \in {0, 1} /\ b[2] \in {0, 1} /\ b[3] \in {0, 1} /\ b[4] \in {0, 1}
  OBVIOUS
<1>2. QED
  BY <1>1 DEF Four

\* The same of five bits, ...
LEMMA FiveWrites ==
  ASSUME NEW b, \A i \in 1 .. 5 : b[i] \in {0, 1}
  PROVE  /\ Five(b) \in 0 .. 31
         /\ (Five(b) \div 16) % 2 = b[1]
         /\ (Five(b) \div 8) % 2 = b[2]
         /\ (Five(b) \div 4) % 2 = b[3]
         /\ (Five(b) \div 2) % 2 = b[4]
         /\ (Five(b) \div 1) % 2 = b[5]
<1>1. b[1] \in {0, 1} /\ b[2] \in {0, 1} /\ b[3] \in {0, 1} /\ b[4] \in {0, 1}
      /\ b[5] \in {0, 1}
  OBVIOUS
<1>2. QED
  BY <1>1 DEF Four, Five

\* ... of six, ...
LEMMA SixWrites ==
  ASSUME NEW b, \A i \in 1 .. 6 : b[i] \in {0, 1}
  PROVE  /\ Six(b) \in 0 .. 63
         /\ (Six(b) \div 32) % 2 = b[1]
         /\ (Six(b) \div 16) % 2 = b[2]
         /\ (Six(b) \div 8) % 2 = b[3]
         /\ (Six(b) \div 4) % 2 = b[4]
         /\ (Six(b) \div 2) % 2 = b[5]
         /\ (Six(b) \div 1) % 2 = b[6]
<1>1. b[1] \in {0, 1} /\ b[2] \in {0, 1} /\ b[3] \in {0, 1} /\ b[4] \in {0, 1}
      /\ b[5] \in {0, 1} /\ b[6] \in {0, 1}
  OBVIOUS
<1>2. QED
  BY <1>1 DEF Four, Five, Six

\* Without its last bit.
OneLess(m, n, c) ==
  /\ m % 2 = c /\ m \div 2 = n
  /\ m \div 4 = n \div 2 /\ m \div 8 = n \div 4 /\ m \div 16 = n \div 8
  /\ m \div 32 = n \div 16 /\ m \div 64 = n \div 32 /\ m \div 128 = n \div 64

\* (one bit is dropped by halving)
LEMMA OneBitLess ==
  ASSUME NEW n \in Nat, NEW c \in {0, 1}
  PROVE  OneLess(2 * n + c, n, c)
BY DEF OneLess

\* ... and of eight.
LEMMA EightWrites ==
  ASSUME NEW b, \A i \in 1 .. 8 : b[i] \in {0, 1}
  PROVE  /\ Eight(b) \in 0 .. 255
         /\ (Eight(b) \div 128) % 2 = b[1]
         /\ (Eight(b) \div 64) % 2 = b[2]
         /\ (Eight(b) \div 32) % 2 = b[3]
         /\ (Eight(b) \div 16) % 2 = b[4]
         /\ (Eight(b) \div 8) % 2 = b[5]
         /\ (Eight(b) \div 4) % 2 = b[6]
         /\ (Eight(b) \div 2) % 2 = b[7]
         /\ (Eight(b) \div 1) % 2 = b[8]
<1>1. b[7] \in {0, 1} /\ b[8] \in {0, 1}
  OBVIOUS
<1> DEFINE x == Six(b)
<1>2. /\ x \in 0 .. 63
      /\ (x \div 32) % 2 = b[1] /\ (x \div 16) % 2 = b[2] /\ (x \div 8) % 2 = b[3]
      /\ (x \div 4) % 2 = b[4] /\ (x \div 2) % 2 = b[5] /\ (x \div 1) % 2 = b[6]
  BY SixWrites
<1> DEFINE y == 2 * x + b[7]
<1>3. Eight(b) = 2 * y + b[8]
  BY DEF Eight
<1> HIDE DEF x
<1>4. y \in 0 .. 127 /\ OneLess(y, x, b[7])
  <2>1. y \in 0 .. 127
    BY <1>1, <1>2
  <2>2. x \in Nat
    BY <1>2
  <2>3. OneLess(y, x, b[7])
    BY <1>1, <2>2, OneBitLess
  <2>4. QED
    BY <2>1, <2>3
<1> HIDE DEF y
<1> DEFINE z == 2 * y + b[8]
<1>5. z \in 0 .. 255 /\ OneLess(z, y, b[8])
  <2>1. z \in 0 .. 255
    BY <1>1, <1>4
  <2>2. y \in Nat
    BY <1>4
  <2>3. OneLess(z, y, b[8])
    BY <1>1, <2>2, OneBitLess
  <2>4. QED
    BY <2>1, <2>3
<1>6. Eight(b) = z
  BY <1>3
<1> HIDE DEF z
<1>7. z \div 1 = z /\ x \div 1 = x
  BY <1>2, <1>5
<1>8. /\ z \div 128 = x \div 32 /\ z \div 64 = x \div 16 /\ z \div 32 = x \div 8
      /\ z \div 16 = x \div 4 /\ z \div 8 = x \div 2 /\ z \div 4 = x \div 1
      /\ (z \div 2) % 2 = b[7] /\ (z \div 1) % 2 = b[8]
  BY <1>4, <1>5, <1>7 DEF OneLess
<1>9. QED
  BY <1>2, <1>5, <1>6, <1>8, SMTT(30)

LEMMA FourSum ==
  ASSUME NEW d \in 0 .. 15, NEW b,
         b[1] = (d \div 8) % 2, b[2] = (d \div 4) % 2, b[3] = (d \div 2) % 2,
         b[4] = (d \div 1) % 2
  PROVE  Four(b) = d
BY DEF Four

\* ... of five, ...
LEMMA FiveSum ==
  ASSUME NEW d \in 0 .. 31, NEW b,
         b[1] = (d \div 16) % 2, b[2] = (d \div 8) % 2, b[3] = (d \div 4) % 2,
         b[4] = (d \div 2) % 2, b[5] = (d \div 1) % 2
  PROVE  Five(b) = d
BY DEF Four, Five

\* ... of six, ...
LEMMA SixSum ==
  ASSUME NEW d \in 0 .. 63, NEW b,
         b[1] = (d \div 32) % 2, b[2] = (d \div 16) % 2, b[3] = (d \div 8) % 2,
         b[4] = (d \div 4) % 2, b[5] = (d \div 2) % 2, b[6] = (d \div 1) % 2
  PROVE  Six(b) = d
BY DEF Four, Five, Six

\* ... and of eight.
LEMMA EightSum ==
  ASSUME NEW d \in 0 .. 255, NEW b,
         b[1] = (d \div 128) % 2, b[2] = (d \div 64) % 2, b[3] = (d \div 32) % 2,
         b[4] = (d \div 16) % 2, b[5] = (d \div 8) % 2, b[6] = (d \div 4) % 2,
         b[7] = (d \div 2) % 2, b[8] = (d \div 1) % 2
  PROVE  Eight(b) = d
BY SMTT(30) DEF Four, Five, Six, Eight

\* The bits of a digit, one by one.
LEMMA BitOfIs ==
  ASSUME NEW d
  PROVE  /\ BitOf(d, 4, 0) = (d \div 8) % 2
         /\ BitOf(d, 4, 1) = (d \div 4) % 2
         /\ BitOf(d, 4, 2) = (d \div 2) % 2
         /\ BitOf(d, 4, 3) = (d \div 1) % 2
         /\ BitOf(d, 5, 0) = (d \div 16) % 2
         /\ BitOf(d, 5, 1) = (d \div 8) % 2
         /\ BitOf(d, 5, 2) = (d \div 4) % 2
         /\ BitOf(d, 5, 3) = (d \div 2) % 2
         /\ BitOf(d, 5, 4) = (d \div 1) % 2
         /\ BitOf(d, 6, 0) = (d \div 32) % 2
         /\ BitOf(d, 6, 1) = (d \div 16) % 2
         /\ BitOf(d, 6, 2) = (d \div 8) % 2
         /\ BitOf(d, 6, 3) = (d \div 4) % 2
         /\ BitOf(d, 6, 4) = (d \div 2) % 2
         /\ BitOf(d, 6, 5) = (d \div 1) % 2
         /\ BitOf(d, 8, 0) = (d \div 128) % 2
         /\ BitOf(d, 8, 1) = (d \div 64) % 2
         /\ BitOf(d, 8, 2) = (d \div 32) % 2
         /\ BitOf(d, 8, 3) = (d \div 16) % 2
         /\ BitOf(d, 8, 4) = (d \div 8) % 2
         /\ BitOf(d, 8, 5) = (d \div 4) % 2
         /\ BitOf(d, 8, 6) = (d \div 2) % 2
         /\ BitOf(d, 8, 7) = (d \div 1) % 2
BY DEF BitOf

\* What so many bits write is a digit of which they are the bits, and a digit is
\* what its bits write.
Written(bits, w) ==
  /\ Binary(bits) \in 0 .. 2 ^ w - 1
  /\ \A r \in 0 .. w - 1 : BitOf(Binary(bits), w, r) = bits[r + 1]

\* The number that bits write has these bits.
LEMMA BinaryWrites ==
  ASSUME NEW bits \in Seq({0, 1}), Len(bits) \in Widths
  PROVE  Written(bits, Len(bits))
<1>1. \A i \in 1 .. Len(bits) : bits[i] \in {0, 1}
  BY ElementOfSeq
<1>2. CASE Len(bits) = 4
  <2>1. Binary(bits) = Four(bits)
    BY <1>2, BinarySums
  <2> DEFINE d == Four(bits)
  <2>2. /\ d \in 0 .. 15
        /\ (d \div 8) % 2 = bits[1]
        /\ (d \div 4) % 2 = bits[2]
        /\ (d \div 2) % 2 = bits[3]
        /\ (d \div 1) % 2 = bits[4]
    BY <1>1, <1>2, FourWrites
  <2> HIDE DEF d
  <2>3. BitOf(d, 4, 0) = bits[1] /\ BitOf(d, 4, 1) = bits[2] /\ BitOf(d, 4, 2) = bits[3]
        /\ BitOf(d, 4, 3) = bits[4]
    BY <2>2, BitOfIs
  <2>4. \A r \in 0 .. 4 - 1 : BitOf(d, 4, r) = bits[r + 1]
    <3>1. SUFFICES ASSUME NEW r \in 0 .. 4 - 1 PROVE BitOf(d, 4, r) = bits[r + 1]
      OBVIOUS
    <3>2. r \in {0, 1, 2, 3}
      OBVIOUS
    <3>3. QED
      BY <2>3, <3>2
  <2>5. d \in 0 .. 2 ^ 4 - 1
    BY <2>2
  <2>6. Written(bits, 4)
    BY <2>1, <2>4, <2>5 DEF d, Written
  <2>7. QED
    BY <1>2, <2>6
<1>3. CASE Len(bits) = 5
  <2>1. Binary(bits) = Five(bits)
    BY <1>3, BinarySums
  <2> DEFINE d == Five(bits)
  <2>2. /\ d \in 0 .. 31
        /\ (d \div 16) % 2 = bits[1]
        /\ (d \div 8) % 2 = bits[2]
        /\ (d \div 4) % 2 = bits[3]
        /\ (d \div 2) % 2 = bits[4]
        /\ (d \div 1) % 2 = bits[5]
    BY <1>1, <1>3, FiveWrites
  <2> HIDE DEF d
  <2>3. BitOf(d, 5, 0) = bits[1] /\ BitOf(d, 5, 1) = bits[2] /\ BitOf(d, 5, 2) = bits[3]
        /\ BitOf(d, 5, 3) = bits[4] /\ BitOf(d, 5, 4) = bits[5]
    BY <2>2, BitOfIs
  <2>4. \A r \in 0 .. 5 - 1 : BitOf(d, 5, r) = bits[r + 1]
    <3>1. SUFFICES ASSUME NEW r \in 0 .. 5 - 1 PROVE BitOf(d, 5, r) = bits[r + 1]
      OBVIOUS
    <3>2. r \in {0, 1, 2, 3, 4}
      OBVIOUS
    <3>3. QED
      BY <2>3, <3>2
  <2>5. d \in 0 .. 2 ^ 5 - 1
    BY <2>2
  <2>6. Written(bits, 5)
    BY <2>1, <2>4, <2>5 DEF d, Written
  <2>7. QED
    BY <1>3, <2>6
<1>4. CASE Len(bits) = 6
  <2>1. Binary(bits) = Six(bits)
    BY <1>4, BinarySums
  <2> DEFINE d == Six(bits)
  <2>2. /\ d \in 0 .. 63
        /\ (d \div 32) % 2 = bits[1]
        /\ (d \div 16) % 2 = bits[2]
        /\ (d \div 8) % 2 = bits[3]
        /\ (d \div 4) % 2 = bits[4]
        /\ (d \div 2) % 2 = bits[5]
        /\ (d \div 1) % 2 = bits[6]
    BY <1>1, <1>4, SixWrites
  <2> HIDE DEF d
  <2>3. BitOf(d, 6, 0) = bits[1] /\ BitOf(d, 6, 1) = bits[2] /\ BitOf(d, 6, 2) = bits[3]
        /\ BitOf(d, 6, 3) = bits[4] /\ BitOf(d, 6, 4) = bits[5] /\ BitOf(d, 6, 5) = bits[6]
    BY <2>2, BitOfIs
  <2>4. \A r \in 0 .. 6 - 1 : BitOf(d, 6, r) = bits[r + 1]
    <3>1. SUFFICES ASSUME NEW r \in 0 .. 6 - 1 PROVE BitOf(d, 6, r) = bits[r + 1]
      OBVIOUS
    <3>2. r \in {0, 1, 2, 3, 4, 5}
      OBVIOUS
    <3>3. QED
      BY <2>3, <3>2
  <2>5. d \in 0 .. 2 ^ 6 - 1
    BY <2>2
  <2>6. Written(bits, 6)
    BY <2>1, <2>4, <2>5 DEF d, Written
  <2>7. QED
    BY <1>4, <2>6
<1>5. CASE Len(bits) = 8
  <2>1. Binary(bits) = Eight(bits)
    BY <1>5, BinarySums
  <2> DEFINE d == Eight(bits)
  <2>2. /\ d \in 0 .. 255
        /\ (d \div 128) % 2 = bits[1]
        /\ (d \div 64) % 2 = bits[2]
        /\ (d \div 32) % 2 = bits[3]
        /\ (d \div 16) % 2 = bits[4]
        /\ (d \div 8) % 2 = bits[5]
        /\ (d \div 4) % 2 = bits[6]
        /\ (d \div 2) % 2 = bits[7]
        /\ (d \div 1) % 2 = bits[8]
    BY <1>1, <1>5, EightWrites
  <2> HIDE DEF d
  <2>3. BitOf(d, 8, 0) = bits[1] /\ BitOf(d, 8, 1) = bits[2] /\ BitOf(d, 8, 2) = bits[3]
        /\ BitOf(d, 8, 3) = bits[4] /\ BitOf(d, 8, 4) = bits[5] /\ BitOf(d, 8, 5) = bits[6]
        /\ BitOf(d, 8, 6) = bits[7] /\ BitOf(d, 8, 7) = bits[8]
    BY <2>2, BitOfIs, ZenonT(60)
  <2>4. \A r \in 0 .. 8 - 1 : BitOf(d, 8, r) = bits[r + 1]
    <3>1. SUFFICES ASSUME NEW r \in 0 .. 8 - 1 PROVE BitOf(d, 8, r) = bits[r + 1]
      OBVIOUS
    <3>2. r \in {0, 1, 2, 3, 4, 5, 6, 7}
      OBVIOUS
    <3>3. QED
      BY <2>3, <3>2
  <2>5. d \in 0 .. 2 ^ 8 - 1
    BY <2>2, SMTT(30)
  <2>6. Written(bits, 8)
    BY <2>1, <2>4, <2>5 DEF d, Written
  <2>7. QED
    BY <1>5, <2>6
<1>6. QED
  BY <1>2, <1>3, <1>4, <1>5 DEF Widths

\* A digit is the number that its bits write.
LEMMA BinaryReads ==
  ASSUME NEW bits \in Seq({0, 1}), Len(bits) \in Widths, NEW d \in 0 .. 2 ^ Len(bits) - 1,
         \A i \in 1 .. Len(bits) : bits[i] = BitOf(d, Len(bits), i - 1)
  PROVE  Binary(bits) = d
<1>1. CASE Len(bits) = 4
  <2>1. Binary(bits) = Four(bits)
    BY <1>1, BinarySums
  <2>2. 2 ^ 4 - 1 = 15
    OBVIOUS
  <2>3. d \in 0 .. 15
    BY <1>1, <2>2
  <2>4. \A i \in 1 .. 4 : bits[i] = BitOf(d, 4, i - 1)
    BY <1>1
  <2>5. bits[1] = BitOf(d, 4, 0) /\ bits[2] = BitOf(d, 4, 1) /\ bits[3] = BitOf(d, 4, 2)
        /\ bits[4] = BitOf(d, 4, 3)
    BY <2>4
  <2>6. bits[1] = (d \div 8) % 2 /\ bits[2] = (d \div 4) % 2 /\ bits[3] = (d \div 2) % 2
        /\ bits[4] = (d \div 1) % 2
    BY <2>5, BitOfIs
  <2>7. QED
    BY <2>1, <2>3, <2>6, FourSum
<1>2. CASE Len(bits) = 5
  <2>1. Binary(bits) = Five(bits)
    BY <1>2, BinarySums
  <2>2. 2 ^ 5 - 1 = 31
    OBVIOUS
  <2>3. d \in 0 .. 31
    BY <1>2, <2>2
  <2>4. \A i \in 1 .. 5 : bits[i] = BitOf(d, 5, i - 1)
    BY <1>2
  <2>5. bits[1] = BitOf(d, 5, 0) /\ bits[2] = BitOf(d, 5, 1) /\ bits[3] = BitOf(d, 5, 2)
        /\ bits[4] = BitOf(d, 5, 3) /\ bits[5] = BitOf(d, 5, 4)
    BY <2>4
  <2>6. bits[1] = (d \div 16) % 2 /\ bits[2] = (d \div 8) % 2 /\ bits[3] = (d \div 4) % 2
        /\ bits[4] = (d \div 2) % 2 /\ bits[5] = (d \div 1) % 2
    BY <2>5, BitOfIs
  <2>7. QED
    BY <2>1, <2>3, <2>6, FiveSum
<1>3. CASE Len(bits) = 6
  <2>1. Binary(bits) = Six(bits)
    BY <1>3, BinarySums
  <2>2. 2 ^ 6 - 1 = 63
    OBVIOUS
  <2>3. d \in 0 .. 63
    BY <1>3, <2>2
  <2>4. \A i \in 1 .. 6 : bits[i] = BitOf(d, 6, i - 1)
    BY <1>3
  <2>5. bits[1] = BitOf(d, 6, 0) /\ bits[2] = BitOf(d, 6, 1) /\ bits[3] = BitOf(d, 6, 2)
        /\ bits[4] = BitOf(d, 6, 3) /\ bits[5] = BitOf(d, 6, 4) /\ bits[6] = BitOf(d, 6, 5)
    BY <2>4
  <2>6. bits[1] = (d \div 32) % 2 /\ bits[2] = (d \div 16) % 2 /\ bits[3] = (d \div 8) % 2
        /\ bits[4] = (d \div 4) % 2 /\ bits[5] = (d \div 2) % 2 /\ bits[6] = (d \div 1) % 2
    BY <2>5, BitOfIs
  <2>7. QED
    BY <2>1, <2>3, <2>6, SixSum
<1>4. CASE Len(bits) = 8
  <2>1. Binary(bits) = Eight(bits)
    BY <1>4, BinarySums
  <2>2. 2 ^ 8 - 1 = 255
    OBVIOUS
  <2>3. d \in 0 .. 255
    BY <1>4, <2>2
  <2>4. \A i \in 1 .. 8 : bits[i] = BitOf(d, 8, i - 1)
    BY <1>4
  <2>5. bits[1] = BitOf(d, 8, 0) /\ bits[2] = BitOf(d, 8, 1) /\ bits[3] = BitOf(d, 8, 2)
        /\ bits[4] = BitOf(d, 8, 3) /\ bits[5] = BitOf(d, 8, 4) /\ bits[6] = BitOf(d, 8, 5)
        /\ bits[7] = BitOf(d, 8, 6) /\ bits[8] = BitOf(d, 8, 7)
    BY <2>4
  <2>6. bits[1] = (d \div 128) % 2 /\ bits[2] = (d \div 64) % 2 /\ bits[3] = (d \div 32) % 2
        /\ bits[4] = (d \div 16) % 2 /\ bits[5] = (d \div 8) % 2 /\ bits[6] = (d \div 4) % 2
        /\ bits[7] = (d \div 2) % 2 /\ bits[8] = (d \div 1) % 2
    BY <2>5, BitOfIs, ZenonT(60)
  <2>7. QED
    BY <2>1, <2>3, <2>6, EightSum, ZenonT(60)
<1>5. QED
  BY <1>1, <1>2, <1>3, <1>4 DEF Widths

\* Digits of another width are digits of that width, with the bits they were made of.
Recut(digits, from, to) ==
  /\ Regroup(digits, from, to) \in Seq(0 .. 2 ^ to - 1)
  /\ Regroup(digits, from, to) \in Seq(Nat)
  /\ Len(Regroup(digits, from, to)) = Pieces(digits, from, to)
  /\ Pieces(digits, from, to) \in Nat
  /\ \A j \in 1 .. Pieces(digits, from, to) : \A r \in 0 .. to - 1 :
       BitOf(Regroup(digits, from, to)[j], to, r) = Bit(digits, from, (j - 1) * to + r)

\* Regrouped digits have the bits of the digits.
LEMMA RegroupCuts ==
  ASSUME NEW from \in Widths, NEW to \in Widths, NEW digits \in Seq(Nat)
  PROVE  Recut(digits, from, to)
<1> DEFINE n == Pieces(digits, from, to)
           cut == Regroup(digits, from, to)
           D == 0 .. 2 ^ to - 1
<1>1. to \in Nat \ {0} /\ n \in Nat
  <2>1. Len(digits) \in Nat /\ from \in Nat /\ to \in Nat \ {0}
    BY LenProperties DEF Widths
  <2>2. Len(digits) * from \in Nat
    BY <2>1
  <2> DEFINE all == Len(digits) * from
  <2> HIDE DEF all
  <2>3. all \div to \in Nat
    BY <2>1, <2>2, ModIs DEF all
  <2>4. QED
    BY <2>1, <2>3 DEF Pieces, all
<1>2. cut = [j \in 1 .. n |-> Binary(BitsAt(digits, from, to, j))]
  BY RegroupIs
<1>3. ASSUME NEW j \in 1 .. n
      PROVE  /\ Binary(BitsAt(digits, from, to, j)) \in D
             /\ \A r \in 0 .. to - 1 :
                  BitOf(Binary(BitsAt(digits, from, to, j)), to, r)
                    = Bit(digits, from, (j - 1) * to + r)
  <2> DEFINE bits == BitsAt(digits, from, to, j)
  <2>1. /\ bits \in Seq({0, 1}) /\ Len(bits) = to
        /\ \A i \in 1 .. to : bits[i] = Bit(digits, from, (j - 1) * to + i - 1)
    BY BitsAtIs
  <2> HIDE DEF bits
  <2>2. Written(bits, Len(bits))
    BY <2>1, BinaryWrites
  <2>3. Written(bits, to)
    BY <2>1, <2>2
  <2>4. ASSUME NEW r \in 0 .. to - 1
        PROVE  BitOf(Binary(bits), to, r) = Bit(digits, from, (j - 1) * to + r)
    <3>1. r + 1 \in 1 .. to /\ (j - 1) * to + (r + 1) - 1 = (j - 1) * to + r
      <4>1. r \in Nat /\ r + 1 \in 1 .. to
        BY <1>1
      <4>2. j - 1 \in Nat /\ to \in Nat
        BY <1>1
      <4>3. (j - 1) * to \in Nat
        BY <4>2
      <4>4. QED
        BY <4>1, <4>3
    <3>2. bits[r + 1] = Bit(digits, from, (j - 1) * to + (r + 1) - 1)
      BY <2>1, <3>1
    <3>3. BitOf(Binary(bits), to, r) = bits[r + 1]
      BY <2>3 DEF Written
    <3>4. QED
      BY <3>1, <3>2, <3>3
  <2>5. Binary(bits) \in D
    BY <2>3 DEF Written
  <2>6. QED
    BY <2>4, <2>5 DEF bits
<1> HIDE DEF n, cut
<1>4. D \subseteq Nat
  OBVIOUS
<1> HIDE DEF D
<1>5. cut \in [1 .. n -> D] /\ cut \in [1 .. n -> Nat]
  BY <1>2, <1>3, <1>4
<1>6. cut \in Seq(D) /\ cut \in Seq(Nat) /\ Len(cut) = n
  BY <1>1, <1>5, IsRow
<1>7. ASSUME NEW j \in 1 .. n, NEW r \in 0 .. to - 1
      PROVE  BitOf(cut[j], to, r) = Bit(digits, from, (j - 1) * to + r)
  <2>1. cut[j] = Binary(BitsAt(digits, from, to, j))
    BY <1>2
  <2>2. QED
    BY <1>3, <2>1
<1>8. QED
  BY <1>1, <1>6, <1>7 DEF Recut, n, cut, D

\* The bits of digits one behind the other.
LEMMA BitsJoin ==
  ASSUME NEW w \in Widths, NEW p \in Seq(Nat), NEW q \in Seq(Nat), NEW i
  PROVE  /\ IsBit(p, w, i) => Bit(p \o q, w, i) = Bit(p, w, i)
         /\ IsBit(q, w, i) => Bit(p \o q, w, w * Len(p) + i) = Bit(q, w, i)
<1>1. /\ w \in Nat \ {0} /\ Len(p) \in Nat /\ Len(q) \in Nat
      /\ \A k \in 1 .. Len(p) : (p \o q)[k] = p[k]
      /\ \A k \in 1 .. Len(q) : (p \o q)[Len(p) + k] = q[k]
  BY LenProperties, ConcatProperties DEF Widths
<1>2. ASSUME IsBit(p, w, i) PROVE Bit(p \o q, w, i) = Bit(p, w, i)
  <2>1. PICK k \in 0 .. Len(p) - 1, r \in 0 .. w - 1 : i = w * k + r
    BY <1>2, BitsOfSeq
  <2>2. k \in Nat /\ k + 1 \in 1 .. Len(p)
    BY <1>1
  <2>3. Bit(p \o q, w, w * k + r) = BitOf((p \o q)[k + 1], w, r)
    BY <2>2, BitIs
  <2>4. Bit(p, w, w * k + r) = BitOf(p[k + 1], w, r)
    BY <2>2, BitIs
  <2>5. QED
    BY <1>1, <2>1, <2>2, <2>3, <2>4
<1>3. ASSUME IsBit(q, w, i) PROVE Bit(p \o q, w, w * Len(p) + i) = Bit(q, w, i)
  <2>1. PICK k \in 0 .. Len(q) - 1, r \in 0 .. w - 1 : i = w * k + r
    BY <1>3, BitsOfSeq
  <2>2. k \in Nat /\ k + 1 \in 1 .. Len(q) /\ Len(p) + k \in Nat
        /\ (Len(p) + k) + 1 = Len(p) + (k + 1)
    BY <1>1
  <2>3. w * Len(p) + i = w * (Len(p) + k) + r
    <3>1. w * (Len(p) + k) = w * Len(p) + w * k /\ w * Len(p) \in Nat /\ w * k \in Nat
      BY <1>1, <2>2
    <3>2. QED
      BY <2>1, <3>1
  <2>4. Bit(p \o q, w, w * (Len(p) + k) + r) = BitOf((p \o q)[(Len(p) + k) + 1], w, r)
    BY <2>2, BitIs
  <2>5. Bit(q, w, w * k + r) = BitOf(q[k + 1], w, r)
    BY <2>2, BitIs
  <2>6. (p \o q)[(Len(p) + k) + 1] = q[k + 1]
    BY <1>1, <2>2
  <2>7. QED
    BY <2>1, <2>3, <2>4, <2>5, <2>6
<1>4. QED
  BY <1>2, <1>3

\* What is whole is a quotient of its own.
LEMMA DivSum ==
  ASSUME NEW L \in Nat \ {0}, NEW k \in Nat, NEW n \in Nat
  PROVE  (L * k + n) \div L = k + (n \div L) /\ (L * k + n) % L = n % L
<1> DEFINE q == n \div L
           r == n % L
<1>1. n = L * q + r /\ q \in Nat /\ r \in 0 .. L - 1
  BY ModIs
<1> HIDE DEF q, r
<1>2. L * (k + q) = L * k + L * q /\ L * k \in Nat /\ L * q \in Nat /\ k + q \in Nat
  BY <1>1
<1>3. (L * (k + q) + r) \div L = k + q /\ (L * (k + q) + r) % L = r
  BY <1>1, <1>2, DivIs
<1>4. L * (k + q) + r = L * k + n
  BY <1>1, <1>2
<1>5. QED
  BY <1>3, <1>4 DEF q, r

\* Digits that fill pieces of the other width are cut by themselves.
RegroupJoined(p, q, from, to) ==
  Regroup(p \o q, from, to) = Regroup(p, from, to) \o Regroup(q, from, to)

\* As many pieces of the first as fill them, and then those of the second.
PiecesAdd(from, to, a, b, k) ==
  /\ (a * from) \div to = k
  /\ ((a + b) * from) \div to = k + ((b * from) \div to)

\* They add up.
LEMMA PiecesSum ==
  ASSUME NEW from \in Nat \ {0}, NEW to \in Nat \ {0}, NEW a \in Nat, NEW b \in Nat,
         NEW k \in Nat, from * a = to * k
  PROVE  PiecesAdd(from, to, a, b, k)
<1>1. /\ b * from \in Nat /\ a * from \in Nat /\ a * from = from * a
      /\ (a + b) * from = a * from + b * from
  OBVIOUS
<1> DEFINE n == b * from
           m == a * from
<1>2. (to * k + n) \div to = k + (n \div to)
  BY <1>1, DivSum
<1>3. (to * k + 0) \div to = k
  <2>1. 0 \in 0 .. to - 1
    OBVIOUS
  <2>2. QED
    BY <2>1, DivIs
<1> HIDE DEF n, m
<1>4. m = to * k /\ (a + b) * from = m + n /\ m \in Nat /\ m + 0 = m
  BY <1>1 DEF n, m
<1>5. m \div to = k /\ ((a + b) * from) \div to = k + (n \div to)
  BY <1>2, <1>3, <1>4
<1>6. QED
  BY <1>5 DEF n, m, PiecesAdd

\* Digits behind whole pieces are regrouped for themselves.
LEMMA RegroupJoin ==
  ASSUME NEW from \in Widths, NEW to \in Widths, NEW p \in Seq(Nat), NEW q \in Seq(Nat),
         Whole(to, from * Len(p))
  PROVE  RegroupJoined(p, q, from, to)
<1> DEFINE all == p \o q
           R == Regroup(all, from, to)
           P == Regroup(p, from, to)
           Q == Regroup(q, from, to)
<1>1. PICK k \in Nat : from * Len(p) = to * k
  BY DEF Whole
<1>2. /\ from \in Nat \ {0} /\ to \in Nat \ {0} /\ Len(p) \in Nat /\ Len(q) \in Nat
      /\ all \in Seq(Nat) /\ Len(all) = Len(p) + Len(q)
  BY LenProperties, ConcatProperties DEF Widths
<1>3. Pieces(p, from, to) = k /\ Pieces(all, from, to) = k + Pieces(q, from, to)
  <2>1. PiecesAdd(from, to, Len(p), Len(q), k)
    BY <1>1, <1>2, PiecesSum
  <2>2. QED
    BY <1>2, <2>1 DEF Pieces, PiecesAdd
<1> DEFINE l == Pieces(q, from, to)
<1>4. /\ R \in Seq(Nat) /\ Len(R) = k + l
      /\ P \in Seq(Nat) /\ Len(P) = k
      /\ Q \in Seq(Nat) /\ Len(Q) = l /\ l \in Nat
  <2>1. Recut(all, from, to) /\ Recut(p, from, to) /\ Recut(q, from, to)
    BY <1>2, RegroupCuts
  <2>2. QED
    BY <1>3, <2>1 DEF Recut
<1>5. /\ \A j \in 1 .. k + l : R[j] = Binary(BitsAt(all, from, to, j))
      /\ \A j \in 1 .. k : P[j] = Binary(BitsAt(p, from, to, j))
      /\ \A j \in 1 .. l : Q[j] = Binary(BitsAt(q, from, to, j))
  BY <1>3, RegroupIs
<1> HIDE DEF all, R, P, Q, l
<1>6. ASSUME NEW j \in 1 .. k PROVE R[j] = P[j]
  <2>1. j \in 1 .. Pieces(p, from, to) /\ j \in 1 .. k + l
    BY <1>3, <1>4
  <2>2. \A n \in 1 .. to : Bit(all, from, (j - 1) * to + n - 1) = Bit(p, from, (j - 1) * to + n - 1)
    <3>1. SUFFICES ASSUME NEW n \in 1 .. to
          PROVE  Bit(all, from, (j - 1) * to + n - 1) = Bit(p, from, (j - 1) * to + n - 1)
      OBVIOUS
    <3>2. IsBit(p, from, (j - 1) * to + n - 1)
      BY <2>1, BitsAtIs
    <3>3. QED
      BY <3>2, BitsJoin DEF all
  <2>3. BitsAt(all, from, to, j) = BitsAt(p, from, to, j)
    BY <2>2 DEF BitsAt
  <2>4. QED
    BY <1>5, <2>1, <2>3
<1>7. ASSUME NEW j \in 1 .. l PROVE R[k + j] = Q[j]
  <2>1. j \in 1 .. Pieces(q, from, to) /\ k + j \in 1 .. k + l /\ j - 1 \in Nat
    BY <1>4 DEF l
  <2>2. \A n \in 1 .. to :
          Bit(all, from, (k + j - 1) * to + n - 1) = Bit(q, from, (j - 1) * to + n - 1)
    <3>1. SUFFICES ASSUME NEW n \in 1 .. to
          PROVE  Bit(all, from, (k + j - 1) * to + n - 1) = Bit(q, from, (j - 1) * to + n - 1)
      OBVIOUS
    <3>2. IsBit(q, from, (j - 1) * to + n - 1)
      BY <2>1, BitsAtIs
    <3>3. Bit(all, from, from * Len(p) + ((j - 1) * to + n - 1))
            = Bit(q, from, (j - 1) * to + n - 1)
      BY <3>2, BitsJoin DEF all
    <3>4. (k + j - 1) * to + n - 1 = from * Len(p) + ((j - 1) * to + n - 1)
      <4>1. (k + (j - 1)) * to = to * k + (j - 1) * to /\ to * k \in Nat /\ (j - 1) * to \in Nat
        BY <1>2, <2>1
      <4>2. k + j - 1 = k + (j - 1)
        BY <2>1
      <4>3. QED
        BY <1>1, <4>1, <4>2
    <3>5. QED
      BY <3>3, <3>4
  <2>3. BitsAt(all, from, to, k + j) = BitsAt(q, from, to, j)
    BY <2>2 DEF BitsAt
  <2>4. QED
    BY <1>5, <2>1, <2>3
<1>8. /\ Len(R) = Len(P) + Len(Q)
      /\ \A i \in 1 .. Len(P) : R[i] = P[i]
      /\ \A i \in 1 .. Len(Q) : R[Len(P) + i] = Q[i]
  BY <1>4, <1>6, <1>7
<1>9. R = P \o Q
  BY <1>4, <1>8, RowsJoin
<1>10. QED
  BY <1>9 DEF RegroupJoined, R, P, Q, all

-----------------------------------------------------------------------------
(***************************************************************************)
(* Blocks of bytes as characters.                                          *)
(***************************************************************************)
Bases == Base16 \cup Base32 \cup Base64

\* The sizes of each base.
LEMMA BaseIs ==
  ASSUME NEW base
  PROVE  /\ base \in Base16 => Bytes(base) = 1 /\ Chars(base) = 2 /\ Bits(base) = 4
         /\ base \in Base32 => Bytes(base) = 5 /\ Chars(base) = 8 /\ Bits(base) = 5
         /\ base \in Base64 => Bytes(base) = 3 /\ Chars(base) = 4 /\ Bits(base) = 6
<1>1. ASSUME base \in Base16 PROVE Bytes(base) = 1 /\ Chars(base) = 2
  <2>1. base \notin Base32 /\ base \notin Base64
    BY <1>1 DEF Base16, Base32, Base64
  <2>2. QED
    BY <1>1, <2>1 DEF Bytes, Chars
<1>2. ASSUME base \in Base32 PROVE Bytes(base) = 5 /\ Chars(base) = 8
  <2>1. base \notin Base16 /\ base \notin Base64
    BY <1>2 DEF Base16, Base32, Base64
  <2>2. QED
    BY <1>2, <2>1 DEF Bytes, Chars
<1>3. ASSUME base \in Base64 PROVE Bytes(base) = 3 /\ Chars(base) = 4
  <2>1. base \notin Base16 /\ base \notin Base32
    BY <1>3 DEF Base16, Base32, Base64
  <2>2. QED
    BY <1>3, <2>1 DEF Bytes, Chars
<1>4. (1 * 8) \div 2 = 4 /\ (5 * 8) \div 8 = 5 /\ (3 * 8) \div 4 = 6
  OBVIOUS
<1>5. Bits(base) = (Bytes(base) * 8) \div Chars(base)
  BY DEF Bits
<1>6. QED
  BY <1>1, <1>2, <1>3, <1>4, <1>5

\* A digit of the base.
LEMMA CharIs ==
  ASSUME NEW base \in Bases, NEW d \in 0 .. 2 ^ Bits(base) - 1
  PROVE  Char(base, d) \in 0 .. 255
<1>1. 2 ^ 4 = 16 /\ 2 ^ 5 = 32 /\ 2 ^ 6 = 64
  OBVIOUS
<1>2. CASE base \in Base16
  <2>1. d \in 0 .. 15
    <3>1. d \in 0 .. 2 ^ 4 - 1
      BY <1>2, BaseIs
    <3>2. QED
      BY <3>1
  <2>2. CASE base \in {"hex", "base16"}
    BY <2>1, <2>2 DEF Char
  <2>3. CASE base = "modhex"
    <3>1. Char(base, d) = ModHex[d + 1]
      <4>1. base # "hex" /\ base \notin {"base16", "base32hex"} /\ base # "base32"
            /\ base \notin Base64
        BY <2>3 DEF Base64
      <4>2. QED
        BY <2>3, <4>1 DEF Char
    <3>2. ModHex[d + 1] \in 0 .. 255
      BY <2>1 DEF ModHex
    <3>3. QED
      BY <3>1, <3>2
  <2>4. QED
    BY <1>2, <2>2, <2>3 DEF Base16
<1>3. CASE base \in Base32
  <2>1. d \in 0 .. 31
    <3>1. d \in 0 .. 2 ^ 5 - 1
      BY <1>3, BaseIs
    <3>2. QED
      BY <3>1
  <2>2. base \in {"base32", "base32hex"}
    BY <1>3 DEF Base32
  <2>3. QED
    BY <2>1, <2>2 DEF Char
<1>4. CASE base \in Base64
  <2>1. d \in 0 .. 63
    <3>1. d \in 0 .. 2 ^ 6 - 1
      BY <1>4, BaseIs
    <3>2. QED
      BY <3>1
  <2>2. base \in {"base64", "url64"}
    BY <1>4 DEF Base64
  <2>3. Char(base, d) =
          CASE d < 26 -> 65 + d
            [] d \in 26 .. 51 -> 71 + d
            [] d \in 52 .. 61 -> d - 4
            [] d = 62 -> IF base = "base64" THEN 43 ELSE 45
            [] d = 63 -> IF base = "base64" THEN 47 ELSE 95
    BY <2>2 DEF Char, Base64
  <2>4. d \in 0 .. 25 \/ d \in 26 .. 51 \/ d \in 52 .. 61 \/ d = 62 \/ d = 63
    BY <2>1
  <2>5. QED
    BY <2>3, <2>4
<1>5. QED
  BY <1>2, <1>3, <1>4 DEF Bases

\* How many bytes fill the last block, how many blocks that makes, and how many
\* characters tell something.
Missing(base, n) == Up(n, Bytes(base)) - n
Blocks(base, n) == (n + Bytes(base) - 1) \div Bytes(base)
Telling(base, n) == Up(n * 8, Bits(base)) \div Bits(base)

\* The last block is filled up, ...
Filled(base, n) ==
  /\ Missing(base, n) \in 0 .. Bytes(base) - 1
  /\ Blocks(base, n) \in Nat
  /\ n + Missing(base, n) = Bytes(base) * Blocks(base, n)
  /\ Telling(base, n) \in 0 .. Chars(base) * Blocks(base, n)

\* ... also behind k whole blocks.
FilledBehind(base, k, n) ==
  /\ Missing(base, Bytes(base) * k + n) = Missing(base, n)
  /\ Blocks(base, Bytes(base) * k + n) = k + Blocks(base, n)
  /\ Telling(base, Bytes(base) * k + n) = Chars(base) * k + Telling(base, n)

\* It is filled up.
LEMMA FillIs ==
  ASSUME NEW base \in Bases, NEW n \in Nat
  PROVE  Filled(base, n)
<1>1. CASE base \in Base16
  BY <1>1, BaseIs DEF Filled, Missing, Blocks, Telling, Up
<1>2. CASE base \in Base32
  BY <1>2, BaseIs DEF Filled, Missing, Blocks, Telling, Up
<1>3. CASE base \in Base64
  BY <1>3, BaseIs DEF Filled, Missing, Blocks, Telling, Up
<1>4. QED
  BY <1>1, <1>2, <1>3 DEF Bases

\* Rounding up behind whole pieces.
LEMMA UpBehind ==
  ASSUME NEW L \in Nat \ {0}, NEW k \in Nat, NEW n \in Nat
  PROVE  /\ (L * k + n + L - 1) \div L = k + ((n + L - 1) \div L)
         /\ Up(L * k + n, L) = L * k + Up(n, L)
         /\ Up(n, L) \div L = (n + L - 1) \div L
<1> DEFINE m == n + L - 1
           q == m \div L
<1>1. m \in Nat /\ q \in Nat
  BY ModIs
<1>2. L * k \in Nat /\ L * q \in Nat /\ (k + q) * L = L * k + L * q /\ q * L = L * q
  BY <1>1
<1>3. (L * k + m) \div L = k + q
  <2> HIDE DEF m
  <2>1. QED
    BY <1>1, DivSum
<1>4. (L * q + 0) \div L = q
  <2> HIDE DEF q, m
  <2>1. 0 \in 0 .. L - 1
    OBVIOUS
  <2>2. QED
    BY <1>1, <2>1, DivIs
<1>5. (L * k + n) + L - 1 = L * k + m
  BY <1>2
<1>6. Up(n, L) = q * L /\ Up(L * k + n, L) = (((L * k + n) + L - 1) \div L) * L
  BY DEF Up
<1>7. L * k + n + L - 1 = L * k + m /\ L * q + 0 = L * q
  BY <1>2
<1> HIDE DEF q, m
<1>8. Up(L * k + n, L) = L * k + Up(n, L) /\ Up(n, L) \div L = q
  BY <1>2, <1>3, <1>4, <1>5, <1>6, <1>7
<1>9. (L * k + n + L - 1) \div L = k + q
  BY <1>3, <1>7
<1>10. QED
  BY <1>8, <1>9 DEF q, m

\* And behind k whole blocks.
LEMMA FillBehind ==
  ASSUME NEW base \in Bases, NEW n \in Nat, NEW k \in Nat
  PROVE  FilledBehind(base, k, n)
<1> DEFINE B == Bytes(base)
           C == Chars(base)
           b == Bits(base)
<1>1. B \in Nat \ {0} /\ C \in Nat \ {0} /\ b \in Nat \ {0} /\ 8 * B = b * C
  BY BaseIs DEF Bases
<1> HIDE DEF B, C, b
<1>2. /\ C * k \in Nat /\ B * k \in Nat /\ 8 * n \in Nat /\ n * 8 = 8 * n
      /\ (B * k + n) * 8 = b * (C * k) + 8 * n
  <2>1. C * k \in Nat /\ B * k \in Nat /\ 8 * n \in Nat /\ n * 8 = 8 * n
    BY <1>1
  <2>2. (B * k + n) * 8 = (8 * B) * k + 8 * n
    BY <1>1
  <2>3. (b * C) * k = b * (C * k)
    BY <1>1
  <2>4. QED
    BY <1>1, <2>1, <2>2, <2>3
<1> DEFINE m == 8 * n
           c == C * k
           a == B * k
<1> HIDE DEF m, c
<1>3. /\ Up(b * c + m, b) \div b = ((b * c + m) + b - 1) \div b
      /\ Up(m, b) \div b = (m + b - 1) \div b
      /\ (b * c + m + b - 1) \div b = c + ((m + b - 1) \div b)
  <2>1. b * c + m \in Nat /\ c \in Nat /\ m \in Nat
    BY <1>1, <1>2 DEF m, c
  <2>2. QED
    BY <1>1, <2>1, UpBehind
<1>4. /\ (B * k + n + B - 1) \div B = k + ((n + B - 1) \div B)
      /\ Up(B * k + n, B) = B * k + Up(n, B)
  BY <1>1, UpBehind
<1>5. Up(n, B) \in Int /\ B * k \in Nat
  <2>1. (n + B - 1) \div B \in Nat
    <3>1. n + B - 1 \in Nat
      BY <1>1
    <3>2. QED
      BY <1>1, <3>1, ModIs
  <2>2. QED
    BY <1>1, <1>2, <2>1 DEF Up
<1>6. Missing(base, B * k + n) = Missing(base, n)
  BY <1>4, <1>5 DEF Missing, B
<1>7. Blocks(base, B * k + n) = k + Blocks(base, n)
  BY <1>4 DEF Blocks, B
<1>8. Telling(base, B * k + n) = C * k + Telling(base, n)
  BY <1>2, <1>3 DEF Telling, b, m, c
<1>9. QED
  BY <1>6, <1>7, <1>8 DEF FilledBehind, B, C

\* A block has as many bits as its characters.
LEMMA BaseSizes ==
  ASSUME NEW base \in Bases
  PROVE  /\ Bytes(base) \in Nat \ {0} /\ Chars(base) \in Nat \ {0} /\ Bits(base) \in Widths
         /\ 8 * Bytes(base) = Bits(base) * Chars(base) /\ 8 \in Widths
         /\ Bytes(base) <= Chars(base)
BY BaseIs DEF Bases, Widths

\* Whole blocks of bytes are whole blocks of characters.
EncodedTo(base, p, k) ==
  /\ Encoded(base, p) \in Seq(0 .. 255) /\ Encoded(base, p) \in Seq(Nat)
  /\ Len(Encoded(base, p)) = Chars(base) * k
  /\ Len(Regroup(p, 8, Bits(base))) = Chars(base) * k
  /\ \A i \in 1 .. Chars(base) * k :
       /\ Encoded(base, p)[i] = Char(base, Regroup(p, 8, Bits(base))[i])
       /\ Regroup(p, 8, Bits(base))[i] \in 0 .. 2 ^ Bits(base) - 1

\* Whole blocks are encoded as so many blocks of characters.
LEMMA EncodedIs ==
  ASSUME NEW base \in Bases, NEW p \in Seq(Nat), NEW k \in Nat, Len(p) = Bytes(base) * k
  PROVE  EncodedTo(base, p, k)
<1> DEFINE b == Bits(base)
           cut == Regroup(p, 8, b)
           D == 0 .. 2 ^ b - 1
           n == Chars(base) * k
<1>1. /\ Bytes(base) \in Nat \ {0} /\ Chars(base) \in Nat \ {0} /\ b \in Widths
      /\ 8 * Bytes(base) = b * Chars(base) /\ 8 \in Widths /\ b \in Nat \ {0}
  <2>1. b \in Nat \ {0}
    BY BaseIs DEF Bases
  <2>2. QED
    BY <2>1, BaseSizes
<1>2. n \in Nat /\ 8 * Len(p) = b * n
  <2> DEFINE B == Bytes(base)
             C == Chars(base)
  <2> HIDE DEF B, C, b
  <2>1. C * k \in Nat /\ 8 * (B * k) = (8 * B) * k /\ (b * C) * k = b * (C * k)
    BY <1>1 DEF B, C
  <2>2. QED
    BY <1>1, <2>1 DEF B, C
<1>3. Pieces(p, 8, b) = n
  <2>1. Len(p) \in Nat /\ Len(p) * 8 = 8 * Len(p)
    BY LenProperties
  <2>2. (b * n + 0) \div b = n
    <3>1. 0 \in 0 .. b - 1
      BY <1>1
    <3> HIDE DEF b, n
    <3>2. QED
      BY <1>1, <1>2, <3>1, DivIs
  <2>3. b * n \in Nat
    BY <1>1, <1>2, <2>1, SMTT(30)
  <2> HIDE DEF b, n
  <2>4. QED
    BY <1>2, <2>1, <2>2, <2>3 DEF Pieces
<1>4. Recut(p, 8, b)
  BY <1>1, RegroupCuts
<1>5. cut \in Seq(D) /\ Len(cut) = n
  BY <1>3, <1>4 DEF Recut
<1>6. Encoded(base, p) = [i \in 1 .. n |-> Char(base, cut[i])]
  <2>1. DOMAIN cut = 1 .. n
    BY <1>5, LenProperties
  <2>2. QED
    BY <2>1 DEF Encoded
<1>7. \A i \in 1 .. n : cut[i] \in D
  BY <1>5, ElementOfSeq
<1> DEFINE Byte == 0 .. 255
<1>8. \A i \in 1 .. n : Char(base, cut[i]) \in Byte
  BY <1>7, CharIs
<1>9. Byte \subseteq Nat
  OBVIOUS
<1> HIDE DEF n, cut, D, Byte
<1>10. Encoded(base, p) \in [1 .. n -> Byte] /\ Encoded(base, p) \in [1 .. n -> Nat]
  BY <1>9, <1>6, <1>8
<1>11. /\ Encoded(base, p) \in Seq(Byte) /\ Encoded(base, p) \in Seq(Nat)
       /\ Len(Encoded(base, p)) = n
  BY <1>2, <1>10, IsRow
<1>12. \A i \in 1 .. n : Encoded(base, p)[i] = Char(base, cut[i])
  BY <1>6
<1>13. QED
  BY <1>5, <1>7, <1>11, <1>12 DEF EncodedTo, n, cut, D, Byte

\* Blocks behind blocks are encoded each for themselves.
EncodedJoined(base, p, q) == Encoded(base, p \o q) = Encoded(base, p) \o Encoded(base, q)

\* They are.
LEMMA EncodedJoin ==
  ASSUME NEW base \in Bases, NEW p \in Seq(Nat), NEW q \in Seq(Nat),
         Whole(Bytes(base), Len(p)), Whole(Bytes(base), Len(q))
  PROVE  EncodedJoined(base, p, q)
<1> DEFINE B == Bytes(base)
           C == Chars(base)
           b == Bits(base)
           all == p \o q
           P == Regroup(p, 8, b)
           Q == Regroup(q, 8, b)
           R == Regroup(all, 8, b)
<1>1. PICK k \in Nat : Len(p) = B * k
  BY DEF Whole
<1>2. PICK l \in Nat : Len(q) = B * l
  BY DEF Whole
<1>3. /\ B \in Nat \ {0} /\ C \in Nat \ {0} /\ b \in Widths
      /\ 8 * B = b * C /\ 8 \in Widths /\ b \in Nat \ {0}
  <2>1. b \in Nat \ {0}
    BY BaseIs DEF Bases
  <2>2. QED
    BY <2>1, BaseSizes
<1>4. all \in Seq(Nat) /\ Len(all) = B * (k + l) /\ k + l \in Nat
  <2>1. all \in Seq(Nat) /\ Len(all) = Len(p) + Len(q)
    BY ConcatProperties
  <2> HIDE DEF B, all
  <2>2. B * k + B * l = B * (k + l)
    BY <1>3
  <2>3. QED
    BY <1>1, <1>2, <2>1, <2>2
<1>5. EncodedTo(base, p, k) /\ EncodedTo(base, q, l) /\ EncodedTo(base, all, k + l)
  BY <1>1, <1>2, <1>4, EncodedIs
<1>6. R = P \o Q
  <2>1. 8 * Len(p) = b * (C * k) /\ C * k \in Nat
    <3> HIDE DEF B, C, b
    <3>1. C * k \in Nat /\ 8 * (B * k) = (8 * B) * k /\ (b * C) * k = b * (C * k)
      BY <1>3
    <3>2. QED
      BY <1>1, <1>3, <3>1
  <2>2. Whole(b, 8 * Len(p))
    BY <2>1 DEF Whole
  <2>3. RegroupJoined(p, q, 8, b)
    BY <1>3, <2>2, RegroupJoin
  <2>4. QED
    BY <2>3 DEF RegroupJoined
<1>7. /\ C * k \in Nat /\ C * l \in Nat /\ C * (k + l) = C * k + C * l
  BY <1>3, SMTT(30)
<1> DEFINE x == Encoded(base, p)
           y == Encoded(base, q)
           z == Encoded(base, all)
<1>8. /\ x \in Seq(Nat) /\ Len(x) = C * k /\ Len(P) = C * k
      /\ \A i \in 1 .. C * k : x[i] = Char(base, P[i])
      /\ y \in Seq(Nat) /\ Len(y) = C * l /\ Len(Q) = C * l
      /\ \A i \in 1 .. C * l : y[i] = Char(base, Q[i])
      /\ z \in Seq(Nat) /\ Len(z) = C * (k + l)
      /\ \A i \in 1 .. C * (k + l) : z[i] = Char(base, R[i])
  BY <1>5 DEF EncodedTo
<1>9. P \in Seq(Nat) /\ Q \in Seq(Nat)
  <2>1. Recut(p, 8, b) /\ Recut(q, 8, b)
    BY <1>3, RegroupCuts
  <2>2. QED
    BY <2>1 DEF Recut
<1>10. /\ \A i \in 1 .. Len(P) : R[i] = P[i]
       /\ \A i \in 1 .. Len(Q) : R[Len(P) + i] = Q[i]
  BY <1>6, <1>9, ConcatProperties
<1> DEFINE m == C * k
           n == C * l
<1>11. m \in Nat /\ n \in Nat /\ C * (k + l) = m + n
  BY <1>7
<1>12. /\ Len(x) = m /\ Len(y) = n /\ Len(z) = m + n /\ Len(P) = m /\ Len(Q) = n
       /\ \A i \in 1 .. m : x[i] = Char(base, P[i])
       /\ \A i \in 1 .. n : y[i] = Char(base, Q[i])
       /\ \A i \in 1 .. m + n : z[i] = Char(base, R[i])
  BY <1>8, <1>11
<1> HIDE DEF x, y, z, P, Q, R, m, n
<1>13. \A i \in 1 .. Len(x) : z[i] = x[i]
  <2>1. SUFFICES ASSUME NEW i \in 1 .. m PROVE z[i] = x[i]
    BY <1>12
  <2>2. i \in 1 .. m + n /\ i \in 1 .. Len(P)
    BY <1>11, <1>12
  <2>3. z[i] = Char(base, R[i]) /\ x[i] = Char(base, P[i]) /\ R[i] = P[i]
    BY <1>10, <1>12, <2>2
  <2>4. QED
    BY <2>3
<1>14. \A i \in 1 .. Len(y) : z[Len(x) + i] = y[i]
  <2>1. SUFFICES ASSUME NEW i \in 1 .. n PROVE z[m + i] = y[i]
    BY <1>12
  <2>2. m + i \in 1 .. m + n /\ i \in 1 .. Len(Q)
    BY <1>11, <1>12
  <2>3. z[m + i] = Char(base, R[m + i]) /\ y[i] = Char(base, Q[i]) /\ R[m + i] = Q[i]
    BY <1>10, <1>12, <2>2
  <2>4. QED
    BY <2>3
<1>15. Len(z) = Len(x) + Len(y)
  BY <1>12
<1>16. z = x \o y
  BY <1>8, <1>13, <1>14, <1>15, RowsJoin
<1>17. QED
  BY <1>16 DEF EncodedJoined, x, y, z

\* Characters of which the first t tell something.
Cut(pad, e, t) ==
  [i \in 1 .. IF pad THEN Len(e) ELSE t |-> IF i <= t THEN e[i] ELSE Pad]

\* What is cut, or padded.
LEMMA CutIs ==
  ASSUME NEW pad \in BOOLEAN, NEW e \in Seq(Nat), NEW t \in 0 .. Len(e)
  PROVE  /\ Cut(pad, e, t) \in Seq(Nat)
         /\ pad => Len(Cut(pad, e, t)) = Len(e)
         /\ ~pad => Len(Cut(pad, e, t)) = t
         /\ t = Len(e) => Cut(pad, e, t) = e
         /\ \A i \in 1 .. Len(Cut(pad, e, t)) :
              /\ i <= t => Cut(pad, e, t)[i] = e[i]
              /\ i > t => Cut(pad, e, t)[i] = Pad
<1> DEFINE n == IF pad THEN Len(e) ELSE t
           c == Cut(pad, e, t)
<1>1. Len(e) \in Nat /\ t \in Nat /\ n \in Nat /\ n <= Len(e) /\ t <= n
  BY LenProperties
<1>2. \A i \in 1 .. Len(e) : e[i] \in Nat
  BY ElementOfSeq
<1>3. c = [i \in 1 .. n |-> IF i <= t THEN e[i] ELSE Pad]
  BY DEF Cut
<1>4. Pad \in Nat
  BY DEF Pad
<1>5. (pad => n = Len(e)) /\ (~pad => n = t) /\ (t = Len(e) => n = t)
  OBVIOUS
<1> HIDE DEF n, c
<1>6. \A i \in 1 .. n : c[i] \in Nat
  BY <1>1, <1>2, <1>3, <1>4
<1>7. c \in [1 .. n -> Nat]
  BY <1>3, <1>6
<1>8. c \in Seq(Nat) /\ Len(c) = n
  BY <1>1, <1>7, IsRow
<1>9. ASSUME NEW i \in 1 .. n PROVE (i <= t => c[i] = e[i]) /\ (i > t => c[i] = Pad)
  BY <1>1, <1>3
<1>10. ASSUME t = Len(e) PROVE c = e
  <2>1. Len(c) = Len(e)
    BY <1>5, <1>8, <1>10
  <2>2. \A i \in 1 .. Len(c) : c[i] = e[i]
    BY <1>1, <1>8, <1>9, <2>1, <1>10
  <2>3. QED
    BY <1>8, <2>1, <2>2, SeqEqual
<1>11. QED
  BY <1>5, <1>8, <1>9, <1>10 DEF c

\* Only what is behind is cut.
CutJoined(pad, x, e, t) == Cut(pad, x \o e, Len(x) + t) = x \o Cut(pad, e, t)

\* It is.
LEMMA CutJoin ==
  ASSUME NEW pad \in BOOLEAN, NEW x \in Seq(Nat), NEW e \in Seq(Nat), NEW t \in 0 .. Len(e)
  PROVE  CutJoined(pad, x, e, t)
<1> DEFINE all == x \o e
           n == Len(x)
           c == Cut(pad, e, t)
           r == Cut(pad, all, n + t)
<1>1. /\ n \in Nat /\ Len(e) \in Nat /\ t \in Nat /\ all \in Seq(Nat) /\ Len(all) = n + Len(e)
      /\ \A i \in 1 .. n : all[i] = x[i]
      /\ \A i \in 1 .. Len(e) : all[n + i] = e[i]
  BY LenProperties, ConcatProperties
<1>2. n + t \in 0 .. Len(all) /\ t <= Len(e)
  BY <1>1
<1>3. /\ c \in Seq(Nat) /\ Len(c) = (IF pad THEN Len(e) ELSE t)
      /\ \A i \in 1 .. Len(c) : (i <= t => c[i] = e[i]) /\ (i > t => c[i] = Pad)
  BY CutIs
<1> HIDE DEF all, n
<1>4. /\ r \in Seq(Nat) /\ Len(r) = (IF pad THEN Len(all) ELSE n + t)
      /\ \A i \in 1 .. Len(r) : (i <= n + t => r[i] = all[i]) /\ (i > n + t => r[i] = Pad)
  BY <1>1, <1>2, CutIs
<1> HIDE DEF c, r
<1>5. Len(r) = n + Len(c) /\ Len(c) \in Nat /\ Len(c) <= Len(e)
  BY <1>1, <1>2, <1>3, <1>4
<1>6. ASSUME NEW i \in 1 .. n PROVE r[i] = x[i]
  <2>1. i \in 1 .. Len(r) /\ i <= n + t
    BY <1>1, <1>5
  <2>2. r[i] = all[i]
    BY <1>4, <2>1
  <2>3. QED
    BY <1>1, <2>2
<1>7. ASSUME NEW i \in 1 .. Len(c) PROVE r[n + i] = c[i]
  <2>1. n + i \in 1 .. Len(r) /\ i \in 1 .. Len(e) /\ i \in Nat
    BY <1>1, <1>5
  <2>2. CASE i <= t
    <3>1. n + i <= n + t
      BY <1>1, <2>1, <2>2
    <3>2. r[n + i] = all[n + i] /\ c[i] = e[i]
      BY <1>3, <1>4, <2>1, <2>2, <3>1
    <3>3. QED
      BY <1>1, <2>1, <3>2
  <2>3. CASE i > t
    <3>1. n + i > n + t
      BY <1>1, <2>1, <2>3
    <3>2. r[n + i] = Pad
      BY <1>4, <2>1, <3>1
    <3>3. c[i] = Pad
      BY <1>3, <2>3
    <3>4. QED
      BY <3>2, <3>3
  <2>4. QED
    BY <1>1, <2>1, <2>2, <2>3
<1>8. r = x \o c
  BY <1>3, <1>4, <1>5, <1>6, <1>7, RowsJoin DEF n
<1>9. QED
  BY <1>8 DEF CutJoined, r, c, all, n

\* A row of the same.
LEMMA RepeatIs ==
  ASSUME NEW x \in Nat, NEW n \in Nat
  PROVE  /\ Repeat(x, n) \in Seq(Nat) /\ Len(Repeat(x, n)) = n
         /\ \A i \in 1 .. n : Repeat(x, n)[i] = x
         /\ n = 0 => Repeat(x, n) = <<>>
<1>1. Repeat(x, n) \in [1 .. n -> Nat]
  BY DEF Repeat
<1>2. Repeat(x, n) \in Seq(Nat) /\ Len(Repeat(x, n)) = n
  BY <1>1, IsRow
<1>3. \A i \in 1 .. n : Repeat(x, n)[i] = x
  BY DEF Repeat
<1>4. n = 0 => Repeat(x, n) = <<>>
  BY <1>2, EmptySeq
<1>5. QED
  BY <1>2, <1>3, <1>4

\* The input with the zeros that fill its last block.
Padded(base, in) == in \o Repeat(0, Missing(base, Len(in)))

\* What an encoder means: the padded blocks, and then the telling characters of them.
Encodes(s, in) ==
  /\ EncodeMeaning(s, in)
       = Cut(s.pad, Encoded(s.name, Padded(s.name, in)), Telling(s.name, Len(in)))
  /\ Padded(s.name, in) \in Seq(Nat)
  /\ EncodedTo(s.name, Padded(s.name, in), Blocks(s.name, Len(in)))
  /\ Whole(Bytes(s.name), Len(Padded(s.name, in)))
  /\ Telling(s.name, Len(in)) \in 0 .. Len(Encoded(s.name, Padded(s.name, in)))
  /\ EncodeMeaning(s, in) \in Seq(Nat)

\* That is what it means.
LEMMA EncodeIs ==
  ASSUME NEW s, s.name \in Bases, s.pad \in BOOLEAN, NEW in \in Seq(Nat)
  PROVE  Encodes(s, in)
<1> DEFINE base == s.name
           n == Len(in)
           zeros == Repeat(0, Missing(base, n))
           full == in \o zeros
           e == Encoded(base, full)
           cut == Regroup(full, 8, Bits(base))
           t == Telling(base, n)
           k == Blocks(base, n)
<1>1. n \in Nat
  BY LenProperties
<1>2. Filled(base, n)
  BY <1>1, FillIs
<1>3. Missing(base, n) \in Nat /\ k \in Nat /\ n + Missing(base, n) = Bytes(base) * k
      /\ t \in 0 .. Chars(base) * k
  <2>1. Bytes(base) \in Nat
    BY BaseSizes
  <2>2. QED
    BY <1>2, <2>1 DEF Filled
<1>4. zeros \in Seq(Nat) /\ Len(zeros) = Missing(base, n)
  BY <1>3, RepeatIs
<1> HIDE DEF zeros
<1>5. full \in Seq(Nat) /\ Len(full) = Bytes(base) * k
  BY <1>1, <1>3, <1>4, ConcatProperties
<1> HIDE DEF full
<1>6. EncodedTo(base, full, k)
  BY <1>3, <1>5, EncodedIs
<1>7. /\ e \in Seq(Nat) /\ Len(e) = Chars(base) * k /\ Len(cut) = Chars(base) * k
      /\ \A i \in 1 .. Len(e) : e[i] = Char(base, cut[i])
  BY <1>6 DEF EncodedTo
<1>8. EncodeMeaning(s, in)
        = [i \in 1 .. IF s.pad THEN Len(cut) ELSE t |-> IF i <= t THEN Char(base, cut[i]) ELSE Pad]
  BY DEF EncodeMeaning, full, zeros, Missing, Telling
<1> DEFINE l == Len(e)
           m == IF s.pad THEN l ELSE t
<1>9. l \in Nat /\ t \in 0 .. l /\ t \in Nat /\ m \in Nat /\ m <= l
  BY <1>3, <1>7, LenProperties
<1>10. Cut(s.pad, e, t) = [i \in 1 .. m |-> IF i <= t THEN e[i] ELSE Pad]
  BY DEF Cut
<1>11. EncodeMeaning(s, in) = [i \in 1 .. m |-> IF i <= t THEN Char(base, cut[i]) ELSE Pad]
  BY <1>7, <1>8
<1>12. Cut(s.pad, e, t) \in Seq(Nat)
  BY <1>7, <1>9, CutIs
<1> HIDE DEF l, m, e, cut, t
<1>13. \A i \in 1 .. m : e[i] = Char(base, cut[i])
  BY <1>7, <1>9 DEF l
<1>14. EncodeMeaning(s, in) = Cut(s.pad, e, t)
  BY <1>10, <1>11, <1>13
<1>15. Whole(Bytes(base), Len(full))
  BY <1>3, <1>5 DEF Whole
<1>16. full = Padded(base, in)
  BY DEF full, zeros, Padded
<1>17. QED
  BY <1>5, <1>6, <1>9, <1>12, <1>14, <1>15, <1>16 DEF Encodes, e, t, l

\* It writes nothing for nothing.
LEMMA EncodeNothing ==
  ASSUME NEW s, s.name \in Bases, s.pad \in BOOLEAN
  PROVE  EncodeMeaning(s, <<>>) = <<>>
<1> DEFINE e == Encoded(s.name, Padded(s.name, <<>>))
           t == Telling(s.name, 0)
<1>1. <<>> \in Seq(Nat) /\ Len(<<>>) = 0
  BY EmptySeq
<1>2. Encodes(s, <<>>)
  BY <1>1, EncodeIs
<1>3. Blocks(s.name, 0) = 0
  BY BaseIs DEF Bases, Blocks
<1>4. Len(e) = 0 /\ e \in Seq(Nat)
  <2>1. Chars(s.name) \in Nat
    BY BaseSizes
  <2>2. EncodedTo(s.name, Padded(s.name, <<>>), 0)
    BY <1>1, <1>2, <1>3 DEF Encodes
  <2>3. QED
    BY <2>1, <2>2 DEF EncodedTo
<1>5. t \in 0 .. Len(e) /\ EncodeMeaning(s, <<>>) = Cut(s.pad, e, t)
  BY <1>1, <1>2 DEF Encodes
<1> HIDE DEF e, t
<1>6. t = Len(e)
  BY <1>4, <1>5
<1>7. Cut(s.pad, e, t) = e
  BY <1>4, <1>5, <1>6, CutIs
<1>8. e = <<>>
  BY <1>4, EmptySeq
<1>9. QED
  BY <1>5, <1>7, <1>8

\* Whole blocks are encoded by themselves.
EncodesOn(s, p, q) == EncodeMeaning(s, p \o q) = Encoded(s.name, p) \o EncodeMeaning(s, q)

\* What is behind whole blocks is encoded for itself.
LEMMA EncodeBehind ==
  ASSUME NEW s, s.name \in Bases, s.pad \in BOOLEAN, NEW p \in Seq(Nat), NEW q \in Seq(Nat),
         Whole(Bytes(s.name), Len(p))
  PROVE  EncodesOn(s, p, q)
<1> DEFINE base == s.name
           B == Bytes(base)
           all == p \o q
           n == Len(q)
           zeros == Repeat(0, Missing(base, n))
           x == Encoded(base, p)
           e == Encoded(base, q \o zeros)
           t == Telling(base, n)
<1>1. PICK k \in Nat : Len(p) = B * k
  BY DEF Whole
<1>2. n \in Nat /\ all \in Seq(Nat) /\ Len(all) = B * k + n
  BY <1>1, LenProperties, ConcatProperties
<1>3. FilledBehind(base, k, n) /\ Filled(base, n)
  BY <1>2, FillBehind, FillIs
<1>4. Missing(base, Len(all)) = Missing(base, n)
      /\ Telling(base, Len(all)) = Chars(base) * k + t
  BY <1>2, <1>3 DEF FilledBehind
<1>5. zeros \in Seq(Nat)
  <2>1. B \in Nat
    BY BaseSizes
  <2>2. Missing(base, n) \in Nat
    BY <1>3, <2>1 DEF Filled
  <2>3. QED
    BY <2>2, RepeatIs
<1>6. Encodes(s, q) /\ Encodes(s, all)
  BY <1>2, EncodeIs
<1>7. /\ EncodeMeaning(s, q) = Cut(s.pad, e, t) /\ q \o zeros \in Seq(Nat)
      /\ e \in Seq(Nat) /\ t \in 0 .. Len(e) /\ Whole(B, Len(q \o zeros))
  BY <1>6 DEF Encodes, Padded, EncodedTo
<1>8. EncodeMeaning(s, all) = Cut(s.pad, Encoded(base, all \o zeros), Chars(base) * k + t)
  BY <1>4, <1>6 DEF Encodes, Padded
<1>9. all \o zeros = p \o (q \o zeros)
  <2> HIDE DEF zeros
  <2>1. (p \o q) \o zeros = p \o (q \o zeros)
    BY <1>5, Joined
  <2>2. QED
    BY <2>1
<1>10. Encoded(base, p \o (q \o zeros)) = x \o e
  <2>1. EncodedJoined(base, p, q \o zeros)
    BY <1>7, EncodedJoin
  <2>2. QED
    BY <2>1 DEF EncodedJoined
<1>11. x \in Seq(Nat) /\ Len(x) = Chars(base) * k
  <2>1. EncodedTo(base, p, k)
    BY <1>1, EncodedIs
  <2>2. QED
    BY <2>1 DEF EncodedTo
<1> HIDE DEF x, e, t, all, zeros
<1>12. CutJoined(s.pad, x, e, t)
  BY <1>7, <1>11, CutJoin
<1>13. EncodeMeaning(s, all) = x \o EncodeMeaning(s, q)
  BY <1>7, <1>8, <1>9, <1>10, <1>11, <1>12 DEF CutJoined
<1>14. QED
  BY <1>13 DEF EncodesOn, all, x

-----------------------------------------------------------------------------
(***************************************************************************)
(* The encoders.                                                           *)
(***************************************************************************)
\* The whole blocks that there are and whose characters fit.
Taken(base, n, room) == Smaller(n \div Bytes(base), room \div Chars(base))

\* As many blocks as the input and the room hold.
Takes(base, n, room) ==
  /\ Taken(base, n, room) \in Nat
  /\ Bytes(base) * Taken(base, n, room) \in 0 .. n
  /\ Chars(base) * Taken(base, n, room) \in 0 .. room
  /\ Bytes(base) <= n /\ Chars(base) <= room => Taken(base, n, room) > 0

\* So many it takes.
LEMMA TakenIs ==
  ASSUME NEW base \in Bases, NEW n \in Nat, NEW room \in Nat
  PROVE  Takes(base, n, room)
<1>1. CASE base \in Base16
  BY <1>1, BaseIs DEF Takes, Taken, Smaller
<1>2. CASE base \in Base32
  BY <1>2, BaseIs DEF Takes, Taken, Smaller
<1>3. CASE base \in Base64
  BY <1>3, BaseIs DEF Takes, Taken, Smaller
<1>4. QED
  BY <1>1, <1>2, <1>3 DEF Bases

\* An encoder that has encoded the first k blocks says so.
LEMMA EncodedWell ==
  ASSUME NEW s, s.name \in Bases, s.pad \in BOOLEAN,
         \A any \in Seq(Nat) : Meaning(s, any) = EncodeMeaning(s, any),
         NEW size \in Nat, NEW room \in Nat,
         NEW in \in Seq(Nat), NEW later \in Seq(Nat), NEW fin \in BOOLEAN,
         Shows(size, s, in, fin, later),
         NEW k \in Nat, Bytes(s.name) * k \in 0 .. Len(in), Chars(s.name) * k \in 0 .. room,
         k = 0 => Len(in) < size /\ (fin => in = <<>>),
         NEW kind \in {"Ok", "StreamEnd"}, kind = "StreamEnd" => fin,
         Transform(s, in, room, fin)
           = Ans(s, kind, Bytes(s.name) * k, Encoded(s.name, Firsts(in, Bytes(s.name) * k)))
  PROVE  Well({s}, size, room, s, in, fin, later)
<1> DEFINE n == Bytes(s.name) * k
           p == Firsts(in, n)
           q == Skip(in, n) \o later
           made == Encoded(s.name, p)
           rest == EncodeMeaning(s, q)
<1>1. Cuts(in, later, n)
  BY CutsAt
<1>2. /\ Meaning(s, in \o later) # Malformed /\ (fin => later = <<>>) /\ (~fin => in # <<>>)
      /\ Len(in) <= size
  BY DEF Shows
<1>3. /\ p \in Seq(Nat) /\ Len(p) = n /\ q \in Seq(Nat) /\ in \o later = p \o q
      /\ in \o later \in Seq(Nat) /\ Len(in) \in Nat
  BY <1>1, ConcatProperties DEF Cuts
<1>4. Whole(Bytes(s.name), n)
  BY DEF Whole
<1>5. EncodedTo(s.name, p, k)
  BY <1>3, EncodedIs
<1>6. made \in Seq(Nat) /\ Len(made) = Chars(s.name) * k
  BY <1>5 DEF EncodedTo
<1>7. EncodesOn(s, p, q)
  BY <1>3, <1>4, EncodeBehind
<1>8. Encodes(s, q)
  BY <1>3, EncodeIs
<1>9. /\ Meaning(s, in \o later) = made \o rest /\ rest \in Seq(Nat)
      /\ Meaning(s, q) = rest
  BY <1>3, <1>7, <1>8 DEF EncodesOn, Encodes
<1>10. Chars(s.name) \in Nat \ {0} /\ Bytes(s.name) \in Nat \ {0}
  BY BaseSizes
<1>11. n \in 0 .. Len(in) /\ Len(made) \in 0 .. room
  BY <1>6
<1>12. k # 0 => made # <<>> /\ n > 0 /\ Len(made) > 0
  <2>1. SUFFICES ASSUME k # 0 PROVE made # <<>> /\ n > 0 /\ Len(made) > 0
    OBVIOUS
  <2>2. Chars(s.name) * k > 0 /\ Bytes(s.name) * k > 0
    BY <1>10, <2>1
  <2>3. QED
    BY <1>6, <2>2, EmptySeq
<1>13. k = 0 => n = 0
  BY <1>10
<1>14. k = 0 /\ fin => rest = <<>> /\ Len(in) = 0
  <2>1. SUFFICES ASSUME k = 0, fin PROVE rest = <<>> /\ Len(in) = 0
    OBVIOUS
  <2>2. in = <<>> /\ later = <<>> /\ Len(in) = 0 /\ n = 0
    BY <1>2, <1>13, <2>1, EmptySeq
  <2>3. Skip(in, n) = in
    BY <1>3, <2>2, SkipIs
  <2>4. q = <<>>
    <3>1. <<>> \in Seq(Nat)
      BY EmptySeq
    <3>2. <<>> \o <<>> = <<>>
      BY <3>1, ConcatEmptySeq
    <3>3. QED
      BY <2>2, <2>3, <3>2
  <2>5. QED
    BY <2>2, <2>4, EncodeNothing
<1> HIDE DEF n, p, made, rest
<1>15. Contract(kind, n, Len(made), Len(in), room, size, {}, fin)
  BY <1>2, <1>3, <1>11, <1>12, <1>13, <1>14 DEF Contract, Kinds
<1>16. made = <<>> /\ (fin \/ kind = "StreamEnd") => rest = <<>>
  BY <1>12, <1>14
<1>17. GoodReply(size, room, s, in, fin, later, s, kind, n, made, rest)
  BY <1>6, <1>9, <1>15, <1>16 DEF GoodReply, n, p, made
<1>18. s \in {s}
  OBVIOUS
<1>19. QED
  BY <1>17, <1>18, WellAnswer

\* BlockEncode does what Well asks, when less than a block does not come at the end.
LEMMA BlockEncodeWell ==
  ASSUME NEW s, s.name \in Bases, s.pad \in BOOLEAN,
         \A any \in Seq(Nat) : Meaning(s, any) = EncodeMeaning(s, any),
         NEW size \in Nat, NEW room \in Nat, Bytes(s.name) <= size, Chars(s.name) <= room,
         NEW in \in Seq(Nat), NEW later \in Seq(Nat), NEW fin \in BOOLEAN,
         Shows(size, s, in, fin, later),
         fin => in = <<>> \/ Bytes(s.name) <= Len(in),
         Transform(s, in, room, fin) = BlockEncode(s, in, room, fin)
  PROVE  Well({s}, size, room, s, in, fin, later)
<1> DEFINE k == Taken(s.name, Len(in), room)
           took == Bytes(s.name) * k
           kind == IF fin /\ took = Len(in) THEN "StreamEnd" ELSE "Ok"
<1>1. Takes(s.name, Len(in), room) /\ Len(in) \in Nat
  BY LenProperties, TakenIs
<1>2. /\ k \in Nat /\ took \in 0 .. Len(in) /\ Chars(s.name) * k \in 0 .. room
      /\ (Bytes(s.name) <= Len(in) => k > 0)
  BY <1>1 DEF Takes
<1>3. Transform(s, in, room, fin) = Ans(s, kind, took, Encoded(s.name, Firsts(in, took)))
  BY DEF BlockEncode, StatelessAnswer, Taken
<1>4. kind \in {"Ok", "StreamEnd"} /\ (kind = "StreamEnd" => fin)
  OBVIOUS
<1>5. Bytes(s.name) \in Nat
  BY BaseSizes
<1>6. k = 0 => Len(in) < size /\ (fin => in = <<>>)
  BY <1>1, <1>2, <1>5
<1> HIDE DEF k, kind
<1>7. QED
  BY <1>2, <1>3, <1>4, <1>6, EncodedWell

\* The last block, with = behind the characters that tell something.
LEMMA CutTail ==
  ASSUME NEW pad \in BOOLEAN, NEW e \in Seq(Nat), NEW t \in 0 .. Len(e)
  PROVE  /\ Firsts(e, t) \in Seq(Nat)
         /\ Firsts(e, t) \o (IF pad THEN Repeat(Pad, Len(e) - t) ELSE <<>>) = Cut(pad, e, t)
<1> DEFINE f == Firsts(e, t)
           r == IF pad THEN Repeat(Pad, Len(e) - t) ELSE <<>>
           c == Cut(pad, e, t)
<1>1. Len(e) \in Nat /\ t \in Nat /\ Len(e) - t \in Nat /\ Pad \in Nat
  BY LenProperties DEF Pad
<1>2. f \in Seq(Nat) /\ Len(f) = t /\ \A i \in 1 .. t : f[i] = e[i]
  <2>1. f \in Seq(Nat)
    BY <1>1, FirstsIs
  <2>2. Len(f) = t
    BY FirstsLength
  <2>3. f = SubSeq(e, 1, t)
    BY <1>1 DEF Firsts, Smaller
  <2>4. \A i \in 1 .. t : f[i] = e[i]
    BY <1>1, <2>3
  <2>5. QED
    BY <2>1, <2>2, <2>4
<1>3. /\ r \in Seq(Nat)
      /\ pad => Len(r) = Len(e) - t
      /\ ~pad => Len(r) = 0
      /\ \A i \in 1 .. Len(r) : r[i] = Pad
  <2>1. CASE pad
    BY <1>1, <2>1, RepeatIs
  <2>2. CASE ~pad
    <3>1. r = <<>> /\ <<>> \in Seq(Nat) /\ Len(<<>>) = 0
      BY <2>2, EmptySeq
    <3>2. QED
      BY <2>2, <3>1
  <2>3. QED
    BY <2>1, <2>2
<1>4. /\ c \in Seq(Nat) /\ (pad => Len(c) = Len(e)) /\ (~pad => Len(c) = t)
      /\ \A i \in 1 .. Len(c) : (i <= t => c[i] = e[i]) /\ (i > t => c[i] = Pad)
  BY CutIs
<1> HIDE DEF f, r, c
<1>5. Len(c) = Len(f) + Len(r) /\ Len(r) \in Nat
  BY <1>1, <1>2, <1>3, <1>4
<1>6. \A i \in 1 .. Len(f) : c[i] = f[i]
  <2>1. SUFFICES ASSUME NEW i \in 1 .. t PROVE c[i] = f[i]
    BY <1>2
  <2>2. i \in 1 .. Len(c) /\ i <= t
    BY <1>1, <1>2, <1>5
  <2>3. QED
    BY <1>2, <1>4, <2>2
<1>7. \A i \in 1 .. Len(r) : c[Len(f) + i] = r[i]
  <2>1. SUFFICES ASSUME NEW i \in 1 .. Len(r) PROVE c[t + i] = r[i]
    BY <1>2
  <2>2. t + i \in 1 .. Len(c) /\ t + i > t
    BY <1>1, <1>2, <1>5
  <2>3. QED
    BY <1>3, <1>4, <2>2
<1>8. c = f \o r
  BY <1>2, <1>3, <1>4, <1>5, <1>6, <1>7, RowsJoin
<1>9. QED
  BY <1>2, <1>8 DEF f, r, c

\* The block that is left for the end.
LastBlock(base, n, room) ==
  LET j == Taken(base, n - 1, room)
      r == n - Bytes(base) * j
  IN  /\ j \in Nat /\ Bytes(base) * j \in 0 .. n /\ r \in 1 .. Bytes(base)
      /\ Chars(base) * j \in 0 .. room
      /\ Chars(base) * j + Chars(base) <= room
      /\ Missing(base, r) = Bytes(base) - r
      /\ Blocks(base, r) = 1
      /\ PadNeeded(base, r) \in 0 .. Chars(base) - 1
      /\ Telling(base, r) = Chars(base) - PadNeeded(base, r)

\* What is left at the end is one block.
LEMMA LastBlockIs ==
  ASSUME NEW base \in Base32 \cup Base64, NEW n \in Nat \ {0}, NEW room \in Nat,
         Blocks(base, n) * Chars(base) <= room
  PROVE  LastBlock(base, n, room)
<1>1. CASE base \in Base32
  <2>1. /\ Bytes(base) = 5 /\ Chars(base) = 8 /\ Bits(base) = 5
        /\ Blocks(base, n) = (n + 4) \div 5
    BY <1>1, BaseIs DEF Blocks
  <2> DEFINE j == (n - 1) \div 5
             r == n - 5 * j
  <2>2. Taken(base, n - 1, room) = j
    BY <2>1 DEF Taken, Smaller
  <2>3. j \in Nat /\ r \in 1 .. 5 /\ 5 * j \in 0 .. n /\ 8 * j + 8 <= room
    BY <2>1
  <2> HIDE DEF j, r
  <2>4. /\ Missing(base, r) = 5 - r /\ Blocks(base, r) = 1
        /\ PadNeeded(base, r) \in 0 .. 7 /\ Telling(base, r) = 8 - PadNeeded(base, r)
    BY <2>1, <2>3 DEF Missing, Blocks, PadNeeded, Telling, Up
  <2>5. r = n - 5 * Taken(base, n - 1, room)
    BY <2>2 DEF r
  <2>6. QED
    BY <2>1, <2>2, <2>3, <2>4, <2>5 DEF LastBlock
<1>2. CASE base \in Base64
  <2>1. /\ Bytes(base) = 3 /\ Chars(base) = 4 /\ Bits(base) = 6
        /\ Blocks(base, n) = (n + 2) \div 3
    BY <1>2, BaseIs DEF Blocks
  <2> DEFINE j == (n - 1) \div 3
             r == n - 3 * j
  <2>2. Taken(base, n - 1, room) = j
    BY <2>1 DEF Taken, Smaller
  <2>3. j \in Nat /\ r \in 1 .. 3 /\ 3 * j \in 0 .. n /\ 4 * j + 4 <= room
    BY <2>1
  <2> HIDE DEF j, r
  <2>4. /\ Missing(base, r) = 3 - r /\ Blocks(base, r) = 1
        /\ PadNeeded(base, r) \in 0 .. 3 /\ Telling(base, r) = 4 - PadNeeded(base, r)
    BY <2>1, <2>3 DEF Missing, Blocks, PadNeeded, Telling, Up
  <2>5. r = n - 3 * Taken(base, n - 1, room)
    BY <2>2 DEF r
  <2>6. QED
    BY <2>1, <2>2, <2>3, <2>4, <2>5 DEF LastBlock
<1>3. QED
  BY <1>1, <1>2

\* Where the last block does not fit, there is more than a block.
LEMMA MoreThanABlock ==
  ASSUME NEW base \in Base32 \cup Base64, NEW n \in Nat, NEW room \in Nat,
         Chars(base) <= room, room < Blocks(base, n) * Chars(base)
  PROVE  Bytes(base) <= n
<1>1. CASE base \in Base32
  BY <1>1, BaseIs DEF Blocks
<1>2. CASE base \in Base64
  BY <1>2, BaseIs, SMTT(30) DEF Blocks
<1>3. QED
  BY <1>1, <1>2

\* What comes of the last block: so many characters that tell something, and =.
Ends(s, in, room) ==
  LET n == Len(in)
      j == Taken(s.name, n - 1, room)
      took == Bytes(s.name) * j
      before == Encoded(s.name, Firsts(in, took))
      fill == PadNeeded(s.name, n - took)
      last == Encoded(s.name, Skip(in, took) \o Repeat(0, Bytes(s.name) - (n - took)))
      made == before \o Firsts(last, Chars(s.name) - fill)
                     \o IF s.pad THEN Repeat(Pad, fill) ELSE <<>>
  IN  /\ made = EncodeMeaning(s, in) /\ made \in Seq(Nat)
      /\ Len(made) \in 1 .. room

\* PaddedEncode answers with it.
LEMMA LastBlockEnds ==
  ASSUME NEW s, s.name \in Base32 \cup Base64, s.pad \in BOOLEAN, NEW room \in Nat,
         NEW in \in Seq(Nat), in # <<>>, Blocks(s.name, Len(in)) * Chars(s.name) <= room
  PROVE  Ends(s, in, room)
<1> DEFINE base == s.name
           B == Bytes(base)
           C == Chars(base)
           n == Len(in)
           j == Taken(base, n - 1, room)
           took == B * j
           r == n - took
           p == Firsts(in, took)
           q == Skip(in, took)
           before == Encoded(base, p)
           fill == PadNeeded(base, r)
           last == Encoded(base, q \o Repeat(0, B - r))
           tail == IF s.pad THEN Repeat(Pad, fill) ELSE <<>>
           made == before \o Firsts(last, C - fill) \o tail
<1>1. base \in Bases /\ n \in Nat \ {0}
  BY EmptySeq, LenProperties DEF Bases
<1>2. B \in Nat \ {0} /\ C \in Nat \ {0}
  BY <1>1, BaseSizes
<1>3. LastBlock(base, n, room)
  BY <1>1, LastBlockIs
<1>4. /\ j \in Nat /\ took \in 0 .. n /\ r \in 1 .. B /\ C * j \in 0 .. room
      /\ C * j + C <= room /\ Missing(base, r) = B - r /\ Blocks(base, r) = 1
      /\ fill \in 0 .. C - 1 /\ Telling(base, r) = C - fill
  BY <1>3 DEF LastBlock
<1>5. /\ p \in Seq(Nat) /\ Len(p) = took /\ q \in Seq(Nat) /\ Len(q) = r /\ in = p \o q
  <2>1. took \in Nat /\ took <= n
    BY <1>1, <1>4
  <2> HIDE DEF took
  <2>2. p \in Seq(Nat) /\ Len(p) = took /\ q \in Seq(Nat) /\ Len(q) = n - took
    BY <1>4, FirstsIs, FirstsLength, SkipIs
  <2>3. p \o Skip(in, Len(p)) = in
    BY <2>1, FirstsIs
  <2>4. QED
    BY <2>2, <2>3
<1> HIDE DEF p, q, r
<1>6. Whole(B, Len(p)) /\ EncodedTo(base, p, j)
  <2>1. Len(p) = B * j
    BY <1>5
  <2>2. QED
    BY <1>1, <1>4, <1>5, <2>1, EncodedIs DEF Whole
<1>7. before \in Seq(Nat) /\ Len(before) = C * j
  BY <1>6 DEF EncodedTo
<1>8. EncodeMeaning(s, in) = before \o EncodeMeaning(s, q)
  <2>1. EncodesOn(s, p, q)
    BY <1>1, <1>5, <1>6, EncodeBehind
  <2>2. QED
    BY <1>5, <2>1 DEF EncodesOn
<1>9. Encodes(s, q)
  BY <1>1, <1>5, EncodeIs
<1>10. /\ EncodeMeaning(s, q) = Cut(s.pad, last, C - fill) /\ EncodeMeaning(s, q) \in Seq(Nat)
       /\ last \in Seq(Nat) /\ Len(last) = C
  <2>1. Padded(base, q) = q \o Repeat(0, B - r)
    BY <1>4, <1>5 DEF Padded
  <2>2. EncodedTo(base, Padded(base, q), 1)
    BY <1>4, <1>5, <1>9 DEF Encodes
  <2>3. last \in Seq(Nat) /\ Len(last) = C * 1
    BY <2>1, <2>2 DEF EncodedTo
  <2>4. EncodeMeaning(s, q) = Cut(s.pad, last, C - fill) /\ EncodeMeaning(s, q) \in Seq(Nat)
    BY <1>4, <1>5, <1>9, <2>1 DEF Encodes
  <2>5. QED
    BY <1>2, <2>3, <2>4
<1> HIDE DEF last, fill, before, B, C, j, took
<1>11. C - fill \in 0 .. Len(last) /\ Len(last) - (C - fill) = fill /\ C - fill > 0
  BY <1>2, <1>4, <1>10
<1>12. Firsts(last, C - fill) \in Seq(Nat) /\ tail \in Seq(Nat)
       /\ Firsts(last, C - fill) \o tail = Cut(s.pad, last, C - fill)
  <2>1. /\ Firsts(last, C - fill) \in Seq(Nat)
        /\ Firsts(last, C - fill) \o (IF s.pad THEN Repeat(Pad, Len(last) - (C - fill)) ELSE <<>>)
             = Cut(s.pad, last, C - fill)
    BY <1>10, <1>11, CutTail
  <2>2. Pad \in Nat /\ fill \in Nat
    BY <1>2, <1>4 DEF Pad
  <2>3. Repeat(Pad, fill) \in Seq(Nat) /\ <<>> \in Seq(Nat)
    BY <2>2, RepeatIs, EmptySeq
  <2>4. tail \in Seq(Nat)
    BY <2>3
  <2>5. QED
    BY <1>11, <2>1, <2>4
<1>13. /\ Len(Cut(s.pad, last, C - fill)) \in {C, C - fill}
       /\ Cut(s.pad, last, C - fill) \in Seq(Nat)
  BY <1>10, <1>11, CutIs
<1> HIDE DEF tail
<1>14. made = before \o Cut(s.pad, last, C - fill)
  <2> DEFINE f == Firsts(last, C - fill)
  <2>1. /\ f \in Seq(Nat) /\ tail \in Seq(Nat) /\ before \in Seq(Nat)
        /\ f \o tail = Cut(s.pad, last, C - fill)
    BY <1>7, <1>12
  <2>2. made = (before \o f) \o tail
    OBVIOUS
  <2> HIDE DEF f, made
  <2>3. (before \o f) \o tail = before \o (f \o tail)
    BY <2>1, Joined
  <2>4. QED
    BY <2>1, <2>2, <2>3
<1>15. made = EncodeMeaning(s, in)
  BY <1>8, <1>10, <1>14
<1>16. made \in Seq(Nat) /\ Len(made) = C * j + Len(Cut(s.pad, last, C - fill))
  BY <1>7, <1>13, <1>14, ConcatProperties
<1>17. Len(made) \in 1 .. room
  <2> DEFINE x == C * j
             y == Len(Cut(s.pad, last, C - fill))
  <2>1. C \in Nat \ {0} /\ room \in Nat /\ x \in 0 .. room /\ x + C <= room
    BY <1>2, <1>4
  <2>2. fill \in 0 .. C - 1 /\ y \in {C, C - fill} /\ Len(made) = x + y
    BY <1>4, <1>13, <1>16
  <2> HIDE DEF x, y, made
  <2>3. QED
    BY <2>1, <2>2
<1>18. QED
  BY <1>15, <1>16, <1>17 DEF Ends, last, fill, before, B, C, j, took, tail, p, q, r

\* PaddedEncode does what Well asks.
LEMMA PaddedEncodeWell ==
  ASSUME NEW s, s.name \in Base32 \cup Base64, s.pad \in BOOLEAN,
         \A any \in Seq(Nat) : Meaning(s, any) = EncodeMeaning(s, any),
         NEW size \in Nat, NEW room \in Nat, Bytes(s.name) <= size, Chars(s.name) <= room,
         NEW in \in Seq(Nat), NEW later \in Seq(Nat), NEW fin \in BOOLEAN,
         Shows(size, s, in, fin, later),
         Transform(s, in, room, fin) = PaddedEncode(s, in, room, fin)
  PROVE  Well({s}, size, room, s, in, fin, later)
<1> DEFINE base == s.name
           n == Len(in)
           needed == Blocks(base, n) * Chars(base)
           j == Taken(base, n - 1, room)
           took == Bytes(base) * j
           before == Encoded(base, Firsts(in, took))
           fill == PadNeeded(base, n - took)
           last == Encoded(base, Skip(in, took) \o Repeat(0, Bytes(base) - (n - took)))
           made == before \o Firsts(last, Chars(base) - fill)
                          \o IF s.pad THEN Repeat(Pad, fill) ELSE <<>>
<1>1. base \in Bases /\ n \in Nat
  BY LenProperties DEF Bases
<1>2. Filled(base, n)
  BY <1>1, FillIs
<1>3. needed \in Nat /\ Chars(base) \in Nat \ {0} /\ Bytes(base) \in Nat \ {0}
  BY <1>1, <1>2, BaseSizes, SMTT(30) DEF Filled
<1>4. CASE ~(fin /\ in # <<>> /\ room >= needed)
  <2>1. Transform(s, in, room, fin) = BlockEncode(s, in, room, fin)
    BY <1>4 DEF PaddedEncode, Blocks
  <2>2. fin => in = <<>> \/ Bytes(base) <= n
    <3>1. SUFFICES ASSUME fin, in # <<>> PROVE Bytes(base) <= n
      OBVIOUS
    <3>2. room < needed
      BY <1>3, <1>4, <3>1
    <3>3. QED
      BY <1>1, <3>2, MoreThanABlock
  <2>3. QED
    BY <1>1, <2>1, <2>2, BlockEncodeWell
<1>5. CASE fin /\ in # <<>> /\ room >= needed
  <2>1. n \in Nat \ {0} /\ needed <= room
    BY <1>1, <1>3, <1>5, EmptySeq
  <2>2. LastBlock(base, n, room)
    BY <2>1, LastBlockIs
  <2>3. /\ j \in Nat /\ took \in 0 .. n /\ Chars(base) * j \in 0 .. room
    BY <2>2 DEF LastBlock
  <2>4. BlockEncode(s, Firsts(in, n - 1), room, fin).took = took
    <3>1. Len(Firsts(in, n - 1)) = n - 1
      <4>1. n - 1 \in 0 .. n
        BY <2>1
      <4>2. QED
        BY <4>1, FirstsLength
    <3>2. QED
      BY <3>1 DEF BlockEncode, StatelessAnswer, Ans, Taken
  <2>5. Transform(s, in, room, fin) =
          IF before # <<>> /\ fill = 0 THEN Ans(s, "Ok", took, before) ELSE Ans(s, "Ok", n, made)
    BY <1>5, <2>4 DEF PaddedEncode, Blocks
  <2>6. CASE before # <<>> /\ fill = 0
    <3>1. j # 0
      <4>1. SUFFICES ASSUME j = 0 PROVE before = <<>>
        BY <2>6
      <4>2. took = 0
        BY <1>3, <4>1
      <4>3. Firsts(in, took) \in Seq(Nat) /\ Len(Firsts(in, took)) = Bytes(base) * 0
        <5>1. 0 \in 0 .. n
          BY <1>1
        <5>2. Len(Firsts(in, 0)) = 0 /\ Firsts(in, 0) \in Seq(Nat)
          BY <5>1, FirstsIs, FirstsLength
        <5>3. QED
          BY <1>3, <4>2, <5>2
      <4>4. EncodedTo(base, Firsts(in, took), 0)
        BY <1>1, <4>3, EncodedIs
      <4>5. before \in Seq(Nat) /\ Len(before) = 0
        BY <1>3, <4>4 DEF EncodedTo
      <4>6. QED
        BY <4>5, EmptySeq
    <3>2. Transform(s, in, room, fin) = Ans(s, "Ok", took, before)
      BY <2>5, <2>6
    <3> HIDE DEF j
    <3>3. QED
      BY <1>1, <2>3, <3>1, <3>2, EncodedWell
  <2>7. CASE ~(before # <<>> /\ fill = 0)
    <3>1. Transform(s, in, room, fin) = Ans(s, "Ok", n, made)
      BY <2>5, <2>7
    <3>2. Ends(s, in, room)
      BY <1>5, <2>1, LastBlockEnds, SMTT(30)
    <3>3. made = EncodeMeaning(s, in) /\ made \in Seq(Nat) /\ Len(made) \in 1 .. room
      BY <3>2 DEF Ends
    <3> HIDE DEF made
    <3>4. later = <<>> /\ Len(in) <= size /\ <<>> \in Seq(Nat)
      BY <1>5, EmptySeq DEF Shows
    <3>5. in \o later = in /\ Skip(in, n) \o later = <<>>
      <4>1. Skip(in, n) = <<>>
        <5>1. n \in 0 .. n
          BY <1>1
        <5>2. Skip(in, n) \in Seq(Nat) /\ Len(Skip(in, n)) = n - n
          BY <5>1, SkipIs
        <5>3. Len(Skip(in, n)) = 0
          BY <1>1, <5>2
        <5>4. QED
          BY <5>2, <5>3, EmptySeq
      <4>2. QED
        BY <3>4, <4>1, ConcatEmptySeq
    <3>6. Meaning(s, <<>>) = <<>>
      BY <1>1, <3>4, EncodeNothing
    <3>7. Contract("Ok", n, Len(made), Len(in), room, size, {}, fin)
      BY <1>1, <2>1, <3>3 DEF Contract, Kinds
    <3>8. made # <<>> /\ made \o <<>> = made
      BY <3>3, EmptySeq, ConcatEmptySeq
    <3>9. GoodReply(size, room, s, in, fin, later, s, "Ok", n, made, <<>>)
      BY <3>1, <3>3, <3>4, <3>5, <3>6, <3>7, <3>8 DEF GoodReply
    <3>10. s \in {s}
      OBVIOUS
    <3>11. QED
      BY <3>9, <3>10, WellAnswer
  <2>8. QED
    BY <2>6, <2>7
<1>6. QED
  BY <1>4, <1>5

\* What is fixed of an encoder, by its settings.
LEMMA EncoderIs ==
  ASSUME OfBlocks, NEW s, s.name \in Bases, s.dir = "forward"
  PROVE  /\ Start(s) = s
         /\ BufferSize(s) = Chars(s.name)
         /\ \A in : Meaning(s, in) = EncodeMeaning(s, in)
         /\ s.name \in Base16 =>
              \A in, room, fin : Transform(s, in, room, fin) = BlockEncode(s, in, room, fin)
         /\ s.name \in Base32 \cup Base64 =>
              \A in, room, fin : Transform(s, in, room, fin) = PaddedEncode(s, in, room, fin)
<1>1. s.name \in BlockNames /\ s.name # "swab" /\ s.dir # "reverse"
  BY DEF BlockNames, Bases, Base16, Base32, Base64
<1>2. /\ Start(s) = BlockStart(s) /\ BufferSize(s) = BlockBufferSize(s)
      /\ \A in, room, fin : Transform(s, in, room, fin) = BlockTransform(s, in, room, fin)
      /\ \A in : Meaning(s, in) = BlockMeaning(s, in)
  BY <1>1 DEF OfBlocks
<1>3. Start(s) = s /\ BufferSize(s) = Chars(s.name)
  BY <1>1, <1>2 DEF BlockStart, BlockBufferSize
<1>4. \A in : Meaning(s, in) = EncodeMeaning(s, in)
  BY <1>1, <1>2 DEF BlockMeaning
<1>5. ASSUME s.name \in Base16, NEW in, NEW room, NEW fin
      PROVE  Transform(s, in, room, fin) = BlockEncode(s, in, room, fin)
  <2>1. s.name \notin Base32 \cup Base64
    BY <1>5 DEF Base16, Base32, Base64
  <2>2. QED
    BY <1>1, <1>2, <1>5, <2>1 DEF BlockTransform
<1>6. ASSUME s.name \in Base32 \cup Base64, NEW in, NEW room, NEW fin
      PROVE  Transform(s, in, room, fin) = PaddedEncode(s, in, room, fin)
  <2>1. s.name \notin Base16
    BY <1>6 DEF Base16, Base32, Base64
  <2>2. QED
    BY <1>1, <1>2, <1>6, <2>1 DEF BlockTransform
<1>7. QED
  BY <1>3, <1>4, <1>5, <1>6

\* An encoder that is shown a block and has room for its characters streams.
LEMMA EncoderSteady ==
  ASSUME OfBlocks, NEW s, s.name \in Bases, s.dir = "forward", s.pad \in BOOLEAN,
         NEW size \in Nat, NEW room \in Nat, Bytes(s.name) <= size, Chars(s.name) <= room
  PROVE  Steady(s, size, room) /\ \A in \in Seq(Nat) : Meaning(s, in) \in Seq(Nat)
<1>1. \A in : Meaning(s, in) = EncodeMeaning(s, in)
  BY EncoderIs
<1>2. BufferSize(s) \in 0 .. room
  <2>1. BufferSize(s) = Chars(s.name) /\ Chars(s.name) \in Nat
    BY EncoderIs, BaseSizes
  <2>2. QED
    BY <2>1
<1>3. ASSUME NEW in \in Seq(Nat) PROVE Meaning(s, in) \in Seq(Nat)
  <2>1. Encodes(s, in)
    BY EncodeIs
  <2>2. QED
    BY <1>1, <2>1 DEF Encodes
<1>4. ASSUME NEW in \in Seq(Nat), NEW later \in Seq(Nat), NEW fin \in BOOLEAN,
             Shows(size, s, in, fin, later)
      PROVE  Well({s}, size, room, s, in, fin, later)
  <2>1. CASE s.name \in Base16
    <3>1. Transform(s, in, room, fin) = BlockEncode(s, in, room, fin)
      BY <2>1, EncoderIs
    <3>2. in # <<>> => Bytes(s.name) <= Len(in)
      BY <2>1, BaseIs, EmptySeq, LenProperties
    <3>3. QED
      BY <1>1, <1>4, <3>1, <3>2, BlockEncodeWell
  <2>2. CASE s.name \in Base32 \cup Base64
    <3>1. Transform(s, in, room, fin) = PaddedEncode(s, in, room, fin)
      BY <2>2, EncoderIs
    <3>2. QED
      BY <1>1, <1>4, <2>2, <3>1, PaddedEncodeWell
  <2>3. QED
    BY <2>1, <2>2 DEF Bases
<1>5. QED
  BY <1>2, <1>3, <1>4 DEF Steady

-----------------------------------------------------------------------------
(***************************************************************************)
(* Digits of characters.                                                   *)
(***************************************************************************)
\* The alphabets, one by one.
LEMMA CharArms ==
  ASSUME NEW d \in Nat
  PROVE  /\ d < 10 => Char("hex", d) = 48 + d
         /\ ~(d < 10) => Char("hex", d) = 87 + d
         /\ d < 10 => Char("base16", d) = 48 + d
         /\ ~(d < 10) => Char("base16", d) = 55 + d
         /\ Char("modhex", d) = ModHex[d + 1]
         /\ d < 26 => Char("base32", d) = 65 + d
         /\ ~(d < 26) => Char("base32", d) = 24 + d
         /\ d < 10 => Char("base32hex", d) = 48 + d
         /\ ~(d < 10) => Char("base32hex", d) = 55 + d
<1>1. /\ "base32" \notin Base64 /\ "modhex" \notin Base64 /\ "hex" \notin Base64
      /\ "base16" \notin Base64 /\ "base32hex" \notin Base64
  BY DEF Base64
<1>2. (d < 10 => Char("hex", d) = 48 + d) /\ (~(d < 10) => Char("hex", d) = 87 + d)
  BY <1>1 DEF Char
<1>3. (d < 10 => Char("base16", d) = 48 + d) /\ (~(d < 10) => Char("base16", d) = 55 + d)
  BY <1>1 DEF Char
<1>4. Char("modhex", d) = ModHex[d + 1]
  BY <1>1 DEF Char
<1>5. (d < 26 => Char("base32", d) = 65 + d) /\ (~(d < 26) => Char("base32", d) = 24 + d)
  BY <1>1 DEF Char
<1>6. (d < 10 => Char("base32hex", d) = 48 + d) /\ (~(d < 10) => Char("base32hex", d) = 55 + d)
  BY <1>1 DEF Char
<1>7. QED
  BY <1>2, <1>3, <1>4, <1>5, <1>6

\* The characters of base64, by their arms.
LEMMA CharArms64 ==
  ASSUME NEW base \in Base64, NEW d \in 0 .. 63
  PROVE  /\ d < 26 => Char(base, d) = 65 + d
         /\ d \in 26 .. 51 => Char(base, d) = 71 + d
         /\ d \in 52 .. 61 => Char(base, d) = d - 4
         /\ d = 62 => Char(base, d) = IF base = "base64" THEN 43 ELSE 45
         /\ d = 63 => Char(base, d) = IF base = "base64" THEN 47 ELSE 95
<1>1. base \in {"base64", "url64"}
  BY DEF Base64
<1>2. Char(base, d) =
        CASE d < 26 -> 65 + d
          [] d \in 26 .. 51 -> 71 + d
          [] d \in 52 .. 61 -> d - 4
          [] d = 62 -> IF base = "base64" THEN 43 ELSE 45
          [] d = 63 -> IF base = "base64" THEN 47 ELSE 95
  BY <1>1 DEF Char, Base64
<1>3. QED
  BY <1>2

\* The letters of modhex differ, ...
LEMMA ModHexIs ==
  ASSUME NEW i \in 1 .. 16, NEW j \in 1 .. 16, ModHex[i] = ModHex[j]
  PROVE  i = j
BY DEF ModHex

\* ... and are lower-case letters.
LEMMA ModHexPlain ==
  ASSUME NEW i \in 1 .. 16
  PROVE  ModHex[i] \in 98 .. 118
BY DEF ModHex

\* Each digit has a character of its own, none of them = , and hex and base16 give
\* the same characters to different digits in no case.
LEMMA OwnChar ==
  ASSUME NEW base \in Bases, NEW b \in Alike(base), NEW c \in Alike(base),
         NEW d \in 0 .. 2 ^ Bits(base) - 1, NEW e \in 0 .. 2 ^ Bits(base) - 1
  PROVE  /\ Char(b, d) = Char(c, e) => d = e
         /\ base \notin Base16 => Char(b, d) # Pad
<1>1. 2 ^ 4 - 1 = 15 /\ 2 ^ 5 - 1 = 31 /\ 2 ^ 6 - 1 = 63
  OBVIOUS
<1>2. CASE base \in {"hex", "base16"}
  <2>1. base \in Base16
    BY <1>2 DEF Base16
  <2>2. d \in 0 .. 15 /\ e \in 0 .. 15
    <3>1. d \in 0 .. 2 ^ 4 - 1 /\ e \in 0 .. 2 ^ 4 - 1
      BY <2>1, BaseIs
    <3>2. QED
      BY <1>1, <3>1
  <2>3. b \in {"hex", "base16"} /\ c \in {"hex", "base16"}
    BY <1>2 DEF Alike
  <2>4. /\ d \in Nat /\ e \in Nat
        /\ d < 10 => Char(b, d) = 48 + d
        /\ ~(d < 10) => Char(b, d) \in {87 + d, 55 + d}
        /\ e < 10 => Char(c, e) = 48 + e
        /\ ~(e < 10) => Char(c, e) \in {87 + e, 55 + e}
    BY <2>2, <2>3, CharArms
  <2>5. QED
    BY <2>1, <2>2, <2>4
<1>3. CASE base = "modhex"
  <2>1. base \in Base16
    BY <1>3 DEF Base16
  <2>2. d \in 0 .. 15 /\ e \in 0 .. 15
    <3>1. d \in 0 .. 2 ^ 4 - 1 /\ e \in 0 .. 2 ^ 4 - 1
      BY <2>1, BaseIs
    <3>2. QED
      BY <1>1, <3>1
  <2>3. b = "modhex" /\ c = "modhex"
    BY <1>3 DEF Alike
  <2>4. Char(b, d) = ModHex[d + 1] /\ Char(c, e) = ModHex[e + 1]
        /\ d + 1 \in 1 .. 16 /\ e + 1 \in 1 .. 16
    BY <2>2, <2>3, CharArms
  <2>5. Char(b, d) = Char(c, e) => d + 1 = e + 1
    BY <2>4, ModHexIs
  <2>6. QED
    BY <2>1, <2>2, <2>5
<1>4. CASE base \in Base32
  <2>1. d \in 0 .. 31 /\ e \in 0 .. 31
    <3>1. d \in 0 .. 2 ^ 5 - 1 /\ e \in 0 .. 2 ^ 5 - 1
      BY <1>4, BaseIs
    <3>2. QED
      BY <1>1, <3>1
  <2>2. b = base /\ c = base /\ base \in {"base32", "base32hex"}
    BY <1>4 DEF Alike, Base32
  <2>3. CASE base = "base32"
    BY <2>1, <2>2, <2>3, CharArms DEF Pad
  <2>4. CASE base = "base32hex"
    BY <2>1, <2>2, <2>4, CharArms, SMTT(30) DEF Pad
  <2>5. QED
    BY <2>2, <2>3, <2>4
<1>5. CASE base \in Base64
  <2>1. d \in 0 .. 63 /\ e \in 0 .. 63
    <3>1. d \in 0 .. 2 ^ 6 - 1 /\ e \in 0 .. 2 ^ 6 - 1
      BY <1>5, BaseIs
    <3>2. QED
      BY <1>1, <3>1
  <2>2. b = base /\ c = base
    BY <1>5 DEF Alike, Base64
  <2>3. QED
    BY <1>5, <2>1, <2>2, CharArms64 DEF Pad
<1>6. QED
  BY <1>2, <1>3, <1>4, <1>5 DEF Bases, Base16

\* hex and base16 have the same blocks.
LEMMA AlikeIs ==
  ASSUME NEW base \in Bases, NEW a \in Alike(base)
  PROVE  /\ a \in Bases /\ base \in Alike(base)
         /\ Bits(a) = Bits(base) /\ Chars(a) = Chars(base) /\ Bytes(a) = Bytes(base)
         /\ a \in Base16 <=> base \in Base16
<1>1. CASE base \in {"hex", "base16"}
  <2>1. base \in Base16 /\ a \in Base16 /\ base \in Alike(base)
    BY <1>1 DEF Alike, Base16
  <2> QED BY <2>1, BaseIs DEF Bases
<1>2. CASE base \notin {"hex", "base16"}
  BY <1>2 DEF Alike
<1> QED BY <1>1, <1>2

\* The digit of a character.
LEMMA DigitIs ==
  ASSUME NEW base \in Bases
  PROVE  /\ \A c \in Nat : Digit(base, c) \in {-1} \cup 0 .. 2 ^ Bits(base) - 1
         /\ \A a \in Alike(base) : \A d \in 0 .. 2 ^ Bits(base) - 1 : Digit(base, Char(a, d)) = d
         /\ base \notin Base16 => Digit(base, Pad) = 0
<1> DEFINE D == 0 .. 2 ^ Bits(base) - 1
           meant(c) == {d \in D : \E b \in Alike(base) : Char(b, d) = c}
<1>1. ASSUME NEW c \in 0 .. 255
      PROVE  Digit(base, c) = IF meant(c) # {} THEN CHOOSE d \in meant(c) : TRUE
                              ELSE IF c = Pad /\ base \notin Base16 THEN 0 ELSE -1
  <2>1. base \in Base16 \cup Base32 \cup Base64
    BY DEF Bases
  <2>2. QED
    BY <2>1 DEF Digit, Digits
<1>2. \A c : c \notin 0 .. 255 => Digit(base, c) = -1
  BY DEF Digit
<1>3. 0 \in D
  <2>1. Bits(base) \in {4, 5, 6}
    BY BaseIs DEF Bases
  <2>2. 2 ^ Bits(base) \in {2 ^ 4, 2 ^ 5, 2 ^ 6}
    BY <2>1, Zenon
  <2>3. {2 ^ 4, 2 ^ 5, 2 ^ 6} = {16, 32, 64}
    OBVIOUS
  <2>4. QED
    BY <2>2, <2>3
<1>4. ASSUME NEW c \in Nat PROVE Digit(base, c) \in {-1} \cup D
  <2>1. CASE c \in 0 .. 255
    <3>1. meant(c) # {} => (CHOOSE d \in meant(c) : TRUE) \in meant(c)
      OBVIOUS
    <3>2. meant(c) \subseteq D
      OBVIOUS
    <3> HIDE DEF meant, D
    <3>3. QED
      BY <1>1, <1>3, <2>1, <3>1, <3>2
  <2>2. CASE c \notin 0 .. 255
    BY <1>2, <2>2
  <2>3. QED
    BY <2>1, <2>2
<1>5. ASSUME NEW d \in D, NEW a \in Alike(base) PROVE Digit(base, Char(a, d)) = d
  <2> DEFINE c == Char(a, d)
  <2>1. c \in 0 .. 255
    BY AlikeIs, CharIs
  <2>2. a \in Alike(base)
    OBVIOUS
  <2>3. d \in meant(c)
    BY <2>2
  <2>4. ASSUME NEW e \in meant(c) PROVE e = d
    <3>1. PICK b \in Alike(base) : Char(b, e) = c
      OBVIOUS
    <3>2. QED
      BY <2>2, <3>1, OwnChar
  <2> HIDE DEF c
  <2>5. (CHOOSE e \in meant(c) : TRUE) = d
    <3> HIDE DEF meant
    <3>1. QED
      BY <2>3, <2>4
  <2>6. meant(c) # {}
    BY <2>3
  <2> HIDE DEF meant
  <2>7. QED
    BY <1>1, <2>1, <2>5, <2>6 DEF c
<1>6. ASSUME base \notin Base16 PROVE Digit(base, Pad) = 0
  <2>1. Pad \in 0 .. 255
    BY DEF Pad
  <2>2. meant(Pad) = {}
    <3>1. SUFFICES ASSUME NEW d \in D, NEW b \in Alike(base), Char(b, d) = Pad PROVE FALSE
      OBVIOUS
    <3>2. QED
      BY <1>6, <3>1, OwnChar
  <2> HIDE DEF meant
  <2>3. QED
    BY <1>1, <1>6, <2>1, <2>2
<1>7. QED
  BY <1>4, <1>5, <1>6, SMTT(30)

-----------------------------------------------------------------------------
(***************************************************************************)
(* What strict decoders make of their input.                               *)
(***************************************************************************)
\* The first n characters tell something: = comes behind them, or nothing.
ToldUpTo(in, n) ==
  /\ n \in 0 .. Len(in)
  /\ \A i \in 1 .. n : in[i] # Pad
  /\ n = Len(in) \/ in[n + 1] = Pad

\* There is one number of telling characters.
LEMMA ToldOnce ==
  ASSUME NEW in \in Seq(Nat)
  PROVE  \E n \in Nat : ToldUpTo(in, n) /\ \A m : ToldUpTo(in, m) => m = n
<1> DEFINE L == Len(in)
           stops == {m \in 0 .. L : m = L \/ in[m + 1] = Pad}
<1>1. L \in Nat
  BY LenProperties
<1>2. L \in stops /\ stops \in SUBSET Nat
  BY <1>1
<1>3. PICK n \in stops : \A i \in stops : n <= i
  BY <1>2, HasLeast
<1>4. n \in 0 .. L /\ (n = L \/ in[n + 1] = Pad)
  BY <1>3
<1>5. ASSUME NEW i \in 1 .. n PROVE in[i] # Pad
  <2>1. SUFFICES ASSUME in[i] = Pad PROVE FALSE
    OBVIOUS
  <2>2. i - 1 \in 0 .. L /\ (i - 1) + 1 = i
    BY <1>1, <1>4
  <2>3. i - 1 \in stops
    BY <2>1, <2>2
  <2>4. n <= i - 1
    BY <1>3, <2>3
  <2>5. QED
    BY <1>1, <1>4, <2>4
<1>6. ToldUpTo(in, n)
  BY <1>4, <1>5 DEF ToldUpTo
<1>7. ASSUME NEW m, ToldUpTo(in, m) PROVE m = n
  <2>1. m \in 0 .. L /\ (\A i \in 1 .. m : in[i] # Pad) /\ (m = L \/ in[m + 1] = Pad)
    BY <1>7 DEF ToldUpTo
  <2>2. m \in stops
    BY <2>1
  <2>3. n <= m
    BY <1>3, <2>2
  <2>4. CASE n < m
    <3>1. n + 1 \in 1 .. m /\ n # L
      BY <1>1, <1>4, <2>1, <2>4
    <3>2. QED
      BY <1>4, <2>1, <3>1
  <2>5. QED
    BY <1>1, <1>4, <2>1, <2>3, <2>4
<1>8. QED
  BY <1>1, <1>4, <1>6, <1>7

\* The first n digits.
DigitsOf(base, in, n) == [i \in 1 .. n |-> Digit(base, in[i])]

\* Digits, in whole blocks if = fills them, with no more bits than bytes need.
WellFormed(s, in, n) ==
  /\ ToldUpTo(in, n)
  /\ \A i \in 1 .. n : Digit(s.name, in[i]) # -1
  /\ \A i \in n + 1 .. Len(in) : in[i] = Pad
  /\ (n * Bits(s.name)) % 8 < Bits(s.name)
  /\ Len(in) = IF s.pad THEN Up(n, Chars(s.name)) ELSE n

\* They are digits.
LEMMA DigitsAre ==
  ASSUME NEW base \in Bases, NEW in \in Seq(Nat), NEW n \in 0 .. Len(in),
         \A i \in 1 .. n : Digit(base, in[i]) # -1
  PROVE  /\ DigitsOf(base, in, n) \in Seq(Nat) /\ Len(DigitsOf(base, in, n)) = n
         /\ \A i \in 1 .. n : DigitsOf(base, in, n)[i] \in 0 .. 2 ^ Bits(base) - 1
<1> DEFINE D == 0 .. 2 ^ Bits(base) - 1
<1>1. Len(in) \in Nat /\ n \in Nat
  BY LenProperties
<1>2. ASSUME NEW i \in 1 .. n PROVE Digit(base, in[i]) \in D
  <2>1. i \in 1 .. Len(in)
    BY <1>1
  <2>2. in[i] \in Nat
    BY <2>1, ElementOfSeq
  <2>3. Digit(base, in[i]) \in {-1} \cup D
    BY <2>2, DigitIs
  <2> HIDE DEF D
  <2>4. QED
    BY <2>3
<1>3. \A i \in 1 .. n : Digit(base, in[i]) \in Nat
  BY <1>2
<1> HIDE DEF D
<1>4. DigitsOf(base, in, n) \in [1 .. n -> Nat]
  BY <1>3 DEF DigitsOf
<1>5. DigitsOf(base, in, n) \in Seq(Nat) /\ Len(DigitsOf(base, in, n)) = n
  BY <1>1, <1>4, IsRow
<1>6. \A i \in 1 .. n : DigitsOf(base, in, n)[i] \in D
  BY <1>2 DEF DigitsOf
<1>7. QED
  BY <1>5, <1>6 DEF D

\* What a strict decoder means.
LEMMA DecodeIs ==
  ASSUME NEW s, s.name \in Bases, s.strict, NEW in \in Seq(Nat), NEW n, ToldUpTo(in, n)
  PROVE  /\ WellFormed(s, in, n) =>
              DecodeMeaning(s, in) = Regroup(DigitsOf(s.name, in, n), Bits(s.name), 8)
         /\ ~WellFormed(s, in, n) => DecodeMeaning(s, in) = Malformed
<1> DEFINE base == s.name
           told == CHOOSE m \in 0 .. Len(in) :
                     (\A i \in 1 .. m : in[i] # Pad) /\ (m = Len(in) \/ in[m + 1] = Pad)
           digits == DigitsOf(base, in, n)
           left == (n * Bits(base)) % 8
<1>1. told = n
  <2> DEFINE P(m) == (\A i \in 1 .. m : in[i] # Pad) /\ (m = Len(in) \/ in[m + 1] = Pad)
  <2>1. \A m : ToldUpTo(in, m) <=> m \in 0 .. Len(in) /\ P(m)
    BY DEF ToldUpTo
  <2>2. PICK k \in Nat : \A m : ToldUpTo(in, m) => m = k
    BY ToldOnce
  <2>3. n \in 0 .. Len(in) /\ P(n) /\ \A m \in 0 .. Len(in) : P(m) => m = n
    BY <2>1, <2>2
  <2>4. told = CHOOSE m \in 0 .. Len(in) : P(m)
    OBVIOUS
  <2> HIDE DEF P, told
  <2>5. QED
    BY <2>3, <2>4
<1>2. DecodeMeaning(s, in) =
        IF \/ -1 \in ToSet(digits)
           \/ \E i \in n + 1 .. Len(in) : in[i] # Pad
           \/ left >= Bits(base)
           \/ Len(in) # IF s.pad THEN Up(n, Chars(base)) ELSE n
        THEN Malformed
        ELSE Regroup(digits, Bits(base), 8)
  <2> HIDE DEF told
  <2>1. DecodeMeaning(s, in) =
          LET ds == [i \in 1 .. told |-> Digit(base, in[i])]
              lft == (told * Bits(base)) % 8
          IN  IF \/ -1 \in ToSet(ds)
                 \/ \E i \in told + 1 .. Len(in) : in[i] # Pad
                 \/ lft >= Bits(base)
                 \/ Len(in) # IF s.pad THEN Up(told, Chars(base)) ELSE told
              THEN Malformed
              ELSE Regroup(ds, Bits(base), 8)
    BY DEF DecodeMeaning, told
  <2>2. QED
    BY <1>1, <2>1 DEF DigitsOf
<1>3. -1 \in ToSet(digits) <=> ~(\A i \in 1 .. n : Digit(base, in[i]) # -1)
  BY DEF ToSet, DigitsOf
<1>4. left >= Bits(base) <=> ~(left < Bits(base))
  <2>1. left \in Int /\ Bits(base) \in Int
    <3>1. n \in Int
      BY DEF ToldUpTo
    <3>2. Bits(base) \in Int /\ n * Bits(base) \in Int
      BY <3>1, BaseIs DEF Bases
    <3>3. QED
      BY <3>2
  <2> HIDE DEF left
  <2>2. QED
    BY <2>1
<1> HIDE DEF told, digits, left
<1>5. WellFormed(s, in, n) <=>
        ~ ( \/ -1 \in ToSet(digits)
            \/ \E i \in n + 1 .. Len(in) : in[i] # Pad
            \/ left >= Bits(base)
            \/ Len(in) # IF s.pad THEN Up(n, Chars(base)) ELSE n )
  BY <1>3, <1>4 DEF WellFormed, left
<1>6. QED
  BY <1>2, <1>5 DEF digits

\* All are digits; what a chunk of them is summed up to.
AllDigits(base, in) == \A i \in 1 .. Len(in) : Digit(base, in[i]) # -1

\* A chunk, as if zeros followed it.
Lined(base, chunk) ==
  [k \in 1 .. Chars(base) |-> IF k <= Len(chunk) THEN Digit(base, chunk[k]) ELSE 0]

ChunkSummed(base, chunk) ==
  /\ Sum(base, chunk).negative = FALSE
  /\ Sum(base, chunk).bytes = Regroup(Lined(base, chunk), Bits(base), 8)

\* A digit has nothing to carry.
LEMMA SmallRest ==
  ASSUME NEW L \in Nat \ {0}, NEW r \in 0 .. L - 1
  PROVE  (r + 0) \div L = 0 /\ (r + 0) % L = r
<1>1. PICK z \in Nat : z = 0
  OBVIOUS
<1>2. (L * z + r) \div L = z /\ (L * z + r) % L = r
  BY DivIs
<1>3. L * z + r = r /\ r + 0 = r
  BY <1>1
<1>4. QED
  BY <1>1, <1>2, <1>3

\* What is carried from place to place.
Carries(h, g, n, radix) ==
  h = [k \in 1 .. n + 1 |-> IF k > n THEN 0 ELSE (g[k] + h[k + 1]) \div radix]

\* Digits that are none of them -1 carry nothing.
LEMMA CarriesNothing ==
  ASSUME NEW radix \in Nat \ {0}, NEW n \in Nat, NEW g \in [1 .. n -> 0 .. radix - 1],
         NEW h, Carries(h, g, n, radix)
  PROVE  \A k \in 1 .. n + 1 : h[k] = 0
<1> DEFINE bad == {m \in 0 .. n : h[n + 1 - m] # 0}
<1>1. SUFFICES ASSUME NEW k \in 1 .. n + 1, h[k] # 0 PROVE FALSE
  OBVIOUS
<1>2. n + 1 - k \in 0 .. n /\ n + 1 - (n + 1 - k) = k
  OBVIOUS
<1>3. bad # {} /\ bad \in SUBSET Nat
  <2>1. bad \in SUBSET Nat
    OBVIOUS
  <2>2. h[n + 1 - (n + 1 - k)] # 0
    BY <1>1, <1>2
  <2>3. n + 1 - k \in bad
    BY <1>2, <2>2
  <2>4. QED
    BY <2>1, <2>3
<1>4. PICK m \in bad : \A i \in bad : m <= i
  BY <1>3, HasLeast
<1>5. m \in 0 .. n /\ h[n + 1 - m] # 0
  BY <1>4
<1>6. CASE m = 0
  <2>1. n + 1 - m = n + 1 /\ n + 1 \in 1 .. n + 1 /\ n + 1 > n
    BY <1>6
  <2>2. h[n + 1] = 0
    BY <2>1 DEF Carries
  <2>3. QED
    BY <1>5, <2>1, <2>2
<1>7. CASE m > 0
  <2> DEFINE j == n + 1 - m
  <2>1. j \in 1 .. n /\ j \in 1 .. n + 1 /\ m - 1 \in 0 .. n /\ n + 1 - (m - 1) = j + 1 /\ ~(j > n)
    BY <1>5, <1>7
  <2>2. m - 1 \notin bad
    <3>1. ~(m <= m - 1)
      BY <1>5
    <3>2. QED
      BY <1>4, <3>1
  <2>3. h[j + 1] = 0
    BY <2>1, <2>2
  <2>4. h[j] = (g[j] + h[j + 1]) \div radix
    BY <2>1 DEF Carries
  <2>5. g[j] \in 0 .. radix - 1
    BY <2>1
  <2>6. (g[j] + 0) \div radix = 0
    BY <2>5, SmallRest
  <2>7. QED
    BY <1>5, <2>3, <2>4, <2>6
<1>8. QED
  BY <1>5, <1>6, <1>7

\* A chunk, filled up, is a row of digits.
LEMMA LinedIs ==
  ASSUME NEW base \in Bases, NEW chunk \in Seq(Nat), AllDigits(base, chunk)
  PROVE  /\ Lined(base, chunk) \in [1 .. Chars(base) -> 0 .. 2 ^ Bits(base) - 1]
         /\ Lined(base, chunk) \in Seq(Nat) /\ Len(Lined(base, chunk)) = Chars(base)
<1> DEFINE D == 0 .. 2 ^ Bits(base) - 1
<1>1. D \subseteq Nat /\ 0 \in D
  <2>1. 2 ^ Bits(base) \in {16, 32, 64}
    <3>1. Bits(base) \in {4, 5, 6}
      BY BaseIs DEF Bases
    <3>2. 2 ^ 4 = 16 /\ 2 ^ 5 = 32 /\ 2 ^ 6 = 64
      BY PowersAre
    <3>3. QED
      BY <3>1, <3>2
  <2>2. QED
    BY <2>1
<1>2. ASSUME NEW k \in 1 .. Chars(base), k <= Len(chunk) PROVE Digit(base, chunk[k]) \in D
  <2>1. k \in 1 .. Len(chunk)
    BY <1>2, LenProperties, BaseSizes
  <2>2. chunk[k] \in Nat /\ Digit(base, chunk[k]) # -1
    BY <2>1, ElementOfSeq DEF AllDigits
  <2>3. Digit(base, chunk[k]) \in {-1} \cup D
    BY <2>2, DigitIs
  <2> HIDE DEF D
  <2>4. QED
    BY <2>2, <2>3
<1> HIDE DEF D
<1>3. Lined(base, chunk) \in [1 .. Chars(base) -> D]
  BY <1>1, <1>2 DEF Lined
<1>4. Lined(base, chunk) \in [1 .. Chars(base) -> Nat]
  BY <1>1, <1>3
<1>5. Lined(base, chunk) \in Seq(Nat) /\ Len(Lined(base, chunk)) = Chars(base)
  <2>1. Chars(base) \in Nat
    BY BaseSizes
  <2>2. QED
    BY <1>4, <2>1, IsRow
<1>6. QED
  BY <1>3, <1>5 DEF D

\* A chunk of digits comes to its digits, regrouped.
LEMMA ChunkSums ==
  ASSUME NEW base \in Bases, NEW chunk \in Seq(Nat), AllDigits(base, chunk)
  PROVE  ChunkSummed(base, chunk)
<1> DEFINE radix == 2 ^ Bits(base)
           n == Chars(base)
           g == Lined(base, chunk)
           digit(k) == IF k <= Len(chunk) THEN Digit(base, chunk[k]) ELSE 0
           IsUp(h) == h = [k \in 1 .. n + 1 |->
                              IF k > n THEN 0 ELSE (digit(k) + h[k + 1]) \div radix]
           carry == CHOOSE h : IsUp(h)
           cut == [k \in 1 .. n |-> (digit(k) + carry[k + 1]) % radix]
<1>1. /\ g \in [1 .. n -> 0 .. radix - 1] /\ g \in Seq(Nat) /\ Len(g) = n
  BY LinedIs
<1>2. n \in Nat
  BY BaseSizes
<1>3. radix \in Nat \ {0}
  <2>1. Bits(base) \in {4, 5, 6}
    BY BaseIs DEF Bases
  <2>2. 2 ^ 4 = 16 /\ 2 ^ 5 = 32 /\ 2 ^ 6 = 64
    BY PowersAre
  <2>3. radix \in {16, 32, 64}
    BY <2>1, <2>2
  <2> HIDE DEF radix
  <2>4. QED
    BY <2>3
<1>4. \A k \in 1 .. n : digit(k) = g[k]
  BY DEF Lined
<1>5. Sum(base, chunk) = [negative |-> carry[1] < 0, bytes |-> Regroup(cut, Bits(base), 8)]
  BY DEF Sum
<1> HIDE DEF digit, g, radix, n
<1>6. \E h : IsUp(h)
  <2> DEFINE z == [k \in 1 .. n + 1 |-> 0]
  <2>1. ASSUME NEW k \in 1 .. n + 1 PROVE 0 = IF k > n THEN 0 ELSE (digit(k) + z[k + 1]) \div radix
    <3>1. CASE k > n
      BY <3>1
    <3>2. CASE ~(k > n)
      <4>1. k \in 1 .. n /\ k + 1 \in 1 .. n + 1
        BY <1>2, <3>2
      <4>2. digit(k) = g[k] /\ g[k] \in 0 .. radix - 1 /\ z[k + 1] = 0
        BY <1>1, <1>4, <4>1
      <4>3. (g[k] + 0) \div radix = 0
        BY <1>3, <4>2, SmallRest
      <4>4. QED
        BY <3>2, <4>2, <4>3
    <3>3. QED
      BY <3>1, <3>2
  <2>2. IsUp(z)
    BY <2>1
  <2>3. QED
    BY <2>2
<1>7. IsUp(carry)
  <2> HIDE DEF IsUp
  <2>1. QED
    BY <1>6
<1> HIDE DEF carry
<1>8. Carries(carry, g, n, radix)
  <2>1. ASSUME NEW k \in 1 .. n + 1, ~(k > n) PROVE digit(k) = g[k]
    <3>1. k \in 1 .. n
      BY <1>2, <2>1
    <3>2. QED
      BY <1>4, <3>1
  <2>2. QED
    BY <1>7, <2>1 DEF Carries
<1>9. \A k \in 1 .. n + 1 : carry[k] = 0
  <2> HIDE DEF IsUp
  <2>1. g \in [1 .. n -> 0 .. radix - 1]
    BY <1>1
  <2>2. QED
    BY <1>2, <1>3, <1>8, <2>1, CarriesNothing
<1>10. ASSUME NEW k \in 1 .. n PROVE (digit(k) + carry[k + 1]) % radix = g[k]
  <2>1. k + 1 \in 1 .. n + 1
    BY <1>2
  <2>2. carry[k + 1] = 0 /\ digit(k) = g[k] /\ g[k] \in 0 .. radix - 1
    BY <1>1, <1>4, <1>9, <2>1
  <2>3. (g[k] + 0) % radix = g[k]
    BY <1>3, <2>2, SmallRest
  <2>4. QED
    BY <2>2, <2>3
<1>11. cut = g
  BY <1>1, <1>10
<1>12. carry[1] = 0
  <2>1. 1 \in 1 .. n + 1
    BY <1>2
  <2>2. QED
    BY <1>9, <2>1
<1>13. QED
  <2>1. /\ Sum(base, chunk).negative = (carry[1] < 0)
        /\ Sum(base, chunk).bytes = Regroup(cut, Bits(base), 8)
    BY <1>5
  <2>2. (carry[1] < 0) = FALSE
    BY <1>12
  <2>3. QED
    BY <1>11, <2>1, <2>2 DEF ChunkSummed, g

\* The first m characters stand for digits.
Digital(base, in, m) ==
  m \in 0 .. Len(in) /\ \A i \in 1 .. m : Digit(base, in[i]) # -1

\* One chunk, and the bytes of each.
Chunk(base, in, i) == SubSeq(in, (i - 1) * Chars(base) + 1, i * Chars(base))
ChunkBytes(base, in, k) == [i \in 1 .. k |-> Sum(base, Chunk(base, in, i)).bytes]

\* What the first k chunks of an input come to.
ComeToBytes(base, in, k) ==
  /\ \A i \in 1 .. k : ~Sum(base, Chunk(base, in, i)).negative
  /\ ChunkBytes(base, in, k) \in Seq(Seq(Nat))
  /\ FlattenSeq(ChunkBytes(base, in, k))
       = Regroup(DigitsOf(base, in, k * Chars(base)), Bits(base), 8)

\* A sequence is the row of its elements.
LEMMA SeqIs ==
  ASSUME NEW S, NEW s \in Seq(S)
  PROVE  s = [i \in 1 .. Len(s) |-> s[i]]
OBVIOUS

\* The next chunk.
LEMMA ChunkAt ==
  ASSUME NEW base, NEW in, NEW k \in Nat, Chars(base) \in Nat
  PROVE  Chunk(base, in, k + 1)
           = SubSeq(in, k * Chars(base) + 1, k * Chars(base) + Chars(base))
<1> DEFINE j == k + 1
<1>1. j - 1 = k /\ j \in Nat
  OBVIOUS
<1>2. j * Chars(base) = k * Chars(base) + Chars(base)
  OBVIOUS
<1> HIDE DEF j
<1>3. Chunk(base, in, j) = SubSeq(in, (j - 1) * Chars(base) + 1, j * Chars(base))
  BY DEF Chunk
<1>4. QED
  BY <1>1, <1>2, <1>3 DEF j

\* The chunk behind k of them.
LEMMA ChunkIs ==
  ASSUME NEW base \in Bases, NEW in \in Seq(Nat), NEW k \in Nat,
         Digital(base, in, (k + 1) * Chars(base))
  PROVE  /\ Chunk(base, in, k + 1) \in Seq(Nat)
         /\ AllDigits(base, Chunk(base, in, k + 1))
         /\ Digital(base, in, k * Chars(base))
         /\ DigitsOf(base, in, (k + 1) * Chars(base))
              = DigitsOf(base, in, k * Chars(base)) \o Lined(base, Chunk(base, in, k + 1))
<1> DEFINE C == Chars(base)
           m == k * C
           x == Chunk(base, in, k + 1)
<1>1. C \in Nat \ {0} /\ Len(in) \in Nat
  BY BaseSizes, LenProperties
<1>2. m \in Nat /\ (k + 1) * C = m + C /\ (k + 1 - 1) * C = m
  BY <1>1
<1>3. x = SubSeq(in, m + 1, m + C)
  BY <1>1, ChunkAt
<1> HIDE DEF C, m, x
<1>4. m + C \in 0 .. Len(in) /\ \A i \in 1 .. m + C : Digit(base, in[i]) # -1
  BY <1>2 DEF Digital, C
<1>5. m \in 0 .. Len(in) /\ m + C <= Len(in)
  BY <1>1, <1>2, <1>4
<1>6. x \in Seq(Nat) /\ Len(x) = C
  <2>1. C \in Nat /\ m \in Nat
    BY <1>1, <1>2
  <2>2. QED
    BY <1>3, <1>5, <2>1, Piece
<1>7. \A i \in 1 .. C : x[i] = in[m + i]
  <2>1. ASSUME NEW j \in m + 1 .. m + C PROVE in[j] \in Nat
    <3>1. j \in 1 .. Len(in)
      BY <1>1, <1>2, <1>5
    <3>2. QED
      BY <3>1, ElementOfSeq
  <2>2. m + 1 \in Int /\ m + C \in Int
    BY <1>1, <1>2
  <2>3. \A i \in 1 .. (m + C) - (m + 1) + 1 : SubSeq(in, m + 1, m + C)[i] = in[m + 1 + i - 1]
    BY <2>1, <2>2, SubSeqProperties
  <2>4. ASSUME NEW i \in 1 .. C PROVE x[i] = in[m + i]
    <3>1. m + 1 + i - 1 = m + i /\ i \in 1 .. (m + C) - (m + 1) + 1
      BY <1>1, <1>2
    <3>2. QED
      BY <1>3, <2>3, <3>1
  <2>5. QED
    BY <2>4
<1>8. \A i \in 1 .. C : m + i \in 1 .. m + C
  BY <1>1, <1>2
<1>9. AllDigits(base, x)
  BY <1>4, <1>6, <1>7, <1>8 DEF AllDigits
<1>10. Digital(base, in, m)
  <2>1. \A i \in 1 .. m : i \in 1 .. m + C
    BY <1>1, <1>2
  <2>2. QED
    BY <1>4, <1>5, <2>1 DEF Digital
<1>11. Digital(base, in, m + C)
  BY <1>4 DEF Digital
<1> HIDE DEF x
<1>12. /\ DigitsOf(base, in, m) \in Seq(Nat) /\ Len(DigitsOf(base, in, m)) = m
       /\ DigitsOf(base, in, m + C) \in Seq(Nat) /\ Len(DigitsOf(base, in, m + C)) = m + C
  BY <1>10, <1>11, DigitsAre DEF Digital
<1>13. Lined(base, x) \in Seq(Nat) /\ Len(Lined(base, x)) = C
  BY <1>6, <1>9, LinedIs DEF C
<1>14. \A i \in 1 .. m : DigitsOf(base, in, m + C)[i] = DigitsOf(base, in, m)[i]
  <2>1. \A i \in 1 .. m : i \in 1 .. m + C
    BY <1>1, <1>2
  <2>2. QED
    BY <2>1 DEF DigitsOf
<1>15. \A i \in 1 .. C : DigitsOf(base, in, m + C)[m + i] = Lined(base, x)[i]
  <2>1. ASSUME NEW i \in 1 .. C PROVE DigitsOf(base, in, m + C)[m + i] = Lined(base, x)[i]
    <3>1. DigitsOf(base, in, m + C)[m + i] = Digit(base, in[m + i])
      BY <1>8 DEF DigitsOf
    <3>2. i <= Len(x) /\ i \in 1 .. Chars(base)
      BY <1>1, <1>6 DEF C
    <3>3. Lined(base, x)[i] = Digit(base, x[i])
      BY <3>2 DEF Lined
    <3>4. QED
      BY <1>7, <3>1, <3>3
  <2>2. QED
    BY <2>1
<1>16. DigitsOf(base, in, m + C) = DigitsOf(base, in, m) \o Lined(base, x)
  <2> DEFINE r == DigitsOf(base, in, m + C)
             p == DigitsOf(base, in, m)
             q == Lined(base, x)
  <2>1. /\ p \in Seq(Nat) /\ q \in Seq(Nat) /\ r \in Seq(Nat)
        /\ Len(r) = Len(p) + Len(q) /\ Len(p) = m /\ Len(q) = C
    BY <1>12, <1>13
  <2>2. (\A i \in 1 .. m : r[i] = p[i]) /\ \A i \in 1 .. C : r[m + i] = q[i]
    BY <1>14, <1>15
  <2> HIDE DEF p, q, r
  <2>3. (\A i \in 1 .. Len(p) : r[i] = p[i]) /\ \A i \in 1 .. Len(q) : r[Len(p) + i] = q[i]
    BY <2>1, <2>2
  <2>4. r = p \o q
    BY <2>1, <2>3, RowsJoin
  <2>5. QED
    BY <2>4 DEF p, q, r
<1>17. QED
  BY <1>2, <1>6, <1>9, <1>10, <1>16 DEF C, m, x

\* One chunk more.
LEMMA ChunkStep ==
  ASSUME NEW base \in Bases, NEW in \in Seq(Nat), NEW k \in Nat,
         Digital(base, in, (k + 1) * Chars(base)), ComeToBytes(base, in, k)
  PROVE  ComeToBytes(base, in, k + 1)
<1> DEFINE b == Bits(base)
           d == DigitsOf(base, in, k * Chars(base))
           l == Lined(base, Chunk(base, in, k + 1))
           rows == ChunkBytes(base, in, k)
           row == Sum(base, Chunk(base, in, k + 1)).bytes
<1>1. /\ Chunk(base, in, k + 1) \in Seq(Nat)
      /\ AllDigits(base, Chunk(base, in, k + 1))
      /\ Digital(base, in, k * Chars(base))
      /\ DigitsOf(base, in, (k + 1) * Chars(base)) = d \o l
  BY ChunkIs
<1>2. ~Sum(base, Chunk(base, in, k + 1)).negative /\ row = Regroup(l, b, 8)
  BY <1>1, ChunkSums DEF ChunkSummed
<1>3. d \in Seq(Nat) /\ Len(d) = k * Chars(base)
  BY <1>1, DigitsAre DEF Digital
<1>4. l \in Seq(Nat) /\ Len(l) = Chars(base)
  BY <1>1, LinedIs
<1>5. b \in Widths /\ 8 \in Widths /\ 8 * Bytes(base) = b * Chars(base)
      /\ Bytes(base) \in Nat /\ Chars(base) \in Nat /\ b \in Nat
  BY BaseSizes DEF Widths
<1>6. Whole(8, b * Len(d))
  <2>1. b * (k * Chars(base)) = 8 * (Bytes(base) * k)
    <3>1. b * (k * Chars(base)) = (b * Chars(base)) * k
      BY <1>5
    <3>2. (8 * Bytes(base)) * k = 8 * (Bytes(base) * k)
      BY <1>5
    <3>3. QED
      BY <1>5, <3>1, <3>2
  <2>2. Bytes(base) * k \in Nat
    BY <1>5
  <2>3. QED
    BY <1>3, <2>1, <2>2 DEF Whole
<1> HIDE DEF b, d, l, rows, row
<1>7. RegroupJoined(d, l, b, 8)
  BY <1>3, <1>4, <1>5, <1>6, RegroupJoin
<1>8. Recut(l, b, 8)
  BY <1>4, <1>5, RegroupCuts
<1>9. row \in Seq(Nat)
  BY <1>2, <1>8 DEF Recut
<1>10. rows \in Seq(Seq(Nat)) /\ FlattenSeq(rows) = Regroup(d, b, 8)
  BY DEF ComeToBytes, rows, d, b
<1>11. ChunkBytes(base, in, k + 1) = Append(rows, row)
  <2>1. Len(rows) = k /\ \A i \in 1 .. k : rows[i] = Sum(base, Chunk(base, in, i)).bytes
    BY DEF rows, ChunkBytes
  <2>2. /\ Append(rows, row) \in Seq(Seq(Nat)) /\ Len(Append(rows, row)) = k + 1
        /\ \A i \in 1 .. k : Append(rows, row)[i] = rows[i]
        /\ Append(rows, row)[k + 1] = row
    BY <1>9, <1>10, <2>1, AppendProperties
  <2>3. ASSUME NEW i \in 1 .. k + 1
        PROVE  Append(rows, row)[i] = Sum(base, Chunk(base, in, i)).bytes
    <3>1. i = k + 1 \/ i \in 1 .. k
      OBVIOUS
    <3>2. QED
      BY <2>1, <2>2, <3>1 DEF row
  <2>4. Append(rows, row) = [i \in 1 .. k + 1 |-> Append(rows, row)[i]]
    BY <2>2, SeqIs
  <2>5. QED
    BY <2>3, <2>4 DEF ChunkBytes
<1>12. FlattenSeq(Append(rows, row)) = FlattenSeq(rows) \o row
  BY <1>9, <1>10, FlattenMore
<1>13. Append(rows, row) \in Seq(Seq(Nat))
  BY <1>9, <1>10, AppendProperties
<1>14. ASSUME NEW i \in 1 .. k + 1 PROVE ~Sum(base, Chunk(base, in, i)).negative
  <2>1. i = k + 1 \/ i \in 1 .. k
    OBVIOUS
  <2>2. QED
    BY <1>2, <2>1 DEF ComeToBytes
<1>15. FlattenSeq(ChunkBytes(base, in, k + 1)) = Regroup(d \o l, b, 8)
  BY <1>2, <1>7, <1>10, <1>11, <1>12 DEF RegroupJoined
<1>16. QED
  BY <1>1, <1>11, <1>13, <1>14, <1>15 DEF ComeToBytes, b

\* Quotients grow.
LEMMA DivGrows ==
  ASSUME NEW L \in Nat \ {0}, NEW a \in Nat, NEW b \in Nat
  PROVE  a \div L <= (a + b) \div L
<1> DEFINE k == a \div L
           r == a % L
<1>1. k \in Nat /\ r \in Nat /\ a = L * k + r
  BY ModIs
<1> HIDE DEF k, r
<1>2. r + b \in Nat /\ L * k + (r + b) = a + b
  BY <1>1
<1>3. (L * k + (r + b)) \div L = k + ((r + b) \div L)
  BY <1>1, <1>2, DivSum
<1>4. (r + b) \div L \in Nat
  BY <1>2, ModIs
<1>5. k <= k + ((r + b) \div L)
  BY <1>1, <1>4
<1>6. QED
  BY <1>2, <1>3, <1>5 DEF k

\* The first elements.
LEMMA FirstsAt ==
  ASSUME NEW s \in Seq(Nat), NEW n \in 0 .. Len(s), NEW j \in 1 .. n
  PROVE  Firsts(s, n)[j] = s[j]
<1>1. Len(s) \in Nat /\ n \in Nat
  BY LenProperties
<1>2. Smaller(n, Len(s)) = n
  BY <1>1 DEF Smaller
<1>3. \A i \in 1 .. n : s[i] \in Nat
  BY <1>1, ElementOfSeq
<1>4. 1 \in Int /\ n \in Int /\ j \in 1 .. n - 1 + 1 /\ 1 + j - 1 = j
  BY <1>1
<1>5. SubSeq(s, 1, n)[j] = s[1 + j - 1]
  BY <1>3, <1>4, SubSeqProperties
<1>6. QED
  BY <1>2, <1>4, <1>5 DEF Firsts

\* Whole chunks of digits come to their bits, in bytes.
LEMMA ChunksCome ==
  ASSUME NEW base \in Bases, NEW in \in Seq(Nat), NEW k \in Nat,
         Digital(base, in, k * Chars(base))
  PROVE  ComeToBytes(base, in, k)
<1> DEFINE bad == {i \in 0 .. k : ~ComeToBytes(base, in, i)}
<1>1. SUFFICES ASSUME bad # {} PROVE FALSE
  <2>1. k \in 0 .. k
    OBVIOUS
  <2>2. QED
    BY <2>1
<1>2. bad \in SUBSET Nat
  OBVIOUS
<1>3. PICK i \in bad : \A j \in bad : i <= j
  BY <1>1, <1>2, HasLeast
<1>4. i \in 0 .. k /\ ~ComeToBytes(base, in, i)
  BY <1>3
<1>5. ComeToBytes(base, in, 0)
  <2>1. ChunkBytes(base, in, 0) = <<>>
    BY DEF ChunkBytes
  <2>2. <<>> \in Seq(Seq(Nat)) /\ FlattenSeq(<<>>) = <<>>
    BY EmptySeq, FlattenAppend
  <2>3. 0 * Chars(base) = 0 /\ DigitsOf(base, in, 0) = <<>>
    <3>1. 0 * Chars(base) = 0
      BY BaseSizes
    <3>2. QED
      BY <3>1 DEF DigitsOf
  <2>4. Regroup(<<>>, Bits(base), 8) = <<>>
    <3>1. Bits(base) \in Widths /\ 8 \in Widths /\ <<>> \in Seq(Nat)
      BY BaseSizes, EmptySeq
    <3>2. Recut(<<>>, Bits(base), 8)
      BY <3>1, RegroupCuts
    <3>3. Pieces(<<>>, Bits(base), 8) = 0
      BY <3>1 DEF Pieces, Widths
    <3>4. Regroup(<<>>, Bits(base), 8) \in Seq(Nat) /\ Len(Regroup(<<>>, Bits(base), 8)) = 0
      BY <3>2, <3>3 DEF Recut
    <3>5. QED
      BY <3>4, EmptySeq
  <2>5. \A j \in 1 .. 0 : FALSE
    OBVIOUS
  <2>6. QED
    BY <2>1, <2>2, <2>3, <2>4, <2>5 DEF ComeToBytes
<1>6. i # 0
  BY <1>4, <1>5
<1> DEFINE j == i - 1
<1>7. j \in Nat /\ j + 1 = i /\ j \in 0 .. k /\ ~(i <= j)
  BY <1>4, <1>6
<1>8. ComeToBytes(base, in, j)
  BY <1>3, <1>7
<1>9. Digital(base, in, (j + 1) * Chars(base))
  <2>1. Chars(base) \in Nat /\ Len(in) \in Nat
    BY BaseSizes, LenProperties
  <2>2. i * Chars(base) \in 0 .. k * Chars(base)
    <3>1. k * Chars(base) = i * Chars(base) + (k - i) * Chars(base)
      BY <1>4, <2>1
    <3>2. (k - i) * Chars(base) \in Nat /\ i * Chars(base) \in Nat
      BY <1>4, <2>1
    <3>3. QED
      BY <3>1, <3>2
  <2> DEFINE m == i * Chars(base)
             n == k * Chars(base)
  <2>3. n \in 0 .. Len(in) /\ (\A l \in 1 .. n : Digit(base, in[l]) # -1) /\ m \in 0 .. n
    BY <2>2 DEF Digital
  <2> HIDE DEF m, n
  <2>4. m \in 0 .. Len(in) /\ \A l \in 1 .. m : l \in 1 .. n
    BY <2>1, <2>3
  <2>5. Digital(base, in, m)
    BY <2>3, <2>4 DEF Digital
  <2>6. QED
    BY <1>7, <2>5 DEF m
<1> HIDE DEF j
<1>10. ComeToBytes(base, in, j + 1)
  BY <1>7, <1>8, <1>9, ChunkStep
<1>11. QED
  BY <1>4, <1>7, <1>10

\* Where digits begin alike, so do the pieces of their bits.
LEMMA RegroupBegins ==
  ASSUME NEW from \in Widths, NEW to \in Widths, NEW p \in Seq(Nat), NEW q \in Seq(Nat)
  PROVE  Firsts(Regroup(p \o q, from, to), Pieces(p, from, to)) = Regroup(p, from, to)
<1> DEFINE x == Regroup(p \o q, from, to)
           y == Regroup(p, from, to)
           n == Pieces(p, from, to)
           m == Pieces(p \o q, from, to)
<1>1. p \o q \in Seq(Nat) /\ Len(p \o q) = Len(p) + Len(q) /\ Len(p) \in Nat /\ Len(q) \in Nat
  BY ConcatProperties, LenProperties
<1>2. Recut(p \o q, from, to) /\ Recut(p, from, to)
  BY <1>1, RegroupCuts
<1>3. /\ x \in Seq(Nat) /\ Len(x) = m /\ m \in Nat /\ y \in Seq(Nat) /\ Len(y) = n /\ n \in Nat
  BY <1>2 DEF Recut
<1>4. n <= m
  <2>1. from \in Nat /\ to \in Nat \ {0}
    BY DEF Widths
  <2>2. (Len(p) + Len(q)) * from = Len(p) * from + Len(q) * from /\ Len(q) * from \in Nat
        /\ Len(p) * from \in Nat
    BY <1>1, <2>1
  <2>3. ASSUME NEW a \in Nat, NEW b \in Nat PROVE a \div to <= (a + b) \div to
    BY <2>1, DivGrows
  <2>4. QED
    BY <1>1, <2>2, <2>3 DEF Pieces
<1>5. ASSUME NEW j \in 1 .. n PROVE x[j] = y[j]
  <2>1. j \in 1 .. m
    BY <1>3, <1>4
  <2>2. x[j] = Binary(BitsAt(p \o q, from, to, j)) /\ y[j] = Binary(BitsAt(p, from, to, j))
    BY <2>1, RegroupIs
  <2>3. ASSUME NEW i \in 1 .. to
        PROVE  Bit(p \o q, from, (j - 1) * to + i - 1) = Bit(p, from, (j - 1) * to + i - 1)
    <3>1. IsBit(p, from, (j - 1) * to + i - 1)
      BY BitsAtIs
    <3>2. QED
      BY <3>1, BitsJoin
  <2>4. BitsAt(p \o q, from, to, j) = BitsAt(p, from, to, j)
    BY <2>3 DEF BitsAt
  <2>5. QED
    BY <2>2, <2>4
<1> HIDE DEF x, y, n, m
<1>6. Firsts(x, n) = y
  <2>1. n \in 0 .. Len(x)
    BY <1>3, <1>4
  <2>2. Firsts(x, n) \in Seq(Nat) /\ Len(Firsts(x, n)) = n
    BY <1>3, <2>1, FirstsIs, FirstsLength
  <2>3. ASSUME NEW j \in 1 .. n PROVE Firsts(x, n)[j] = x[j]
    BY <1>3, <2>1, FirstsAt
  <2>4. QED
    BY <1>3, <1>5, <2>2, <2>3, SeqEqual
<1>7. QED
  BY <1>6 DEF x, y, n

\* An input that means something is well-formed.
LEMMA Decoded ==
  ASSUME NEW s, s.name \in Bases, s.strict, NEW in \in Seq(Nat)
  PROVE  /\ DecodeMeaning(s, in) \in Seq(Nat) \cup {Malformed}
         /\ DecodeMeaning(s, in) # Malformed => \E n \in Nat : WellFormed(s, in, n)
         /\ \A n : WellFormed(s, in, n) =>
              /\ DecodeMeaning(s, in) = Regroup(DigitsOf(s.name, in, n), Bits(s.name), 8)
              /\ DecodeMeaning(s, in) \in Seq(Nat)
              /\ Digital(s.name, in, n)
<1>1. ASSUME NEW n, WellFormed(s, in, n)
      PROVE  /\ DecodeMeaning(s, in) = Regroup(DigitsOf(s.name, in, n), Bits(s.name), 8)
             /\ DecodeMeaning(s, in) \in Seq(Nat)
             /\ Digital(s.name, in, n)
  <2>1. ToldUpTo(in, n) /\ n \in 0 .. Len(in) /\ \A i \in 1 .. n : Digit(s.name, in[i]) # -1
    BY <1>1 DEF WellFormed, ToldUpTo
  <2>2. DecodeMeaning(s, in) = Regroup(DigitsOf(s.name, in, n), Bits(s.name), 8)
    BY <1>1, <2>1, DecodeIs
  <2>3. DigitsOf(s.name, in, n) \in Seq(Nat)
    BY <2>1, DigitsAre
  <2>4. Bits(s.name) \in Widths /\ 8 \in Widths
    BY BaseSizes
  <2>5. Recut(DigitsOf(s.name, in, n), Bits(s.name), 8)
    BY <2>3, <2>4, RegroupCuts
  <2>6. QED
    BY <2>1, <2>2, <2>5 DEF Recut, Digital
<1>2. PICK n \in Nat : ToldUpTo(in, n)
  BY ToldOnce
<1>3. ~WellFormed(s, in, n) => DecodeMeaning(s, in) = Malformed
  BY <1>2, DecodeIs
<1>4. QED
  BY <1>1, <1>2, <1>3

\* Nothing is decoded as nothing.
LEMMA DecodeNothing ==
  ASSUME NEW s, s.name \in Bases, s.strict
  PROVE  DecodeMeaning(s, <<>>) = <<>>
<1>1. <<>> \in Seq(Nat) /\ Len(<<>>) = 0
  BY EmptySeq
<1>2. \A i \in 1 .. 0 : FALSE
  OBVIOUS
<1>3. ToldUpTo(<<>>, 0)
  BY <1>1, <1>2 DEF ToldUpTo
<1>4. Bits(s.name) \in {4, 5, 6} /\ Chars(s.name) \in {2, 4, 8}
  BY BaseIs DEF Bases
<1>5. (0 * Bits(s.name)) % 8 < Bits(s.name) /\ Up(0, Chars(s.name)) = 0
  BY <1>4 DEF Up
<1>6. 0 + 1 = 1
  OBVIOUS
<1>7. WellFormed(s, <<>>, 0)
  BY <1>1, <1>2, <1>3, <1>5, <1>6 DEF WellFormed
<1>8. DecodeMeaning(s, <<>>) = Regroup(DigitsOf(s.name, <<>>, 0), Bits(s.name), 8)
  BY <1>1, <1>7, Decoded
<1>9. DigitsOf(s.name, <<>>, 0) = <<>>
  BY DEF DigitsOf
<1>10. Bits(s.name) \in Widths /\ 8 \in Widths
  BY BaseSizes
<1>11. Recut(<<>>, Bits(s.name), 8)
  BY <1>1, <1>10, RegroupCuts
<1>12. Pieces(<<>>, Bits(s.name), 8) = 0
  BY <1>1, <1>4 DEF Pieces
<1>13. Regroup(<<>>, Bits(s.name), 8) \in Seq(Nat) /\ Len(Regroup(<<>>, Bits(s.name), 8)) = 0
  BY <1>11, <1>12 DEF Recut
<1>14. QED
  BY <1>8, <1>9, <1>13, EmptySeq

\* The bits of whole chunks are whole bytes.
LEMMA ChunkBits ==
  ASSUME NEW base \in Bases, NEW k \in Nat, NEW n \in Nat
  PROVE  /\ Whole(8, Bits(base) * (Chars(base) * k))
         /\ ((Chars(base) * k + n) * Bits(base)) % 8 = (n * Bits(base)) % 8
         /\ ((Chars(base) * k + n) * Bits(base)) \div 8 = Bytes(base) * k + (n * Bits(base)) \div 8
         /\ Up(Chars(base) * k + n, Chars(base)) = Chars(base) * k + Up(n, Chars(base))
<1>1. /\ 8 * Bytes(base) = Bits(base) * Chars(base)
      /\ Bytes(base) \in Nat /\ Chars(base) \in Nat \ {0} /\ Bits(base) \in Nat
  BY BaseSizes DEF Widths
<1> DEFINE m == Bytes(base) * k
           r == n * Bits(base)
<1>2. m \in Nat /\ r \in Nat
  BY <1>1
<1>3. Bits(base) * (Chars(base) * k) = 8 * m
  <2>1. Bits(base) * (Chars(base) * k) = (Bits(base) * Chars(base)) * k
    BY <1>1
  <2>2. (8 * Bytes(base)) * k = 8 * (Bytes(base) * k)
    BY <1>1
  <2>3. QED
    BY <1>1, <2>1, <2>2
<1>4. (Chars(base) * k + n) * Bits(base) = 8 * m + r
  <2>1. (Chars(base) * k + n) * Bits(base) = Bits(base) * (Chars(base) * k) + n * Bits(base)
    BY <1>1
  <2>2. QED
    BY <1>3, <2>1
<1> HIDE DEF m, r
<1>5. (8 * m + r) \div 8 = m + (r \div 8) /\ (8 * m + r) % 8 = r % 8
  BY <1>2, DivSum
<1>6. Whole(8, 8 * m)
  BY <1>2 DEF Whole
<1>7. Up(Chars(base) * k + n, Chars(base)) = Chars(base) * k + Up(n, Chars(base))
  BY <1>1, UpBehind
<1>8. QED
  BY <1>3, <1>4, <1>5, <1>6, <1>7 DEF m, r

\* The elements of two, joined.
LEMMA JoinAt ==
  ASSUME NEW p \in Seq(Nat), NEW q \in Seq(Nat)
  PROVE  /\ \A i \in 1 .. Len(p) : (p \o q)[i] = p[i]
         /\ \A i \in 1 .. Len(q) : (p \o q)[Len(p) + i] = q[i]
<1> DEFINE w == p \o q
<1>1. Len(p) \in Nat /\ Len(q) \in Nat
  BY LenProperties
<1>2. \A i \in 1 .. Len(p) + Len(q) : w[i] = IF i <= Len(p) THEN p[i] ELSE q[i - Len(p)]
  BY ConcatProperties
<1> HIDE DEF w
<1>3. ASSUME NEW i \in 1 .. Len(p) PROVE w[i] = p[i]
  <2>1. i \in 1 .. Len(p) + Len(q) /\ i <= Len(p)
    BY <1>1
  <2>2. QED
    BY <1>2, <2>1
<1>4. ASSUME NEW i \in 1 .. Len(q) PROVE w[Len(p) + i] = q[i]
  <2>1. /\ Len(p) + i \in 1 .. Len(p) + Len(q) /\ ~(Len(p) + i <= Len(p))
        /\ Len(p) + i - Len(p) = i
    BY <1>1
  <2>2. QED
    BY <1>2, <2>1
<1>5. QED
  BY <1>3, <1>4 DEF w

\* The digits of two, joined.
LEMMA DigitsJoin ==
  ASSUME NEW base \in Bases, NEW p \in Seq(Nat), NEW q \in Seq(Nat), NEW n \in 0 .. Len(q),
         Digital(base, p \o q, Len(p) + n)
  PROVE  /\ Digital(base, p, Len(p)) /\ Digital(base, q, n)
         /\ DigitsOf(base, p \o q, Len(p) + n)
              = DigitsOf(base, p, Len(p)) \o DigitsOf(base, q, n)
<1> DEFINE w == p \o q
           l == Len(p)
<1>1. /\ w \in Seq(Nat) /\ Len(w) = l + Len(q) /\ l \in Nat /\ Len(q) \in Nat
      /\ \A i \in 1 .. l : w[i] = p[i]
      /\ \A i \in 1 .. Len(q) : w[l + i] = q[i]
  BY ConcatProperties, LenProperties, JoinAt
<1>2. \A i \in 1 .. l + n : Digit(base, w[i]) # -1
  BY DEF Digital
<1> HIDE DEF w
<1>3. \A i \in 1 .. l : i \in 1 .. l + n
  BY <1>1
<1>4. \A i \in 1 .. n : l + i \in 1 .. l + n /\ i \in 1 .. Len(q)
  <2>1. l \in Nat /\ Len(q) \in Nat /\ n \in Nat /\ n <= Len(q)
    BY LenProperties
  <2> HIDE DEF l
  <2>2. QED
    BY <2>1
<1>5. l \in 0 .. l
  BY <1>1
<1>6. Digital(base, p, l)
  BY <1>1, <1>2, <1>3, <1>5 DEF Digital
<1>7. Digital(base, q, n)
  BY <1>1, <1>2, <1>4 DEF Digital
<1>8. Digital(base, w, l + n)
  BY DEF w
<1>9. /\ DigitsOf(base, p, l) \in Seq(Nat) /\ Len(DigitsOf(base, p, l)) = l
      /\ DigitsOf(base, q, n) \in Seq(Nat) /\ Len(DigitsOf(base, q, n)) = n
      /\ DigitsOf(base, w, l + n) \in Seq(Nat) /\ Len(DigitsOf(base, w, l + n)) = l + n
  BY <1>1, <1>6, <1>7, <1>8, DigitsAre DEF Digital
<1>10. \A i \in 1 .. l : DigitsOf(base, w, l + n)[i] = DigitsOf(base, p, l)[i]
  BY <1>1, <1>3 DEF DigitsOf
<1>11. \A i \in 1 .. n : DigitsOf(base, w, l + n)[l + i] = DigitsOf(base, q, n)[i]
  BY <1>1, <1>4 DEF DigitsOf
<1> DEFINE x == DigitsOf(base, w, l + n)
           y == DigitsOf(base, p, l)
           z == DigitsOf(base, q, n)
<1>12. /\ x \in Seq(Nat) /\ y \in Seq(Nat) /\ z \in Seq(Nat) /\ Len(x) = Len(y) + Len(z)
       /\ \A i \in 1 .. Len(y) : x[i] = y[i]
       /\ \A i \in 1 .. Len(z) : x[Len(y) + i] = z[i]
  BY <1>9, <1>10, <1>11
<1> HIDE DEF x, y, z
<1>13. x = y \o z
  BY <1>12, RowsJoin
<1>14. QED
  BY <1>6, <1>7, <1>13 DEF x, y, z, w

\* Whole chunks of digits and what follows them are decoded one after the other.
DecodesOn(s, p, q) ==
  /\ Digital(s.name, p, Len(p))
  /\ DecodeMeaning(s, p \o q)
       = Regroup(DigitsOf(s.name, p, Len(p)), Bits(s.name), 8) \o DecodeMeaning(s, q)
  /\ DecodeMeaning(s, q) \in Seq(Nat)

\* What tells, behind characters that do.
LEMMA ToldBehind ==
  ASSUME NEW p \in Seq(Nat), NEW q \in Seq(Nat), NEW n \in Nat, ToldUpTo(p \o q, Len(p) + n)
  PROVE  ToldUpTo(q, n)
<1> DEFINE w == p \o q
           l == Len(p)
<1>1. /\ Len(w) = l + Len(q) /\ l \in Nat /\ Len(q) \in Nat
      /\ \A i \in 1 .. Len(q) : w[l + i] = q[i]
  BY ConcatProperties, LenProperties, JoinAt
<1>2. /\ l + n \in 0 .. Len(w)
      /\ \A i \in 1 .. l + n : w[i] # Pad
      /\ l + n = Len(w) \/ w[l + n + 1] = Pad
  BY DEF ToldUpTo
<1> HIDE DEF w, l
<1>3. n \in 0 .. Len(q)
  BY <1>1, <1>2
<1>4. \A i \in 1 .. n : l + i \in 1 .. l + n /\ i \in 1 .. Len(q)
  BY <1>1, <1>3, SMTT(30)
<1>5. \A i \in 1 .. n : q[i] # Pad
  BY <1>1, <1>2, <1>4
<1>6. n = Len(q) \/ q[n + 1] = Pad
  <2>1. SUFFICES ASSUME n # Len(q) PROVE q[n + 1] = Pad
    OBVIOUS
  <2>2. n + 1 \in 1 .. Len(q) /\ l + n # Len(w) /\ l + n + 1 = l + (n + 1)
    BY <1>1, <1>3, <2>1
  <2>3. w[l + (n + 1)] = q[n + 1]
    BY <1>1, <2>2
  <2>4. QED
    BY <1>2, <2>2, <2>3
<1>7. QED
  BY <1>3, <1>5, <1>6 DEF ToldUpTo

\* What is behind whole chunks is decoded for itself.
LEMMA DecodeBehind ==
  ASSUME NEW s, s.name \in Bases, s.strict, NEW p \in Seq(Nat), NEW q \in Seq(Nat), NEW n \in Nat,
         Whole(Chars(s.name), Len(p)), WellFormed(s, p \o q, Len(p) + n)
  PROVE  DecodesOn(s, p, q)
<1> DEFINE base == s.name
           b == Bits(base)
           w == p \o q
           l == Len(p)
<1>1. PICK k \in Nat : l = Chars(base) * k
  BY DEF Whole
<1>2. /\ w \in Seq(Nat) /\ Len(w) = l + Len(q) /\ l \in Nat /\ Len(q) \in Nat
      /\ \A i \in 1 .. Len(q) : w[l + i] = q[i]
  BY ConcatProperties, LenProperties, JoinAt
<1>3. /\ ToldUpTo(w, l + n) /\ \A i \in l + n + 1 .. Len(w) : w[i] = Pad
      /\ ((l + n) * b) % 8 < b /\ Len(w) = IF s.pad THEN Up(l + n, Chars(base)) ELSE l + n
  BY DEF WellFormed
<1>4. ToldUpTo(q, n) /\ n \in 0 .. Len(q)
  <2>1. ToldUpTo(q, n)
    BY <1>3, ToldBehind
  <2>2. QED
    BY <2>1 DEF ToldUpTo
<1>5. /\ DecodeMeaning(s, w) = Regroup(DigitsOf(base, w, l + n), b, 8)
      /\ Digital(base, w, l + n)
  BY <1>2, Decoded
<1>6. /\ Digital(base, p, l) /\ Digital(base, q, n)
      /\ DigitsOf(base, w, l + n) = DigitsOf(base, p, l) \o DigitsOf(base, q, n)
  BY <1>4, <1>5, DigitsJoin
<1>7. Whole(8, b * l) /\ ((l + n) * b) % 8 = (n * b) % 8
      /\ Up(l + n, Chars(base)) = l + Up(n, Chars(base))
  <2>1. Whole(8, b * (Chars(base) * k)) /\ ((Chars(base) * k + n) * b) % 8 = (n * b) % 8
        /\ Up(Chars(base) * k + n, Chars(base)) = Chars(base) * k + Up(n, Chars(base))
    BY ChunkBits
  <2> HIDE DEF b, l
  <2>2. QED
    BY <1>1, <2>1
<1> HIDE DEF w, l, b
<1>8. \A i \in n + 1 .. Len(q) : q[i] = Pad
  <2>1. ASSUME NEW i \in n + 1 .. Len(q) PROVE q[i] = Pad
    <3>1. i \in 1 .. Len(q) /\ l + i \in l + n + 1 .. Len(w)
      BY <1>2
    <3>2. QED
      BY <1>2, <1>3, <3>1
  <2>2. QED
    BY <2>1
<1>9. Len(q) = IF s.pad THEN Up(n, Chars(base)) ELSE n
  <2>1. Up(n, Chars(base)) \in Nat
    <3>1. Chars(base) \in {2, 4, 8}
      BY BaseIs DEF Bases
    <3>2. QED
      BY <3>1, SMTT(30) DEF Up
  <2>2. CASE s.pad
    BY <1>2, <1>3, <1>7, <2>1, <2>2
  <2>3. CASE ~s.pad
    BY <1>2, <1>3, <2>3
  <2>4. QED
    BY <2>2, <2>3
<1>10. WellFormed(s, q, n)
  BY <1>3, <1>4, <1>6, <1>7, <1>8, <1>9 DEF WellFormed, Digital, b
<1>11. /\ DecodeMeaning(s, q) = Regroup(DigitsOf(base, q, n), b, 8)
       /\ DecodeMeaning(s, q) \in Seq(Nat)
  BY <1>10, Decoded DEF b
<1>12. /\ DigitsOf(base, p, l) \in Seq(Nat) /\ Len(DigitsOf(base, p, l)) = l
       /\ DigitsOf(base, q, n) \in Seq(Nat)
  BY <1>4, <1>6, DigitsAre DEF Digital, l
<1>13. b \in Widths /\ 8 \in Widths
  BY BaseSizes DEF b
<1>14. RegroupJoined(DigitsOf(base, p, l), DigitsOf(base, q, n), b, 8)
  BY <1>7, <1>12, <1>13, RegroupJoin
<1>15. DecodeMeaning(s, w) = Regroup(DigitsOf(base, p, l), b, 8) \o DecodeMeaning(s, q)
  BY <1>5, <1>6, <1>11, <1>14 DEF RegroupJoined
<1>16. QED
  BY <1>6, <1>11, <1>15 DEF DecodesOn, w, l, b

\* = is behind the last digits, in the last chunk.
DecodesPadded(s, p, q, n) ==
  /\ s.pad /\ q = <<>> /\ p \o q = p /\ s.name \notin Base16
  /\ ToldUpTo(p, n) /\ n < Len(p) /\ Len(p) < n + Chars(s.name) /\ n >= 2
  /\ Digital(s.name, p, Len(p)) /\ Digital(s.name, p, n)
  /\ DecodeMeaning(s, p) = Regroup(DigitsOf(s.name, p, n), Bits(s.name), 8)
  /\ DecodeMeaning(s, p) \in Seq(Nat)

\* Rounding up to the next chunk.
LEMMA UpIs ==
  ASSUME NEW C \in {2, 4, 8}, NEW n \in Nat, NEW k \in Nat, n < C * k
  PROVE  Up(n, C) <= C * k /\ Up(n, C) < n + C /\ Up(n, C) \in Nat
BY DEF Up

\* One digit is no byte.
LEMMA OneDigit == \A b \in {4, 5, 6} : ~((1 * b) % 8 < b)
OBVIOUS

\* And nothing may be behind the chunk that is padded.
LEMMA DecodeFill ==
  ASSUME NEW s, s.name \in Bases, s.strict, NEW p \in Seq(Nat), NEW q \in Seq(Nat), NEW n \in Nat,
         Whole(Chars(s.name), Len(p)), n < Len(p), WellFormed(s, p \o q, n)
  PROVE  DecodesPadded(s, p, q, n)
<1> DEFINE base == s.name
           b == Bits(base)
           w == p \o q
           l == Len(p)
           C == Chars(base)
<1>1. PICK k \in Nat : l = C * k
  BY DEF Whole
<1>2. w \in Seq(Nat) /\ Len(w) = l + Len(q) /\ l \in Nat /\ Len(q) \in Nat
  BY ConcatProperties, LenProperties
<1>3. /\ ToldUpTo(w, n) /\ (\A i \in n + 1 .. Len(w) : w[i] = Pad)
      /\ (n * b) % 8 < b /\ Len(w) = IF s.pad THEN Up(n, C) ELSE n
  BY DEF WellFormed
<1>4. C \in {2, 4, 8} /\ b \in {4, 5, 6} /\ (base \in Base16 <=> b = 4) /\ (b = 4 <=> C = 2)
  <2>1. base \in Base16 => base \notin Base32 /\ base \notin Base64
    BY DEF Base16, Base32, Base64
  <2>2. QED
    BY <2>1, BaseIs DEF Bases
<1> HIDE DEF w, l, b, C
<1>5. Up(n, C) <= l /\ Up(n, C) < n + C /\ Up(n, C) \in Nat
  <2>1. n < C * k
    BY <1>1 DEF l
  <2>2. QED
    BY <1>1, <1>4, <2>1, UpIs
<1>6. n < l
  BY DEF l
<1>7. s.pad /\ Len(q) = 0 /\ l = Up(n, C)
  BY <1>2, <1>3, <1>5, <1>6, SMTT(30)
<1>8. q = <<>> /\ w = p
  BY <1>7, EmptySeq, ConcatEmptySeq DEF w
<1>9. C # 2
  <2>1. SUFFICES ASSUME C = 2 PROVE FALSE
    OBVIOUS
  <2>2. b = 4 /\ l = 2 * k /\ l < n + 2 /\ n < l
    BY <1>1, <1>4, <1>5, <1>6, <1>7, <2>1
  <2>3. n = 2 * k - 1
    BY <1>2, <2>2
  <2>4. (n * 4) % 8 = 4
    BY <2>3
  <2>5. QED
    BY <1>3, <2>2, <2>4
<1>10. base \notin Base16
  BY <1>4, <1>9
<1>11. /\ DecodeMeaning(s, w) = Regroup(DigitsOf(base, w, n), b, 8)
       /\ DecodeMeaning(s, w) \in Seq(Nat) /\ Digital(base, w, n)
  BY <1>2, Decoded DEF w, b
<1>12. Digital(base, p, l)
  <2>1. ASSUME NEW i \in 1 .. l PROVE Digit(base, p[i]) # -1
    <3>1. CASE i <= n
      <4>1. i \in 1 .. n
        BY <3>1
      <4>2. QED
        BY <1>8, <1>11, <4>1 DEF Digital
    <3>2. CASE ~(i <= n)
      <4>1. i \in n + 1 .. Len(w)
        BY <1>2, <1>7, <3>2
      <4>2. p[i] = Pad
        BY <1>3, <1>8, <4>1
      <4>3. Digit(base, Pad) = 0
        BY <1>10, DigitIs
      <4>4. QED
        BY <4>2, <4>3
    <3>3. QED
      BY <3>1, <3>2
  <2>2. l \in 0 .. Len(p)
    BY <1>2 DEF l
  <2>3. QED
    BY <2>1, <2>2 DEF Digital
<1>13. n >= 2
  <2>1. n # 0
    <3>1. SUFFICES ASSUME n = 0 PROVE FALSE
      OBVIOUS
    <3>2. Up(0, C) = 0
      BY <1>4 DEF Up
    <3>3. QED
      BY <1>6, <1>7, <3>1, <3>2
  <2>2. n # 1
    <3>1. SUFFICES ASSUME n = 1 PROVE FALSE
      OBVIOUS
    <3>2. ~((1 * b) % 8 < b)
      BY <1>4, OneDigit
    <3>3. QED
      BY <1>3, <3>1, <3>2
  <2>3. QED
    BY <2>1, <2>2
<1>14. QED
  BY <1>3, <1>5, <1>6, <1>7, <1>8, <1>10, <1>11, <1>12, <1>13 DEF DecodesPadded, w, l, b, C

\* The chunks that a decoder takes.
TakenChunks(base, n, room) == Smaller(n \div Chars(base), room \div Bytes(base))

\* ChunkedDecode decodes whole chunks of digits, ...
LEMMA ChunkedIs ==
  ASSUME NEW s, s.name \in Bases, NEW in \in Seq(Nat), NEW room, NEW fin, NEW k \in Nat,
         k = TakenChunks(s.name, Len(in), room), ~(fin /\ Len(in) < Chars(s.name)),
         Digital(s.name, in, k * Chars(s.name))
  PROVE  ChunkedDecode(s, in, room, fin)
           = Ans(s, "Ok", k * Chars(s.name),
                 Regroup(DigitsOf(s.name, in, k * Chars(s.name)), Bits(s.name), 8))
<1> DEFINE base == s.name
           sum == [i \in 1 .. k |-> Sum(base, Chunk(base, in, i))]
           bytes == [i \in DOMAIN sum |-> sum[i].bytes]
<1>1. ComeToBytes(base, in, k)
  BY ChunksCome
<1>2. ChunkedDecode(s, in, room, fin)
        = IF \E i \in DOMAIN sum : sum[i].negative THEN Ans(s, "Err", 0, <<>>)
          ELSE Ans(s, "Ok", k * Chars(base), FlattenSeq(bytes))
  BY Zenon DEF ChunkedDecode, TakenChunks, Chunk
<1>3. ~ \E i \in DOMAIN sum : sum[i].negative
  BY <1>1 DEF ComeToBytes
<1>4. bytes = ChunkBytes(base, in, k)
  BY DEF ChunkBytes
<1> HIDE DEF sum, bytes
<1>5. QED
  BY <1>1, <1>2, <1>3, <1>4 DEF ComeToBytes

\* ... and what is left at the end.
LEMMA ChunkRestIs ==
  ASSUME NEW s, s.name \in Bases, NEW in \in Seq(Nat), NEW room, NEW fin,
         fin, Len(in) < Chars(s.name), AllDigits(s.name, in)
  PROVE  ChunkedDecode(s, in, room, fin)
           = Ans(s, "StreamEnd", Len(in), Regroup(Lined(s.name, in), Bits(s.name), 8))
<1> DEFINE base == s.name
           sum == <<Sum(base, in)>>
           bytes == [i \in DOMAIN sum |-> sum[i].bytes]
<1>1. ChunkSummed(base, in)
  BY ChunkSums
<1>2. ChunkedDecode(s, in, room, fin)
        = IF \E i \in DOMAIN sum : sum[i].negative THEN Ans(s, "Err", 0, <<>>)
          ELSE Ans(s, "StreamEnd", Len(in), FlattenSeq(bytes))
  BY DEF ChunkedDecode
<1>3. DOMAIN sum = {1} /\ sum[1] = Sum(base, in)
  OBVIOUS
<1>4. ~ \E i \in DOMAIN sum : sum[i].negative
  BY <1>1, <1>3 DEF ChunkSummed
<1>5. bytes = <<Sum(base, in).bytes>>
  OBVIOUS
<1>6. Sum(base, in).bytes = Regroup(Lined(base, in), Bits(base), 8)
  BY <1>1 DEF ChunkSummed
<1>7. Sum(base, in).bytes \in Seq(Nat)
  <2>1. Lined(base, in) \in Seq(Nat)
    BY LinedIs
  <2>2. Bits(base) \in Widths /\ 8 \in Widths
    BY BaseSizes
  <2>3. Recut(Lined(base, in), Bits(base), 8)
    BY <2>1, <2>2, RegroupCuts
  <2>4. QED
    BY <1>6, <2>3 DEF Recut
<1> HIDE DEF sum, bytes
<1>8. FlattenSeq(bytes) = Sum(base, in).bytes
  <2>1. <<>> \in Seq(Seq(Nat))
    BY EmptySeq
  <2>2. FlattenSeq(<<Sum(base, in).bytes>>) = Sum(base, in).bytes
    BY <1>7, <2>1, FlattenAppend
  <2>3. QED
    BY <1>5, <2>2
<1>9. QED
  BY <1>2, <1>4, <1>6, <1>8

\* What goes are the bytes that no digit fills.
Trims(B, C, b, k, n) ==
  /\ n % C = 0 => n = C * k /\ B * k = (n * b) \div 8
  /\ n % C # 0 => B * k - (B - (B * 8 - (C - (n % C)) * b) \div 8) = (n * b) \div 8

\* What is trimmed are the bytes that the padding stood for.
LEMMA TrimOf ==
  ASSUME NEW C \in Nat \ {0}, NEW B \in Nat, NEW b \in Nat, 8 * B = C * b,
         NEW k \in Nat, NEW n \in Nat,
         n <= C * k, C * k < n + C
  PROVE  Trims(B, C, b, k, n)
<1> DEFINE q == n \div C
           r == n % C
<1>1. n = C * q + r /\ r \in 0 .. C - 1 /\ q \in Nat
  BY ModIs
<1> HIDE DEF q, r
<1>2. C * (q + 1) = C * q + C /\ C * q \in Nat /\ C * k \in Nat
  BY <1>1
<1>3. C * k - C * q = C * (k - q) /\ C * (k - q) \in 0 .. C + C - 1
  BY <1>1, <1>2
<1>4. k - q \in {0, 1}
  <2>1. k - q \in Int
    BY <1>1
  <2>2. ASSUME NEW z \in Int, C * z \in 0 .. C + C - 1 PROVE z \in {0, 1}
    BY <2>2
  <2>3. QED
    BY <1>3, <2>1, <2>2
<1>5. n * b = 8 * (B * q) + r * b /\ B * q \in Nat /\ r * b \in Nat
  <2>1. n * b = (C * q) * b + r * b
    BY <1>1
  <2>2. (C * q) * b = (C * b) * q
    BY <1>1
  <2>3. (8 * B) * q = 8 * (B * q)
    BY <1>1
  <2>4. QED
    BY <1>1, <2>1, <2>2, <2>3
<1>6. (n * b) \div 8 = B * q + ((r * b) \div 8)
  <2> DEFINE x == B * q
             y == r * b
  <2>1. x \in Nat /\ y \in Nat /\ n * b = 8 * x + y
    BY <1>5
  <2> HIDE DEF x, y
  <2>2. (8 * x + y) \div 8 = x + (y \div 8)
    BY <2>1, DivSum
  <2>3. QED
    BY <2>1, <2>2 DEF x, y
<1>7. CASE r = 0
  <2>1. n = C * q /\ k = q
    BY <1>1, <1>2, <1>3, <1>4, <1>7
  <2>2. r * b = 0 /\ 0 \div 8 = 0
    BY <1>7
  <2>3. B * q + 0 = B * k
    BY <1>5, <2>1
  <2>4. QED
    BY <1>6, <1>7, <2>1, <2>2, <2>3 DEF r, Trims
<1>8. CASE r # 0
  <2>1. k = q + 1
    BY <1>1, <1>2, <1>3, <1>4, <1>8
  <2>2. (C - r) * b = C * b - r * b
    BY <1>1
  <2>3. B * 8 - (C - r) * b = r * b
    BY <1>5, <2>2
  <2>4. B * k = B * q + B
    BY <1>1, <2>1
  <2>5. (r * b) \div 8 \in Int
    BY <1>5
  <2>6. B * k - (B - (r * b) \div 8) = B * q + ((r * b) \div 8)
    BY <1>5, <2>4, <2>5
  <2>7. QED
    BY <1>6, <1>8, <2>3, <2>6 DEF r, Trims
<1>9. QED
  BY <1>7, <1>8

\* For each base.
LEMMA TrimIs ==
  ASSUME NEW base \in Bases, NEW k \in Nat, NEW n \in Nat,
         n <= Chars(base) * k, Chars(base) * k < n + Chars(base)
  PROVE  /\ Bytes(base) * k - Trim(base, n) = (n * Bits(base)) \div 8
         /\ n = Chars(base) * k => Trim(base, n) = 0
<1>1. /\ Bytes(base) \in Nat /\ Chars(base) \in Nat \ {0} /\ Bits(base) \in Nat
      /\ 8 * Bytes(base) = Chars(base) * Bits(base)
  BY BaseSizes DEF Widths
<1>2. Trims(Bytes(base), Chars(base), Bits(base), k, n)
  BY <1>1, TrimOf
<1>3. CASE n % Chars(base) = 0
  <2>1. Trim(base, n) = 0
    BY <1>3 DEF Trim
  <2>2. Bytes(base) * k - 0 = Bytes(base) * k
    BY <1>1
  <2>3. QED
    BY <1>2, <1>3, <2>1, <2>2 DEF Trims
<1>4. CASE n % Chars(base) # 0
  <2>1. n # Chars(base) * k
    BY <1>1, <1>4, NoRest
  <2>2. Trim(base, n)
          = Bytes(base) - (Bytes(base) * 8 - (Chars(base) - (n % Chars(base))) * Bits(base)) \div 8
    BY <1>4, Zenon DEF Trim
  <2>3. QED
    BY <1>2, <1>4, <2>1, <2>2 DEF Trims
<1>5. QED
  BY <1>3, <1>4

\* The bytes of chunks without those that no digit fills.
LEMMA Trimmed ==
  ASSUME NEW base \in Bases, NEW x \in Seq(Nat), NEW k \in Nat, Len(x) = Chars(base) * k,
         NEW n \in 0 .. Len(x), Len(x) < n + Chars(base)
  PROVE  /\ Firsts(Regroup(x, Bits(base), 8), Len(Regroup(x, Bits(base), 8)) - Trim(base, n))
              = Regroup(Firsts(x, n), Bits(base), 8)
         /\ Len(Regroup(x, Bits(base), 8)) = Bytes(base) * k
<1> DEFINE b == Bits(base)
           y == Firsts(x, n)
           z == Skip(x, n)
<1>1. Len(x) \in Nat /\ n \in Nat /\ b \in Widths /\ 8 \in Widths
  BY LenProperties, BaseSizes
<1>2. y \in Seq(Nat) /\ z \in Seq(Nat) /\ y \o z = x /\ Len(y) = n
  <2>1. y \in Seq(Nat) /\ Len(y) = n
    BY <1>1, FirstsIs, FirstsLength
  <2>2. y \o Skip(x, Len(y)) = x
    BY <1>1, FirstsIs
  <2>3. z \in Seq(Nat)
    BY SkipIs
  <2> HIDE DEF y
  <2>4. QED
    BY <2>1, <2>2, <2>3
<1>3. Bytes(base) * k - Trim(base, n) = (n * b) \div 8
  BY <1>1, TrimIs
<1>4. Recut(x, b, 8)
  BY <1>1, RegroupCuts
<1>5. Pieces(x, b, 8) = Bytes(base) * k
  <2>1. ((Chars(base) * k + 0) * b) \div 8 = Bytes(base) * k + (0 * b) \div 8
    BY ChunkBits
  <2>2. Chars(base) * k + 0 = Len(x) /\ (0 * b) \div 8 = 0 /\ Bytes(base) * k \in Nat
    BY <1>1, BaseSizes, SMTT(30) DEF Widths
  <2>3. QED
    BY <2>1, <2>2 DEF Pieces
<1>6. Len(Regroup(x, b, 8)) = Bytes(base) * k
  BY <1>4, <1>5 DEF Recut
<1> HIDE DEF b, y, z
<1>7. Firsts(Regroup(y \o z, b, 8), Pieces(y, b, 8)) = Regroup(y, b, 8)
  BY <1>1, <1>2, RegroupBegins
<1>8. Pieces(y, b, 8) = Bytes(base) * k - Trim(base, n)
  BY <1>2, <1>3 DEF Pieces
<1>9. QED
  BY <1>2, <1>6, <1>7, <1>8 DEF b, y

\* The first ones of digits.
LEMMA FirstDigits ==
  ASSUME NEW base \in Bases, NEW in \in Seq(Nat), NEW m \in Nat, Digital(base, in, m),
         NEW n \in 0 .. m
  PROVE  Digital(base, in, n) /\ Firsts(DigitsOf(base, in, m), n) = DigitsOf(base, in, n)
<1> DEFINE x == DigitsOf(base, in, m)
           y == DigitsOf(base, in, n)
<1>1. Len(in) \in Nat /\ m \in 0 .. Len(in) /\ \A i \in 1 .. m : Digit(base, in[i]) # -1
  BY LenProperties DEF Digital
<1>2. \A i \in 1 .. n : i \in 1 .. m
  OBVIOUS
<1>3. Digital(base, in, n)
  BY <1>1, <1>2 DEF Digital
<1>4. x \in Seq(Nat) /\ Len(x) = m
  BY <1>1, DigitsAre
<1>5. y \in Seq(Nat) /\ Len(y) = n
  BY <1>3, DigitsAre DEF Digital
<1>6. \A i \in 1 .. n : x[i] = y[i]
  BY <1>2 DEF DigitsOf
<1> HIDE DEF x, y
<1>7. n \in 0 .. Len(x)
  BY <1>4
<1>8. Firsts(x, n) \in Seq(Nat) /\ Len(Firsts(x, n)) = n
  BY <1>4, <1>7, FirstsIs, FirstsLength
<1>9. \A i \in 1 .. n : Firsts(x, n)[i] = x[i]
  BY <1>4, <1>7, FirstsAt
<1>10. Firsts(x, n) = y
  BY <1>5, <1>6, <1>8, <1>9, SeqEqual
<1>11. QED
  BY <1>3, <1>10 DEF x, y

\* What is filled up begins with what it was.
LEMMA LinedBegins ==
  ASSUME NEW base \in Bases, NEW in \in Seq(Nat), Len(in) <= Chars(base), AllDigits(base, in)
  PROVE  Firsts(Lined(base, in), Len(in)) = DigitsOf(base, in, Len(in))
<1> DEFINE x == Lined(base, in)
           n == Len(in)
           y == DigitsOf(base, in, n)
<1>1. n \in Nat /\ Chars(base) \in Nat /\ n <= Chars(base)
  BY LenProperties, BaseSizes
<1>2. x \in Seq(Nat) /\ Len(x) = Chars(base)
  BY LinedIs
<1>3. Digital(base, in, n)
  BY <1>1 DEF Digital, AllDigits
<1>4. y \in Seq(Nat) /\ Len(y) = n
  BY <1>3, DigitsAre DEF Digital
<1>5. ASSUME NEW i \in 1 .. n PROVE x[i] = y[i]
  <2>1. i \in 1 .. Chars(base) /\ i <= Len(in)
    BY <1>1
  <2>2. QED
    BY <2>1 DEF Lined, DigitsOf
<1> HIDE DEF x, y, n
<1>6. n \in 0 .. Len(x)
  BY <1>1, <1>2
<1>7. Firsts(x, n) \in Seq(Nat) /\ Len(Firsts(x, n)) = n
  BY <1>2, <1>6, FirstsIs, FirstsLength
<1>8. \A i \in 1 .. n : Firsts(x, n)[i] = x[i]
  BY <1>2, <1>6, FirstsAt
<1>9. Firsts(x, n) = y
  BY <1>4, <1>5, <1>7, <1>8, SeqEqual
<1>10. QED
  BY <1>9 DEF x, y, n

\* An answer that makes something, and is followed by the rest.
DecodesTo(s, room, in, later, fin, kind, took, made) ==
  /\ kind \in {"Ok", "StreamEnd"} /\ took \in 1 .. Len(in)
  /\ made \in Seq(Nat) /\ made # <<>> /\ Len(made) <= room
  /\ Transform(s, in, room, fin) = Ans(s, kind, took, made)
  /\ DecodeMeaning(s, in \o later) = made \o DecodeMeaning(s, Skip(in, took) \o later)
  /\ DecodeMeaning(s, Skip(in, took) \o later) \in Seq(Nat)

\* Such an answer is what Well asks.
LEMMA DecodesWell ==
  ASSUME NEW s, \A any \in Seq(Nat) : Meaning(s, any) = DecodeMeaning(s, any),
         NEW size \in Nat, NEW room \in Nat,
         NEW in \in Seq(Nat), NEW later \in Seq(Nat), NEW fin \in BOOLEAN,
         NEW kind, NEW took, NEW made, DecodesTo(s, room, in, later, fin, kind, took, made)
  PROVE  Well({s}, size, room, s, in, fin, later)
<1> DEFINE rest == DecodeMeaning(s, Skip(in, took) \o later)
<1>1. Len(in) \in Nat /\ took \in 0 .. Len(in) /\ took > 0
  BY LenProperties DEF DecodesTo
<1>2. Cuts(in, later, took)
  BY <1>1, CutsAt
<1>3. Skip(in, took) \o later \in Seq(Nat) /\ in \o later \in Seq(Nat)
  BY <1>2, ConcatProperties DEF Cuts
<1>4. Meaning(s, in \o later) = made \o rest /\ Meaning(s, Skip(in, took) \o later) = rest
      /\ rest \in Seq(Nat)
  BY <1>3 DEF DecodesTo
<1>5. Len(made) \in 0 .. room /\ Len(made) # 0
  BY LenProperties, EmptySeq DEF DecodesTo
<1> HIDE DEF rest
<1>6. Contract(kind, took, Len(made), Len(in), room, size, {}, fin)
  BY <1>1, <1>5 DEF Contract, Kinds, DecodesTo
<1>7. GoodReply(size, room, s, in, fin, later, s, kind, took, made, rest)
  BY <1>4, <1>6 DEF GoodReply, DecodesTo
<1>8. s \in {s}
  OBVIOUS
<1>9. QED
  BY <1>7, <1>8, WellAnswer

\* An answer that only asks for more, or that only tells of the end.
LEMMA DecodesNothing ==
  ASSUME NEW s, s.name \in Bases, s.strict,
         \A any \in Seq(Nat) : Meaning(s, any) = DecodeMeaning(s, any),
         NEW size \in Nat, NEW room \in Nat,
         NEW in \in Seq(Nat), NEW later \in Seq(Nat), NEW fin \in BOOLEAN,
         Shows(size, s, in, fin, later),
         NEW kind,
         \/ kind = "SeqError" /\ ~fin /\ Len(in) < size
         \/ kind = "StreamEnd" /\ fin /\ in = <<>>,
         Transform(s, in, room, fin) = Ans(s, kind, 0, <<>>)
  PROVE  Well({s}, size, room, s, in, fin, later)
<1> DEFINE rest == DecodeMeaning(s, in \o later)
           none == <<>>
<1>1. Len(in) \in Nat /\ 0 \in 0 .. Len(in) /\ none \in Seq(Nat) /\ Len(none) = 0 /\ 0 \in 0 .. room
  BY LenProperties, EmptySeq
<1>2. Skip(in, 0) = in /\ in \o later \in Seq(Nat)
  BY <1>1, SkipIs, ConcatProperties
<1>3. rest \in Seq(Nat)
  <2>1. Meaning(s, in \o later) # Malformed
    BY DEF Shows
  <2>2. rest # Malformed
    BY <1>2, <2>1
  <2>3. QED
    BY <1>2, <2>2, Decoded
<1>4. none \o rest = rest
  <2> HIDE DEF rest
  <2>1. QED
    BY <1>3, ConcatEmptySeq
<1>5. fin => rest = none
  <2>1. SUFFICES ASSUME fin PROVE rest = none
    OBVIOUS
  <2>2. in = none /\ later = none
    BY <2>1 DEF Shows
  <2>3. none \o none = none
    BY <1>1, ConcatEmptySeq
  <2>4. DecodeMeaning(s, none) = none
    BY DecodeNothing
  <2>5. QED
    BY <2>2, <2>3, <2>4
<1>6. Contract(kind, 0, Len(none), Len(in), room, size, {}, fin)
  <2>1. CASE kind = "SeqError" /\ ~fin /\ Len(in) < size
    <3>1. ~(Len(in) >= size)
      BY <1>1, <2>1
    <3>2. QED
      BY <1>1, <2>1, <3>1 DEF Contract, Kinds
  <2>2. CASE kind = "StreamEnd" /\ fin /\ in = <<>>
    BY <1>1, <2>2 DEF Contract, Kinds
  <2>3. QED
    BY <2>1, <2>2
<1>7. ~(kind = "SeqError" /\ 0 = 0 /\ fin) /\ (kind = "StreamEnd" => fin)
  OBVIOUS
<1>8. Meaning(s, Skip(in, 0) \o later) = rest /\ Meaning(s, in \o later) = none \o rest
  BY <1>2, <1>4
<1> HIDE DEF rest, none
<1>9. Transform(s, in, room, fin) = Ans(s, kind, 0, none)
  BY DEF none
<1>10. none = <<>> /\ (fin \/ kind = "StreamEnd") => rest = <<>>
  BY <1>5, <1>7 DEF none
<1>11. GoodReply(size, room, s, in, fin, later, s, kind, 0, none, rest)
  BY <1>1, <1>3, <1>6, <1>7, <1>8, <1>9, <1>10 DEF GoodReply
<1>12. s \in {s}
  OBVIOUS
<1>13. QED
  BY <1>11, <1>12, WellAnswer

\* The first characters tell of themselves.
LEMMA DigitsFirst ==
  ASSUME NEW base \in Bases, NEW in \in Seq(Nat), NEW m \in 0 .. Len(in)
  PROVE  /\ \A i \in 1 .. m : Firsts(in, m)[i] = in[i]
         /\ \A n \in 0 .. m : DigitsOf(base, Firsts(in, m), n) = DigitsOf(base, in, n)
         /\ Digital(base, Firsts(in, m), m) => Digital(base, in, m)
<1>1. \A i \in 1 .. m : Firsts(in, m)[i] = in[i]
  BY FirstsAt
<1>2. ASSUME NEW n \in 0 .. m PROVE DigitsOf(base, Firsts(in, m), n) = DigitsOf(base, in, n)
  <2>1. \A i \in 1 .. n : i \in 1 .. m
    OBVIOUS
  <2>2. QED
    BY <1>1, <2>1 DEF DigitsOf
<1>3. Digital(base, Firsts(in, m), m) => Digital(base, in, m)
  BY <1>1 DEF Digital
<1>4. QED
  BY <1>1, <1>2, <1>3

\* Of what is shown a decoder takes whole chunks, which digits fill, up to = if any.
LEMMA ChunksOf ==
  ASSUME NEW s, s.name \in Bases, s.strict, NEW in \in Seq(Nat), NEW later \in Seq(Nat),
         NEW k \in Nat, Chars(s.name) * k \in 0 .. Len(in),
         DecodeMeaning(s, in \o later) # Malformed
  PROVE  LET p == Firsts(in, Chars(s.name) * k)
             q == Skip(in, Chars(s.name) * k) \o later
         IN  \/ DecodesOn(s, p, q) /\ \A i \in 1 .. Len(p) : p[i] # Pad
             \/ \E n \in Nat : DecodesPadded(s, p, q, n)
<1> DEFINE m == Chars(s.name) * k
           p == Firsts(in, m)
           q == Skip(in, m) \o later
<1>1. Cuts(in, later, m)
  BY CutsAt
<1>2. p \in Seq(Nat) /\ Len(p) = m /\ q \in Seq(Nat) /\ in \o later = p \o q /\ p \o q \in Seq(Nat)
  BY <1>1, ConcatProperties DEF Cuts
<1>3. Whole(Chars(s.name), Len(p))
  BY <1>2 DEF Whole
<1>4. PICK n \in Nat : WellFormed(s, p \o q, n)
  BY <1>2, Decoded
<1> HIDE DEF p, q, m
<1>5. CASE n < Len(p)
  <2>1. DecodesPadded(s, p, q, n)
    BY <1>2, <1>3, <1>4, <1>5, DecodeFill
  <2>2. QED
    BY <2>1 DEF p, q, m
<1>6. CASE ~(n < Len(p))
  <2> DEFINE j == n - Len(p)
  <2>1. j \in Nat /\ n = Len(p) + j /\ Len(p) \in Nat
    BY <1>2, <1>6, LenProperties
  <2> HIDE DEF j
  <2>2. WellFormed(s, p \o q, Len(p) + j)
    BY <1>4, <2>1
  <2>3. DecodesOn(s, p, q)
    BY <1>2, <1>3, <2>1, <2>2, DecodeBehind
  <2>4. ASSUME NEW i \in 1 .. Len(p) PROVE p[i] # Pad
    <3>1. i \in 1 .. n
      BY <2>1
    <3>2. (p \o q)[i] # Pad
      BY <1>4, <3>1 DEF WellFormed, ToldUpTo
    <3>3. (p \o q)[i] = p[i]
      BY <1>2, JoinAt
    <3>4. QED
      BY <3>2, <3>3
  <2>5. QED
    BY <2>3, <2>4 DEF p, q, m
<1>7. QED
  BY <1>5, <1>6

\* Digits come to as many bytes.
LEMMA ChunkLength ==
  ASSUME NEW base \in Bases, NEW x \in Seq(Nat), NEW k \in Nat, Len(x) = Chars(base) * k
  PROVE  Regroup(x, Bits(base), 8) \in Seq(Nat) /\ Len(Regroup(x, Bits(base), 8)) = Bytes(base) * k
<1>1. Len(x) \in Nat /\ Chars(base) \in Nat \ {0} /\ Bits(base) \in Widths /\ 8 \in Widths
  BY LenProperties, BaseSizes
<1>2. Len(x) \in 0 .. Len(x) /\ Len(x) < Len(x) + Chars(base)
  BY <1>1
<1>3. Len(Regroup(x, Bits(base), 8)) = Bytes(base) * k
  BY <1>2, Trimmed
<1>4. Recut(x, Bits(base), 8)
  BY <1>1, RegroupCuts
<1>5. QED
  BY <1>3, <1>4 DEF Recut

\* HexDecode does what Well asks, of a strict decoder.
LEMMA HexDecodeWell ==
  ASSUME NEW s, s.name \in Base16, s.strict,
         \A any \in Seq(Nat) : Meaning(s, any) = DecodeMeaning(s, any),
         NEW size \in Nat, NEW room \in Nat, 2 <= size, 1 <= room,
         NEW in \in Seq(Nat), NEW later \in Seq(Nat), NEW fin \in BOOLEAN,
         Shows(size, s, in, fin, later),
         Transform(s, in, room, fin) = HexDecode(s, in, room, fin)
  PROVE  Well({s}, size, room, s, in, fin, later)
<1> DEFINE base == s.name
           k == Smaller(Len(in) \div 2, room)
           p == Firsts(in, 2 * k)
           q == Skip(in, 2 * k) \o later
           digits == [i \in 1 .. 2 * k |-> Digit(base, in[i])]
           made == Regroup(digits, 4, 8)
<1>1. /\ base \in Bases /\ Bytes(base) = 1 /\ Chars(base) = 2 /\ Bits(base) = 4
      /\ Len(in) \in Nat /\ in \o later \in Seq(Nat)
  BY BaseIs, LenProperties, ConcatProperties DEF Bases
<1>2. Meaning(s, in \o later) # Malformed /\ (fin => later = <<>>) /\ Len(in) <= size
  BY DEF Shows
<1>3. DecodeMeaning(s, in \o later) # Malformed
  BY <1>1, <1>2
<1>4. CASE ~fin /\ Len(in) < 2
  <2>1. Transform(s, in, room, fin) = Ans(s, "SeqError", 0, <<>>)
    BY <1>4 DEF HexDecode
  <2>2. Len(in) < size
    BY <1>1, <1>4
  <2>3. QED
    BY <1>1, <1>4, <2>1, <2>2, DecodesNothing
<1>5. CASE fin /\ in = <<>>
  <2>1. Transform(s, in, room, fin) = Ans(s, "StreamEnd", 0, <<>>)
    BY <1>5 DEF HexDecode
  <2>2. QED
    BY <1>1, <1>5, <2>1, DecodesNothing
<1>6. CASE ~(~fin /\ Len(in) < 2) /\ ~(fin /\ in = <<>>)
  <2>1. Len(in) >= 2
    <3>1. SUFFICES ASSUME Len(in) < 2 PROVE FALSE
      BY <1>1
    <3>2. fin /\ Len(in) = 1 /\ later = <<>> /\ in \o later = in
      <4>1. fin /\ in # <<>>
        BY <1>6, <3>1
      <4>2. Len(in) # 0
        BY <4>1, EmptySeq
      <4>3. later = <<>> /\ in \o <<>> = in
        BY <1>2, <4>1, ConcatEmptySeq
      <4>4. Len(in) = 1
        <5>1. \A n \in Nat : n < 2 /\ n # 0 => n = 1
          OBVIOUS
        <5>2. QED
          BY <1>1, <3>1, <4>2, <5>1
      <4>5. QED
        BY <4>1, <4>3, <4>4
    <3>3. PICK n \in Nat : WellFormed(s, in, n)
      BY <1>1, <1>3, <3>2, Decoded
    <3>4. n \in 0 .. 1 /\ (n * 4) % 8 < 4 /\ (1 = IF s.pad THEN Up(n, 2) ELSE n)
      BY <1>1, <3>2, <3>3 DEF WellFormed, ToldUpTo
    <3>5. n # 1
      BY <3>4
    <3>6. n = 0 /\ Up(0, 2) = 0
      BY <3>4, <3>5 DEF Up
    <3>7. QED
      BY <3>4, <3>6
  <2>2. k \in Nat /\ k >= 1 /\ k <= room /\ 2 * k \in 1 .. Len(in) /\ 2 * k \in 0 .. Len(in)
    BY <1>1, <2>1 DEF Smaller
  <2> HIDE DEF k
  <2>3. p \in Seq(Nat) /\ Len(p) = 2 * k
    BY <2>2, FirstsIs, FirstsLength
  <2>4. DecodesOn(s, p, q)
    <3>1. Chars(s.name) * k = 2 * k
      BY <1>1
    <3>2. DecodesOn(s, p, q) \/ \E n \in Nat : DecodesPadded(s, p, q, n)
      BY <1>1, <1>3, <2>2, <3>1, ChunksOf
    <3>3. QED
      BY <3>2 DEF DecodesPadded
  <2>5. digits = DigitsOf(base, in, 2 * k)
    BY DEF DigitsOf
  <2>6. 2 * k \in 0 .. 2 * k
    BY <2>2
  <2>7. Digital(base, p, 2 * k) /\ DigitsOf(base, p, 2 * k) = digits
    BY <1>1, <2>2, <2>3, <2>4, <2>5, <2>6, DigitsFirst, ZenonT(60) DEF DecodesOn
  <2>8. Digital(base, in, 2 * k)
    BY <1>1, <2>2, <2>7, DigitsFirst
  <2>9. digits \in Seq(Nat) /\ Len(digits) = 2 * k
    BY <1>1, <2>5, <2>8, DigitsAre DEF Digital
  <2>10. made \in Seq(Nat) /\ Len(made) = k
    <3>1. Len(digits) = Chars(base) * k
      BY <1>1, <2>9
    <3>2. /\ Regroup(digits, Bits(base), 8) \in Seq(Nat)
          /\ Len(Regroup(digits, Bits(base), 8)) = Bytes(base) * k
      BY <1>1, <2>2, <2>9, <3>1, ChunkLength
    <3>3. Bytes(base) * k = k
      BY <1>1, <2>2
    <3>4. QED
      BY <1>1, <3>2, <3>3
  <2>11. -1 \notin ToSet(digits)
    BY <2>8 DEF ToSet, Digital
  <2>12. PICK kind \in {"Ok", "StreamEnd"} : HexDecode(s, in, room, fin) = Ans(s, kind, 2 * k, made)
    <3>1. HexDecode(s, in, room, fin) = StatelessAnswer(s, in, fin, 2 * k, made)
      BY <1>6, <2>11 DEF HexDecode, k
    <3>2. QED
      BY <3>1 DEF StatelessAnswer
  <2>13. /\ DecodeMeaning(s, in \o later) = made \o DecodeMeaning(s, q)
         /\ DecodeMeaning(s, q) \in Seq(Nat)
    <3>1. Cuts(in, later, 2 * k)
      BY <2>2, CutsAt
    <3>2. in \o later = p \o q
      BY <3>1 DEF Cuts
    <3>3. QED
      BY <1>1, <2>3, <2>4, <2>7, <3>2 DEF DecodesOn
  <2>14. made # <<>> /\ Len(made) <= room
    BY <2>2, <2>10, EmptySeq
  <2>15. DecodesTo(s, room, in, later, fin, kind, 2 * k, made)
    BY <2>2, <2>10, <2>12, <2>13, <2>14 DEF DecodesTo
  <2> HIDE DEF digits, made, p
  <2>16. QED
    BY <2>15, DecodesWell
<1>7. QED
  BY <1>4, <1>5, <1>6

\* PaddedDecoder hands on what ChunkedDecoder made, or less of it.
HandsOn(s, in, room, fin, kind, took, made) ==
  /\ \A n \in Nat :
       /\ s.pad /\ n + 1 \in 1 .. took /\ in[n + 1] = Pad /\ (\A i \in 1 .. n : in[i] # Pad) =>
            PaddedDecode(s, in, room, fin)
              = Ans(s, "Ok", took, Firsts(made, Len(made) - Trim(s.name, n)))
  /\ s.pad /\ (\A i \in 1 .. took : in[i] # Pad) =>
       PaddedDecode(s, in, room, fin) = Ans(s, kind, took, made)
  /\ ~s.pad /\ fin /\ took = Len(in) =>
       PaddedDecode(s, in, room, fin)
         = Ans(s, "Ok", took, Firsts(made, Len(made) - Trim(s.name, Len(in))))
  /\ ~s.pad /\ ~(fin /\ took = Len(in)) =>
       PaddedDecode(s, in, room, fin) = Ans(s, kind, took, made)

\* PaddedDecode hands on what ChunkedDecode decoded, trimmed.
LEMMA PaddedDecodeIs ==
  ASSUME NEW s, NEW in, NEW room, NEW fin, NEW kind, kind # "Err", NEW took, NEW made,
         ~(~fin /\ Len(in) < Chars(s.name)), ~(fin /\ in = <<>>),
         ChunkedDecode(s, in, room, fin) = Ans(s, kind, took, made)
  PROVE  HandsOn(s, in, room, fin, kind, took, made)
<1> DEFINE r == ChunkedDecode(s, in, room, fin)
           pads == {i \in 1 .. took : in[i] = Pad}
           first == CHOOSE i \in pads : \A j \in pads : i <= j
           less(chars) == Ans(s, "Ok", took, Firsts(made, Len(made) - Trim(s.name, chars)))
           all == Ans(s, kind, took, made)
<1>1. r = all
  OBVIOUS
<1>2. r.kind = kind /\ r.took = took /\ r.made = made
  BY <1>1, AnsIs
<1>3. PaddedDecode(s, in, room, fin) =
        IF s.pad THEN IF pads = {} THEN all ELSE less(first - 1)
        ELSE IF fin /\ took = Len(in) THEN less(Len(in)) ELSE all
  <2> HIDE DEF r
  <2>1. PaddedDecode(s, in, room, fin) =
          LET ps == {i \in 1 .. r.took : in[i] = Pad}
              f == CHOOSE i \in ps : \A j \in ps : i <= j
              ls(chars) == Ans(s, "Ok", r.took, Firsts(r.made, Len(r.made) - Trim(s.name, chars)))
          IN  IF s.pad THEN IF ps = {} THEN r ELSE ls(f - 1)
              ELSE IF fin /\ r.took = Len(in) THEN ls(Len(in)) ELSE r
    <3>1. r.kind # "Err"
      BY <1>2
    <3>2. QED
      BY <3>1 DEF PaddedDecode, r
  <2>2. QED
    BY <1>1, <1>2, <2>1
<1>4. ASSUME NEW n \in Nat, n + 1 \in 1 .. took, in[n + 1] = Pad, \A i \in 1 .. n : in[i] # Pad
      PROVE  pads # {} /\ first - 1 = n
  <2>1. n + 1 \in pads
    BY <1>4
  <2>2. ASSUME NEW j \in pads PROVE n + 1 <= j
    <3>1. j \in 1 .. took /\ in[j] = Pad
      OBVIOUS
    <3>2. j \notin 1 .. n
      BY <1>4, <3>1
    <3>3. QED
      BY <3>1, <3>2
  <2>3. \A j \in pads : j \in Int
    OBVIOUS
  <2> HIDE DEF pads
  <2>4. \E i \in pads : \A j \in pads : i <= j
    BY <2>1, <2>2
  <2>5. first \in pads /\ \A j \in pads : first <= j
    BY <2>4
  <2> HIDE DEF first
  <2>6. first <= n + 1 /\ n + 1 <= first /\ first \in Int
    BY <2>1, <2>2, <2>3, <2>5
  <2>7. QED
    BY <2>1, <2>6
<1>5. (\A i \in 1 .. took : in[i] # Pad) => pads = {}
  OBVIOUS
<1> HIDE DEF pads, first
<1>6. QED
  BY <1>3, <1>4, <1>5 DEF HandsOn

\* What is left at the end, where = fills nothing.
LEMMA DecodesRest ==
  ASSUME NEW s, s.name \in Bases, s.strict,
         NEW size \in Nat, NEW room \in Nat, Bytes(s.name) <= room,
         NEW in \in Seq(Nat), NEW later \in Seq(Nat), NEW fin \in BOOLEAN, later = <<>>,
         fin, in # <<>>, Len(in) < Chars(s.name), DecodeMeaning(s, in \o later) # Malformed,
         Transform(s, in, room, fin) = PaddedDecode(s, in, room, fin)
  PROVE  \E kind, took, made : DecodesTo(s, room, in, later, fin, kind, took, made)
<1> DEFINE base == s.name
           l == Len(in)
           d == DigitsOf(base, in, l)
           x == Lined(base, in)
           all == Regroup(x, Bits(base), 8)
           made == Regroup(d, Bits(base), 8)
<1>1. in \o later = in /\ l \in Nat /\ l # 0
  BY ConcatEmptySeq, EmptySeq, LenProperties
<1>2. DecodeMeaning(s, in) # Malformed
  BY <1>1
<1>3. PICK n \in Nat : WellFormed(s, in, n)
  BY <1>2, Decoded
<1>4. Chars(base) \in {2, 4, 8} /\ Bits(base) \in {4, 5, 6} /\ Bytes(base) \in {1, 3, 5}
  BY BaseIs DEF Bases
<1>5. /\ ToldUpTo(in, n)
      /\ l = (IF s.pad THEN Up(n, Chars(base)) ELSE n)
      /\ (n * Bits(base)) % 8 < Bits(base)
  BY <1>3 DEF WellFormed
<1>6. ~s.pad /\ n = l
  <2>1. SUFFICES ASSUME s.pad PROVE FALSE
    BY <1>5
  <2>2. l = Up(n, Chars(base)) /\ l < Chars(base)
    BY <1>5, <2>1
  <2>3. \A C \in {2, 4, 8} : Up(n, C) % C = 0
    BY DEF Up
  <2>4. l % Chars(base) = 0
    BY <1>4, <2>2, <2>3
  <2>5. QED
    BY <1>1, <1>4, <2>2, <2>4
<1>7. l >= 2
  <2>1. l # 1
    <3>1. SUFFICES ASSUME l = 1 PROVE FALSE
      OBVIOUS
    <3>2. (1 * Bits(base)) % 8 < Bits(base)
      BY <1>5, <1>6, <3>1
    <3>3. QED
      BY <1>4, <3>2, OneDigit
  <2>2. \A m \in Nat : m # 0 /\ m # 1 => m >= 2
    OBVIOUS
  <2>3. QED
    BY <1>1, <2>1, <2>2
<1>8. /\ DecodeMeaning(s, in) = made /\ made \in Seq(Nat) /\ Digital(base, in, l)
  BY <1>3, <1>6, Decoded
<1>9. AllDigits(base, in)
  BY <1>8 DEF Digital, AllDigits
<1>10. ChunkedDecode(s, in, room, fin) = Ans(s, "StreamEnd", l, all)
  BY <1>9, ChunkRestIs
<1>11. /\ x \in Seq(Nat) /\ Len(x) = Chars(base) /\ Firsts(x, l) = d
  <2>1. l <= Chars(base)
    BY <1>1, <1>4
  <2>2. QED
    BY <1>9, <2>1, LinedIs, LinedBegins
<1>12. Firsts(all, Len(all) - Trim(base, l)) = made /\ Len(all) = Bytes(base)
  <2>1. Len(x) = Chars(base) * 1 /\ l \in 0 .. Len(x) /\ Len(x) < l + Chars(base)
    BY <1>1, <1>4, <1>11
  <2>2. /\ Firsts(all, Len(all) - Trim(base, l)) = Regroup(Firsts(x, l), Bits(base), 8)
        /\ Len(all) = Bytes(base) * 1
    BY <1>11, <2>1, Trimmed
  <2>3. Bytes(base) * 1 = Bytes(base)
    BY <1>4
  <2>4. QED
    BY <1>11, <2>2, <2>3
<1> HIDE DEF all, x
<1>13. PaddedDecode(s, in, room, fin) = Ans(s, "Ok", l, made)
  <2>1. ~(~fin /\ Len(in) < Chars(s.name)) /\ ~(fin /\ in = <<>>) /\ "StreamEnd" # "Err"
    OBVIOUS
  <2>2. ~s.pad /\ fin /\ l = Len(in)
    BY <1>6
  <2>3. HandsOn(s, in, room, fin, "StreamEnd", l, all)
    BY <1>10, <2>1, PaddedDecodeIs
  <2>4. PaddedDecode(s, in, room, fin)
          = Ans(s, "Ok", l, Firsts(all, Len(all) - Trim(base, Len(in))))
    BY <2>2, <2>3 DEF HandsOn
  <2>5. QED
    BY <1>12, <2>4
<1>14. Len(made) = (l * Bits(base)) \div 8
  <2>1. d \in Seq(Nat) /\ Len(d) = l
    BY <1>8, DigitsAre DEF Digital
  <2>2. Bits(base) \in Widths /\ 8 \in Widths
    BY BaseSizes
  <2>3. Recut(d, Bits(base), 8)
    BY <2>1, <2>2, RegroupCuts
  <2>4. QED
    BY <2>1, <2>3 DEF Recut, Pieces
<1>15. made # <<>> /\ Len(made) <= room
  <2> HIDE DEF l, made
  <2>1. l < Chars(base)
    BY DEF l
  <2>2. Len(made) > 0 /\ Len(made) <= Bytes(base)
    <3>1. CASE base \in Base16
      BY <1>1, <1>7, <1>14, <2>1, <3>1, BaseIs
    <3>2. CASE base \in Base32
      BY <1>1, <1>7, <1>14, <2>1, <3>2, BaseIs
    <3>3. CASE base \in Base64
      BY <1>1, <1>7, <1>14, <2>1, <3>3, BaseIs
    <3>4. QED
      BY <3>1, <3>2, <3>3 DEF Bases
  <2>3. made # <<>>
    BY <2>2, EmptySeq
  <2>4. Len(made) <= room
    BY <1>4, <1>8, <2>2, LenProperties
  <2>5. QED
    BY <2>3, <2>4
<1>16. Skip(in, l) \o later = <<>> /\ DecodeMeaning(s, <<>>) = <<>> /\ <<>> \in Seq(Nat)
  <2>1. Skip(in, l) = <<>> /\ <<>> \in Seq(Nat)
    BY <1>1, SkipIs, EmptySeq
  <2>2. <<>> \o <<>> = <<>>
    BY <2>1, ConcatEmptySeq
  <2>3. QED
    BY <2>1, <2>2, DecodeNothing
<1>17. made \o <<>> = made
  <2> HIDE DEF made
  <2>1. QED
    BY <1>8, ConcatEmptySeq
<1>18. l \in 1 .. Len(in)
  BY <1>1
<1> HIDE DEF made, l
<1>19. DecodesTo(s, room, in, later, fin, "Ok", l, made)
  BY <1>1, <1>8, <1>13, <1>15, <1>16, <1>17, <1>18 DEF DecodesTo
<1>20. QED
  BY <1>19

\* There is a chunk, and it fits.
LEMMA ChunksFit ==
  ASSUME NEW base \in Bases, NEW n \in Nat, NEW room \in Nat, Chars(base) <= n, Bytes(base) <= room
  PROVE  /\ TakenChunks(base, n, room) \in Nat \ {0}
         /\ Chars(base) * TakenChunks(base, n, room) \in 1 .. n
         /\ Bytes(base) * TakenChunks(base, n, room) \in 1 .. room
<1>1. CASE base \in Base16
  BY <1>1, BaseIs DEF TakenChunks, Smaller
<1>2. CASE base \in Base32
  BY <1>2, BaseIs DEF TakenChunks, Smaller
<1>3. CASE base \in Base64
  BY <1>3, BaseIs DEF TakenChunks, Smaller
<1>4. QED
  BY <1>1, <1>2, <1>3 DEF Bases

\* Two digits write a byte, and all digits no more than their chunks.
LEMMA DigitBytes ==
  ASSUME NEW base \in Bases, NEW n \in Nat, NEW k \in Nat, n >= 2, n <= Chars(base) * k
  PROVE  (n * Bits(base)) \div 8 # 0 /\ (n * Bits(base)) \div 8 <= Bytes(base) * k
<1>1. CASE base \in Base16
  BY <1>1, BaseIs
<1>2. CASE base \in Base32
  BY <1>2, BaseIs
<1>3. CASE base \in Base64
  BY <1>3, BaseIs
<1>4. QED
  BY <1>1, <1>2, <1>3 DEF Bases

\* Whole chunks, where no = fills the last one.
LEMMA DecodesPlain ==
  ASSUME NEW s, s.name \in Bases, s.strict, s.pad \in BOOLEAN,
         NEW room \in Nat, NEW in \in Seq(Nat), NEW later \in Seq(Nat), NEW fin \in BOOLEAN,
         NEW k \in Nat \ {0}, k = TakenChunks(s.name, Len(in), room),
         Chars(s.name) * k \in 1 .. Len(in), Bytes(s.name) * k \in 1 .. room,
         Chars(s.name) <= Len(in),
         DecodesOn(s, Firsts(in, Chars(s.name) * k), Skip(in, Chars(s.name) * k) \o later),
         \A i \in 1 .. Len(Firsts(in, Chars(s.name) * k)) : Firsts(in, Chars(s.name) * k)[i] # Pad,
         Transform(s, in, room, fin) = PaddedDecode(s, in, room, fin)
  PROVE  \E kind, took, made : DecodesTo(s, room, in, later, fin, kind, took, made)
<1> DEFINE base == s.name
           m == Chars(base) * k
           p == Firsts(in, m)
           q == Skip(in, m) \o later
           d == DigitsOf(base, in, m)
           made == Regroup(d, Bits(base), 8)
<1>1. /\ Len(in) \in Nat /\ m \in 0 .. Len(in) /\ m \in 1 .. Len(in)
      /\ k * Chars(base) = m /\ Chars(base) \in Nat \ {0}
  BY LenProperties, BaseSizes, SMTT(30)
<1>2. Cuts(in, later, m)
  BY <1>1, CutsAt
<1>3. p \in Seq(Nat) /\ Len(p) = m /\ in \o later = p \o q
  BY <1>2 DEF Cuts
<1>4. Digital(base, p, m) /\ m \in 0 .. m
  <2>1. Digital(base, p, Len(p))
    BY DEF DecodesOn
  <2>2. QED
    BY <1>1, <1>3, <2>1
<1>5. Digital(base, in, m) /\ DigitsOf(base, p, m) = d
  BY <1>1, <1>4, DigitsFirst
<1>6. d \in Seq(Nat) /\ Len(d) = m
  BY <1>1, <1>5, DigitsAre DEF Digital
<1>7. made \in Seq(Nat) /\ Len(made) = Bytes(base) * k
  BY <1>6, ChunkLength, SMTT(30)
<1>8. /\ DecodeMeaning(s, in \o later) = made \o DecodeMeaning(s, q)
      /\ DecodeMeaning(s, q) \in Seq(Nat)
  BY <1>3, <1>5 DEF DecodesOn
<1>9. ChunkedDecode(s, in, room, fin) = Ans(s, "Ok", m, made)
  <2>1. ~(fin /\ Len(in) < Chars(base))
    BY <1>1
  <2>2. Digital(base, in, k * Chars(base))
    BY <1>1, <1>5
  <2>3. ChunkedDecode(s, in, room, fin)
          = Ans(s, "Ok", k * Chars(base),
                Regroup(DigitsOf(base, in, k * Chars(base)), Bits(base), 8))
    BY <2>1, <2>2, ChunkedIs
  <2>4. QED
    BY <1>1, <2>3
<1>10. \A i \in 1 .. m : in[i] # Pad
  <2>1. \A i \in 1 .. m : p[i] = in[i]
    BY <1>1, FirstsAt
  <2>2. \A i \in 1 .. Len(p) : p[i] # Pad
    OBVIOUS
  <2>3. QED
    BY <1>3, <2>1, <2>2
<1>11. HandsOn(s, in, room, fin, "Ok", m, made)
  <2>1. ~(~fin /\ Len(in) < Chars(base)) /\ ~(fin /\ in = <<>>) /\ "Ok" # "Err"
    <3>1. Len(in) # 0
      BY <1>1
    <3>2. QED
      BY <1>1, <3>1, EmptySeq
  <2> HIDE DEF m, made
  <2>2. QED
    BY <1>9, <2>1, PaddedDecodeIs
<1>12. ~s.pad /\ fin /\ m = Len(in) => Firsts(made, Len(made) - Trim(base, Len(in))) = made
  <2>1. SUFFICES ASSUME m = Len(in) PROVE Firsts(made, Len(made) - Trim(base, Len(in))) = made
    OBVIOUS
  <2>2. Trim(base, Len(in)) = 0
    <3>1. /\ Len(in) = Chars(base) * k /\ Len(in) <= Chars(base) * k
          /\ Chars(base) * k < Len(in) + Chars(base)
      BY <1>1, <2>1
    <3>2. QED
      BY <1>1, <3>1, TrimIs
  <2>3. Len(made) - 0 = Len(made) /\ Len(made) \in Nat
    BY <1>7, LenProperties
  <2>4. Firsts(made, Len(made)) = made
    <3>1. Smaller(Len(made), Len(made)) = Len(made)
      BY DEF Smaller
    <3>2. SubSeq(made, 1, Len(made)) = made
      BY <1>7, SubSeqFull
    <3>3. QED
      BY <3>1, <3>2 DEF Firsts
  <2>5. QED
    BY <2>2, <2>3, <2>4
<1>13. PaddedDecode(s, in, room, fin) = Ans(s, "Ok", m, made)
  <2> HIDE DEF m, made
  <2>1. CASE s.pad
    BY <1>10, <1>11, <2>1 DEF HandsOn
  <2>2. CASE ~s.pad /\ fin /\ m = Len(in)
    BY <1>11, <1>12, <2>2 DEF HandsOn
  <2>3. CASE ~s.pad /\ ~(fin /\ m = Len(in))
    BY <1>11, <2>3 DEF HandsOn
  <2>4. QED
    BY <2>1, <2>2, <2>3
<1>14. made # <<>> /\ Len(made) <= room
  <2>1. Len(made) # 0 /\ Len(made) <= room
    BY <1>7
  <2>2. QED
    BY <2>1, EmptySeq
<1> HIDE DEF m, made
<1>15. DecodesTo(s, room, in, later, fin, "Ok", m, made)
  BY <1>1, <1>7, <1>8, <1>13, <1>14 DEF DecodesTo
<1>16. QED
  BY <1>15

\* Whole chunks, of which = fills the last one.
LEMMA DecodesLast ==
  ASSUME NEW s, s.name \in Bases, s.strict, s.pad \in BOOLEAN,
         NEW room \in Nat, NEW in \in Seq(Nat), NEW later \in Seq(Nat), NEW fin \in BOOLEAN,
         NEW k \in Nat \ {0}, k = TakenChunks(s.name, Len(in), room),
         Chars(s.name) * k \in 1 .. Len(in), Bytes(s.name) * k \in 1 .. room,
         Chars(s.name) <= Len(in), NEW n \in Nat,
         DecodesPadded(s, Firsts(in, Chars(s.name) * k), Skip(in, Chars(s.name) * k) \o later, n),
         Transform(s, in, room, fin) = PaddedDecode(s, in, room, fin)
  PROVE  \E kind, took, made : DecodesTo(s, room, in, later, fin, kind, took, made)
<1> DEFINE base == s.name
           m == Chars(base) * k
           p == Firsts(in, m)
           q == Skip(in, m) \o later
           x == DigitsOf(base, in, m)
           all == Regroup(x, Bits(base), 8)
           d == DigitsOf(base, in, n)
           made == Regroup(d, Bits(base), 8)
<1>1. /\ Len(in) \in Nat /\ m \in 0 .. Len(in) /\ m \in 1 .. Len(in)
      /\ k * Chars(base) = m /\ Chars(base) \in Nat \ {0}
  BY LenProperties, BaseSizes, SMTT(30)
<1>2. Cuts(in, later, m)
  BY <1>1, CutsAt
<1>3. p \in Seq(Nat) /\ Len(p) = m /\ in \o later = p \o q
  BY <1>2 DEF Cuts
<1>4. /\ s.pad /\ q = <<>> /\ p \o q = p /\ ToldUpTo(p, n) /\ n < Len(p)
      /\ Len(p) < n + Chars(base) /\ n >= 2 /\ Digital(base, p, Len(p))
      /\ DecodeMeaning(s, p) = Regroup(DigitsOf(base, p, n), Bits(base), 8)
      /\ DecodeMeaning(s, p) \in Seq(Nat)
  BY DEF DecodesPadded
<1>5. n \in 0 .. m /\ m \in 0 .. m /\ n + 1 \in 1 .. m /\ m < n + Chars(base)
  <2>1. m \in Nat /\ n < m /\ m < n + Chars(base)
    BY <1>1, <1>3, <1>4, SMTT(30)
  <2> HIDE DEF m
  <2>2. QED
    BY <2>1
<1>6. Digital(base, in, m) /\ DigitsOf(base, p, n) = d
  <2>1. Digital(base, p, m)
    BY <1>3, <1>4
  <2>2. QED
    BY <1>1, <1>5, <2>1, DigitsFirst
<1>7. DecodeMeaning(s, in \o later) = made /\ made \in Seq(Nat)
  BY <1>3, <1>4, <1>6
<1>8. x \in Seq(Nat) /\ Len(x) = m /\ Firsts(x, n) = d
  <2>1. x \in Seq(Nat) /\ Len(x) = m
    BY <1>1, <1>6, DigitsAre DEF Digital
  <2>2. m \in Nat
    BY <1>1
  <2> HIDE DEF m
  <2>3. Firsts(x, n) = d
    BY <1>5, <1>6, <2>2, FirstDigits
  <2>4. QED
    BY <2>1, <2>3
<1>9. Firsts(all, Len(all) - Trim(base, n)) = made /\ Len(all) = Bytes(base) * k
  <2>1. Len(x) = Chars(base) * k /\ n \in 0 .. Len(x) /\ Len(x) < n + Chars(base)
    BY <1>5, <1>8
  <2>2. /\ Firsts(all, Len(all) - Trim(base, n)) = Regroup(Firsts(x, n), Bits(base), 8)
        /\ Len(all) = Bytes(base) * k
    BY <1>8, <2>1, Trimmed, SMTT(30)
  <2>3. QED
    BY <1>8, <2>2
<1>10. ChunkedDecode(s, in, room, fin) = Ans(s, "Ok", m, all)
  <2>1. ~(fin /\ Len(in) < Chars(base))
    BY <1>1
  <2>2. Digital(base, in, k * Chars(base))
    BY <1>1, <1>6
  <2>3. ChunkedDecode(s, in, room, fin)
          = Ans(s, "Ok", k * Chars(base),
                Regroup(DigitsOf(base, in, k * Chars(base)), Bits(base), 8))
    BY <2>1, <2>2, ChunkedIs
  <2>4. QED
    BY <1>1, <2>3
<1>11. (\A i \in 1 .. n : in[i] # Pad) /\ in[n + 1] = Pad
  <2>1. \A i \in 1 .. m : p[i] = in[i]
    BY <1>1, FirstsAt
  <2>2. (\A i \in 1 .. n : p[i] # Pad) /\ (n = Len(p) \/ p[n + 1] = Pad)
    BY <1>4 DEF ToldUpTo
  <2>3. \A i \in 1 .. n : i \in 1 .. m
    BY <1>5
  <2>4. n # Len(p)
    BY <1>4
  <2>5. QED
    BY <1>5, <2>1, <2>2, <2>3, <2>4
<1>12. HandsOn(s, in, room, fin, "Ok", m, all)
  <2>1. ~(~fin /\ Len(in) < Chars(base)) /\ ~(fin /\ in = <<>>) /\ "Ok" # "Err"
    <3>1. Len(in) # 0
      BY <1>1
    <3>2. QED
      BY <1>1, <3>1, EmptySeq
  <2> HIDE DEF m, all
  <2>2. QED
    BY <1>10, <2>1, PaddedDecodeIs
<1> HIDE DEF all
<1>13. PaddedDecode(s, in, room, fin) = Ans(s, "Ok", m, made)
  <2>1. PaddedDecode(s, in, room, fin) = Ans(s, "Ok", m, Firsts(all, Len(all) - Trim(base, n)))
    BY <1>4, <1>5, <1>11, <1>12 DEF HandsOn
  <2>2. QED
    BY <1>9, <2>1
<1>14. made # <<>> /\ Len(made) <= room
  <2>1. d \in Seq(Nat) /\ Len(d) = n
    <3>1. m \in Nat
      BY <1>1
    <3> HIDE DEF m
    <3>2. Digital(base, in, n)
      BY <1>5, <1>6, <3>1, FirstDigits
    <3>3. QED
      BY <3>2, DigitsAre DEF Digital
  <2>2. Bits(base) \in Widths /\ 8 \in Widths
    BY BaseSizes
  <2>3. Recut(d, Bits(base), 8)
    BY <2>1, <2>2, RegroupCuts
  <2>4. Len(made) = (n * Bits(base)) \div 8
    BY <2>1, <2>3 DEF Recut, Pieces
  <2>5. Len(made) # 0 /\ Len(made) <= Bytes(base) * k
    <3> HIDE DEF made
    <3>1. n <= Chars(base) * k /\ n >= 2
      BY <1>4, <1>5
    <3>2. (n * Bits(base)) \div 8 # 0 /\ (n * Bits(base)) \div 8 <= Bytes(base) * k
      BY <3>1, DigitBytes
    <3>3. QED
      BY <2>4, <3>2
  <2>6. Len(made) \in Nat
    BY <1>7, LenProperties
  <2> HIDE DEF made
  <2>7. Len(made) <= room
    BY <2>5, <2>6
  <2>8. made # <<>>
    BY <2>5, EmptySeq
  <2>9. QED
    BY <2>7, <2>8
<1>15. DecodeMeaning(s, q) = <<>> /\ <<>> \in Seq(Nat) /\ made \o <<>> = made
  <2>1. DecodeMeaning(s, <<>>) = <<>> /\ <<>> \in Seq(Nat)
    BY DecodeNothing, EmptySeq
  <2> HIDE DEF made
  <2>2. made \o <<>> = made
    BY <1>7, ConcatEmptySeq
  <2>3. QED
    BY <1>4, <2>1, <2>2
<1> HIDE DEF m, made
<1>16. DecodesTo(s, room, in, later, fin, "Ok", m, made)
  BY <1>1, <1>7, <1>13, <1>14, <1>15 DEF DecodesTo
<1>17. QED
  BY <1>16

\* PaddedDecode does what Well asks, of a strict decoder.
LEMMA PaddedDecodeWell ==
  ASSUME NEW s, s.name \in Bases, s.strict, s.pad \in BOOLEAN,
         \A any \in Seq(Nat) : Meaning(s, any) = DecodeMeaning(s, any),
         NEW size \in Nat, NEW room \in Nat, Chars(s.name) <= size, Bytes(s.name) <= room,
         NEW in \in Seq(Nat), NEW later \in Seq(Nat), NEW fin \in BOOLEAN,
         Shows(size, s, in, fin, later),
         Transform(s, in, room, fin) = PaddedDecode(s, in, room, fin)
  PROVE  Well({s}, size, room, s, in, fin, later)
<1> DEFINE C == Chars(s.name)
<1>1. C \in Nat \ {0} /\ Len(in) \in Nat /\ in \o later \in Seq(Nat)
  BY BaseSizes, LenProperties, ConcatProperties
<1>2. Meaning(s, in \o later) # Malformed /\ (fin => later = <<>>) /\ Len(in) <= size
  BY DEF Shows
<1>3. DecodeMeaning(s, in \o later) # Malformed
  BY <1>1, <1>2
<1>4. CASE ~fin /\ Len(in) < C
  <2>1. Transform(s, in, room, fin) = Ans(s, "SeqError", 0, <<>>)
    BY <1>4 DEF PaddedDecode
  <2>2. Len(in) < size
    BY <1>1, <1>4
  <2>3. QED
    BY <1>4, <2>1, <2>2, DecodesNothing
<1>5. CASE fin /\ in = <<>>
  <2>1. Transform(s, in, room, fin) = Ans(s, "StreamEnd", 0, <<>>)
    BY <1>5 DEF PaddedDecode
  <2>2. QED
    BY <1>5, <2>1, DecodesNothing
<1>6. CASE fin /\ in # <<>> /\ Len(in) < C
  <2>1. PICK kind, took, made : DecodesTo(s, room, in, later, fin, kind, took, made)
    BY <1>2, <1>3, <1>6, DecodesRest
  <2>2. QED
    BY <2>1, DecodesWell
<1>7. CASE C <= Len(in)
  <2> DEFINE k == TakenChunks(s.name, Len(in), room)
             p == Firsts(in, C * k)
             q == Skip(in, C * k) \o later
  <2>1. k \in Nat \ {0} /\ C * k \in 1 .. Len(in) /\ Bytes(s.name) * k \in 1 .. room
    BY <1>1, <1>7, ChunksFit
  <2>2. k \in Nat /\ C * k \in 0 .. Len(in)
    BY <2>1
  <2> HIDE DEF k
  <2>3. \/ DecodesOn(s, p, q) /\ (\A i \in 1 .. Len(p) : p[i] # Pad)
        \/ \E n \in Nat : DecodesPadded(s, p, q, n)
    BY <1>3, <2>2, ChunksOf
  <2>4. CASE DecodesOn(s, p, q) /\ (\A i \in 1 .. Len(p) : p[i] # Pad)
    <3>1. PICK kind, took, made : DecodesTo(s, room, in, later, fin, kind, took, made)
      BY <1>7, <2>1, <2>4, DecodesPlain DEF k
    <3>2. QED
      BY <3>1, DecodesWell
  <2>5. ASSUME NEW n \in Nat, DecodesPadded(s, p, q, n)
        PROVE  Well({s}, size, room, s, in, fin, later)
    <3>1. PICK kind, took, made : DecodesTo(s, room, in, later, fin, kind, took, made)
      BY <1>7, <2>1, <2>5, DecodesLast, SMTT(30) DEF k
    <3>2. QED
      BY <3>1, DecodesWell
  <2>6. QED
    BY <2>3, <2>4, <2>5
<1>8. QED
  BY <1>1, <1>4, <1>5, <1>6, <1>7

\* A strict decoder is shown what its FilteredDecoder is.
LEMMA Unstrained ==
  ASSUME NEW s, s.strict, NEW in \in Seq(Nat)
  PROVE  /\ Filtered(s, in) = in
         /\ \A kind, made : \A took \in 0 .. Len(in) :
              Unfiltered(s, in, Ans(s, kind, took, made)) = Ans(s, kind, took, made)
<1>1. Valid(s, in) = [i \in 1 .. Len(in) |-> i]
  BY DEF Valid
<1>2. Filtered(s, in) = in
  <2>1. in = [i \in 1 .. Len(in) |-> in[i]]
    BY SeqIs
  <2>2. DOMAIN Valid(s, in) = 1 .. Len(in) /\ \A i \in 1 .. Len(in) : Valid(s, in)[i] = i
    BY <1>1
  <2>3. QED
    BY <2>1, <2>2 DEF Filtered
<1>3. ASSUME NEW kind, NEW made, NEW took \in 0 .. Len(in)
      PROVE  Unfiltered(s, in, Ans(s, kind, took, made)) = Ans(s, kind, took, made)
  <2>1. took # 0 => Valid(s, in)[took] = took
    <3>1. took # 0 => took \in 1 .. Len(in)
      BY LenProperties
    <3>2. QED
      BY <1>1, <3>1
  <2>2. QED
    BY <2>1 DEF Unfiltered, Ans
<1>4. QED
  BY <1>2, <1>3

\* What is fixed of a strict decoder, by its settings.
LEMMA DecoderIs ==
  ASSUME OfBlocks, NEW s, s.name \in Bases, s.dir = "reverse", s.strict
  PROVE  /\ Start(s) = s
         /\ BufferSize(s) = Bytes(s.name)
         /\ \A in : Meaning(s, in) = DecodeMeaning(s, in)
         /\ s.name \in Base16 => \A in \in Seq(Nat) : \A room, fin :
              Transform(s, in, room, fin) = Unfiltered(s, in, HexDecode(s, in, room, fin))
         /\ s.name \in Base32 \cup Base64 => \A in \in Seq(Nat) : \A room, fin :
              Transform(s, in, room, fin) = Unfiltered(s, in, PaddedDecode(s, in, room, fin))
<1>1. s.name \in BlockNames /\ s.name # "swab" /\ s.dir # "forward"
  BY DEF BlockNames, Bases, Base16, Base32, Base64
<1>2. /\ Start(s) = BlockStart(s) /\ BufferSize(s) = BlockBufferSize(s)
      /\ \A in, room, fin : Transform(s, in, room, fin) = BlockTransform(s, in, room, fin)
      /\ \A in : Meaning(s, in) = BlockMeaning(s, in)
  BY <1>1 DEF OfBlocks
<1>3. Start(s) = s /\ BufferSize(s) = Bytes(s.name)
  BY <1>1, <1>2 DEF BlockStart, BlockBufferSize
<1>4. \A in : Meaning(s, in) = DecodeMeaning(s, in)
  BY <1>1, <1>2 DEF BlockMeaning
<1>5. ASSUME s.name \in Base16, NEW in \in Seq(Nat), NEW room, NEW fin
      PROVE  Transform(s, in, room, fin) = Unfiltered(s, in, HexDecode(s, in, room, fin))
  <2>1. s.name \notin Base32 \cup Base64
    BY <1>5 DEF Base16, Base32, Base64
  <2>2. Filtered(s, in) = in
    BY Unstrained
  <2>3. QED
    BY <1>1, <1>2, <1>5, <2>1, <2>2 DEF BlockTransform
<1>6. ASSUME s.name \in Base32 \cup Base64, NEW in \in Seq(Nat), NEW room, NEW fin
      PROVE  Transform(s, in, room, fin) = Unfiltered(s, in, PaddedDecode(s, in, room, fin))
  <2>1. s.name \notin Base16
    BY <1>6 DEF Base16, Base32, Base64
  <2>2. Filtered(s, in) = in
    BY Unstrained
  <2>3. QED
    BY <1>1, <1>2, <1>6, <2>1, <2>2 DEF BlockTransform
<1>7. QED
  BY <1>3, <1>4, <1>5, <1>6

\* Whatever a decoder answers, it takes of what it is shown.
Bounded(s, in, r) == \E kind, made : \E took \in 0 .. Len(in) : r = Ans(s, kind, took, made)

\* A strict decoder filters nothing.
LEMMA BoundedPlain ==
  ASSUME NEW s, s.strict, NEW in \in Seq(Nat), NEW r, Bounded(s, in, r)
  PROVE  Unfiltered(s, in, r) = r
BY Unstrained DEF Bounded

\* HexDecode takes no more than there is, ...
LEMMA HexBounded ==
  ASSUME NEW s, NEW in \in Seq(Nat), NEW room \in Nat, NEW fin
  PROVE  Bounded(s, in, HexDecode(s, in, room, fin))
<1> DEFINE bytes == Smaller(Len(in) \div 2, room)
           digits == [i \in 1 .. 2 * bytes |-> Digit(s.name, in[i])]
           r == HexDecode(s, in, room, fin)
<1>1. Len(in) \in Nat /\ 0 \in 0 .. Len(in)
  BY LenProperties
<1>2. 2 * bytes \in 0 .. Len(in)
  BY <1>1 DEF Smaller
<1>3. CASE ~fin /\ Len(in) < 2
  BY <1>1, <1>3 DEF HexDecode, Bounded
<1>4. CASE fin /\ in = <<>>
  <2>1. r = Ans(s, "StreamEnd", 0, <<>>)
    BY <1>4 DEF HexDecode
  <2>2. QED
    BY <1>1, <2>1 DEF Bounded
<1>5. CASE ~(~fin /\ Len(in) < 2) /\ ~(fin /\ in = <<>>)
  <2>1. r = IF -1 \in ToSet(digits) THEN Ans(s, "Err", 0, <<>>)
            ELSE StatelessAnswer(s, in, fin, 2 * bytes, Regroup(digits, 4, 8))
    BY <1>5 DEF HexDecode
  <2> HIDE DEF digits, bytes, r
  <2>2. CASE -1 \in ToSet(digits)
    BY <1>1, <2>1, <2>2 DEF Bounded, r
  <2>3. CASE -1 \notin ToSet(digits)
    BY <1>2, <2>1, <2>3 DEF StatelessAnswer, Bounded, r
  <2>4. QED
    BY <2>2, <2>3
<1>6. QED
  BY <1>3, <1>4, <1>5

\* ... nor does ChunkedDecode, ...
LEMMA ChunkedBounded ==
  ASSUME NEW s, s.name \in Bases, NEW in \in Seq(Nat), NEW room \in Nat, NEW fin
  PROVE  Bounded(s, in, ChunkedDecode(s, in, room, fin))
<1> DEFINE base == s.name
           C == Chars(base)
           n == Smaller(Len(in) \div C, room \div Bytes(base))
           rest == fin /\ Len(in) < C
           sum == IF rest THEN <<Sum(base, in)>>
                  ELSE [i \in 1 .. n |-> Sum(base, SubSeq(in, (i - 1) * C + 1, i * C))]
           bad == \E i \in DOMAIN sum : sum[i].negative
           kind == IF rest THEN "StreamEnd" ELSE "Ok"
           took == IF rest THEN Len(in) ELSE n * C
           made == FlattenSeq([i \in DOMAIN sum |-> sum[i].bytes])
           r == ChunkedDecode(s, in, room, fin)
<1>1. r = IF bad THEN Ans(s, "Err", 0, <<>>) ELSE Ans(s, kind, took, made)
  BY Zenon DEF ChunkedDecode
<1>2. Len(in) \in Nat /\ 0 \in 0 .. Len(in)
  BY LenProperties
<1>3. took \in 0 .. Len(in)
  <2>1. n * C \in 0 .. Len(in)
    <3>1. CASE base \in Base16
      BY <1>2, <3>1, BaseIs DEF Smaller
    <3>2. CASE base \in Base32
      BY <1>2, <3>2, BaseIs DEF Smaller
    <3>3. CASE base \in Base64
      BY <1>2, <3>3, BaseIs DEF Smaller
    <3>4. QED
      BY <3>1, <3>2, <3>3 DEF Bases
  <2> HIDE DEF n, C
  <2>2. QED
    BY <1>2, <2>1
<1> HIDE DEF bad, kind, took, made, r, sum, rest, n
<1>4. CASE bad
  BY <1>1, <1>2, <1>4 DEF Bounded, r
<1>5. CASE ~bad
  BY <1>1, <1>3, <1>5 DEF Bounded, r
<1>6. QED
  BY <1>4, <1>5

\* ... nor PaddedDecode.
LEMMA PaddedBounded ==
  ASSUME NEW s, s.name \in Bases, NEW in \in Seq(Nat), NEW room \in Nat, NEW fin
  PROVE  Bounded(s, in, PaddedDecode(s, in, room, fin))
<1> DEFINE x == PaddedDecode(s, in, room, fin)
<1>1. PICK kind, made : \E took \in 0 .. Len(in) :
        ChunkedDecode(s, in, room, fin) = Ans(s, kind, took, made)
  BY ChunkedBounded DEF Bounded
<1>2. PICK took \in 0 .. Len(in) : ChunkedDecode(s, in, room, fin) = Ans(s, kind, took, made)
  BY <1>1
<1>3. Len(in) \in Nat /\ 0 \in 0 .. Len(in)
  BY LenProperties
<1>4. CASE ~fin /\ Len(in) < Chars(s.name)
  BY <1>3, <1>4 DEF PaddedDecode, Bounded
<1>5. CASE fin /\ in = <<>>
  <2>1. x = Ans(s, "StreamEnd", 0, <<>>)
    BY <1>5 DEF PaddedDecode
  <2>2. QED
    BY <1>3, <2>1 DEF Bounded
<1>6. CASE ~(~fin /\ Len(in) < Chars(s.name)) /\ ~(fin /\ in = <<>>)
  <2> DEFINE r == ChunkedDecode(s, in, room, fin)
             pads == {i \in 1 .. r.took : in[i] = Pad}
             first == CHOOSE i \in pads : \A j \in pads : i <= j
             less(chars) == Ans(s, "Ok", r.took, Firsts(r.made, Len(r.made) - Trim(s.name, chars)))
  <2>1. x = IF r.kind = "Err" THEN r
            ELSE IF s.pad THEN IF pads = {} THEN r ELSE less(first - 1)
            ELSE IF fin /\ r.took = Len(in) THEN less(Len(in)) ELSE r
    BY <1>6 DEF PaddedDecode
  <2>2. r = Ans(s, kind, took, made) /\ r.took = took
    BY <1>2, AnsIs
  <2> HIDE DEF r, pads, first
  <2>3. x = r \/ \E chars : x = less(chars)
    <3> HIDE DEF less, x
    <3>1. QED
      BY <2>1
  <2>4. Bounded(s, in, r)
    BY <2>2 DEF Bounded
  <2>5. \A chars : Bounded(s, in, less(chars))
    BY <2>2 DEF Bounded
  <2>6. QED
    BY <2>3, <2>4, <2>5
<1>7. QED
  BY <1>4, <1>5, <1>6

\* A strict decoder that is shown a block of characters and has room for the bytes of
\* one streams.
LEMMA DecoderSteady ==
  ASSUME OfBlocks, NEW s, s.name \in Bases, s.dir = "reverse", s.strict, s.pad \in BOOLEAN,
         NEW size \in Nat, NEW room \in Nat, Chars(s.name) <= size, Bytes(s.name) <= room
  PROVE  Steady(s, size, room)
<1>1. \A in : Meaning(s, in) = DecodeMeaning(s, in)
  BY DecoderIs
<1>2. BufferSize(s) \in 0 .. room
  <2>1. BufferSize(s) = Bytes(s.name) /\ Bytes(s.name) \in Nat
    BY DecoderIs, BaseSizes
  <2>2. QED
    BY <2>1
<1>3. ASSUME NEW in \in Seq(Nat) PROVE Meaning(s, in) \in Seq(Nat) \cup {Malformed}
  <2>1. DecodeMeaning(s, in) \in Seq(Nat) \cup {Malformed}
    BY Decoded
  <2>2. QED
    BY <1>1, <2>1
<1>4. ASSUME NEW in \in Seq(Nat), NEW later \in Seq(Nat), NEW fin \in BOOLEAN,
             Shows(size, s, in, fin, later)
      PROVE  Well({s}, size, room, s, in, fin, later)
  <2>1. CASE s.name \in Base16
    <3>1. Transform(s, in, room, fin) = Unfiltered(s, in, HexDecode(s, in, room, fin))
      BY <2>1, DecoderIs
    <3>2. Transform(s, in, room, fin) = HexDecode(s, in, room, fin)
      BY <3>1, HexBounded, BoundedPlain
    <3>3. 2 <= size /\ 1 <= room
      BY <2>1, BaseIs
    <3>4. QED
      BY <1>1, <1>4, <2>1, <3>2, <3>3, HexDecodeWell
  <2>2. CASE s.name \in Base32 \cup Base64
    <3>1. Transform(s, in, room, fin) = Unfiltered(s, in, PaddedDecode(s, in, room, fin))
      BY <2>2, DecoderIs
    <3>2. Transform(s, in, room, fin) = PaddedDecode(s, in, room, fin)
      BY <3>1, PaddedBounded, BoundedPlain
    <3>3. QED
      BY <1>1, <1>4, <3>2, PaddedDecodeWell
  <2>3. QED
    BY <2>1, <2>2 DEF Bases
<1>5. QED
  BY <1>2, <1>3, <1>4 DEF Steady

-----------------------------------------------------------------------------
(***************************************************************************)
(* Round trips.                                                            *)
(***************************************************************************)
\* d begins what y is cut into, and has the bits of x.
Begins(d, y, from, to) ==
  /\ Len(d) <= Pieces(y, from, to)
  /\ \A k \in 1 .. Len(d) : d[k] = Regroup(y, from, to)[k]
HasBits(d, b, w, x) == \A i : IsBit(x, w, i) => Bit(d, b, i) = Bit(x, w, i)

\* The bits of the first pieces are the bits that were cut.
LEMMA SameBits ==
  ASSUME NEW from \in Widths, NEW to \in Widths, NEW y \in Seq(Nat), NEW d \in Seq(Nat),
         Begins(d, y, from, to),
         NEW i, IsBit(d, to, i)
  PROVE  Bit(d, to, i) = Bit(y, from, i)
<1>1. PICK q \in 0 .. Len(d) - 1, r \in 0 .. to - 1 : i = to * q + r
  BY BitsOfSeq
<1>2. Len(d) \in Nat /\ to \in Nat
  BY LenProperties DEF Widths
<1>3. Recut(y, from, to)
  BY RegroupCuts
<1>4. Pieces(y, from, to) \in Nat
  BY <1>3 DEF Recut
<1>. DEFINE j == q + 1
<1>5. j \in 1 .. Len(d) /\ j \in 1 .. Pieces(y, from, to) /\ q \in Nat
  BY <1>2, <1>4 DEF Begins
<1>6. (j - 1) * to + r = to * q + r
  BY <1>2, <1>5
<1>7. d[j] = Regroup(y, from, to)[j]
  BY <1>5 DEF Begins
<1>8. Bit(d, to, to * q + r) = BitOf(d[j], to, r)
  BY <1>5, BitIs
<1>9. BitOf(Regroup(y, from, to)[j], to, r) = Bit(y, from, (j - 1) * to + r)
  BY <1>3, <1>5 DEF Recut
<1> HIDE DEF j
<1> QED BY <1>1, <1>6, <1>7, <1>8, <1>9

\* A bit of a digit is one of the digits.
LEMMA BitInside ==
  ASSUME NEW w \in Widths, NEW q \in Nat, NEW n \in Nat, q + 1 <= n, NEW r \in 0 .. w - 1
  PROVE  w * q + r \in Nat /\ w * q + r < w * n
<1>1. CASE w = 4
  BY <1>1
<1>2. CASE w = 5
  BY <1>2
<1>3. CASE w = 6
  BY <1>3
<1>4. CASE w = 8
  BY <1>4
<1> QED BY <1>1, <1>2, <1>3, <1>4 DEF Widths

\* Digits that have the bits of bytes, and no byte more, are these bytes.
LEMMA ReadsDigits ==
  ASSUME NEW w \in Widths, NEW x \in Seq(0 .. 2 ^ w - 1), NEW b \in Widths, NEW d \in Seq(Nat),
         Pieces(d, b, w) = Len(x), HasBits(d, b, w, x)
  PROVE  Regroup(d, b, w) = x
<1>1. Len(x) \in Nat /\ w \in Nat
  BY LenProperties DEF Widths
<1>2. ASSUME NEW j \in 1 .. Len(x)
      PROVE  Binary(BitsAt(d, b, w, j)) = x[j]
  <2>. DEFINE bits == BitsAt(d, b, w, j)
  <2>1. j \in 1 .. Pieces(d, b, w)
    OBVIOUS
  <2>2. /\ bits \in Seq({0, 1}) /\ Len(bits) = w
        /\ \A n \in 1 .. w : bits[n] = Bit(d, b, (j - 1) * w + n - 1)
    BY <2>1, BitsAtIs
  <2>3. x[j] \in 0 .. 2 ^ w - 1
    BY ElementOfSeq
  <2>4. ASSUME NEW n \in 1 .. w
        PROVE  bits[n] = BitOf(x[j], w, n - 1)
    <3>. DEFINE q == j - 1
                r == n - 1
    <3>1. q \in Nat /\ r \in 0 .. w - 1 /\ q + 1 = j /\ q + 1 \in 1 .. Len(x)
      BY <1>1
    <3>2. (j - 1) * w + n - 1 = w * q + r
      BY <1>1
    <3>3. IsBit(x, w, w * q + r)
      <4>1. q \in Nat /\ r \in 0 .. w - 1 /\ q + 1 <= Len(x) /\ Len(x) \in Nat
        BY <1>1, <3>1
      <4> HIDE DEF q, r
      <4>2. w * q + r \in Nat /\ w * q + r < w * Len(x)
        BY <4>1, BitInside
      <4> QED BY <4>2 DEF IsBit
    <3>4. Bit(x, w, w * q + r) = BitOf(x[q + 1], w, r)
      BY <3>1, BitIs
    <3>5. Bit(d, b, w * q + r) = Bit(x, w, w * q + r)
      BY <3>3 DEF HasBits
    <3>6. bits[n] = Bit(d, b, w * q + r)
      BY <2>2, <3>2
    <3> QED BY <3>1, <3>4, <3>5, <3>6
  <2> HIDE DEF bits
  <2>5. Binary(bits) = x[j]
    <3>1. x[j] \in 0 .. 2 ^ Len(bits) - 1 /\ Len(bits) \in Widths
      BY <2>2, <2>3
    <3>2. \A n \in 1 .. Len(bits) : bits[n] = BitOf(x[j], Len(bits), n - 1)
      BY <2>2, <2>4
    <3> QED BY <2>2, <3>1, <3>2, BinaryReads
  <2> QED BY <2>5 DEF bits
<1>3. Regroup(d, b, w) = [j \in 1 .. Len(x) |-> Binary(BitsAt(d, b, w, j))]
  BY RegroupIs
<1>4. [j \in 1 .. Len(x) |-> Binary(BitsAt(d, b, w, j))] = [j \in 1 .. Len(x) |-> x[j]]
  BY <1>2
<1> QED BY <1>3, <1>4, SeqIs

\* No digit is written as = .
LEMMA PlainChar ==
  ASSUME NEW base \in Bases, NEW d \in 0 .. 2 ^ Bits(base) - 1
  PROVE  Char(base, d) # Pad
<1>1. CASE base \notin Base16
  BY <1>1, OwnChar DEF Alike, Base16
<1>2. CASE base \in Base16
  <2>1. Bits(base) = 4
    BY <1>2, BaseIs
  <2>2. d \in 0 .. 15
    BY <2>1, 2 ^ 4 - 1 = 15
  <2>3. d + 1 \in 1 .. 16 /\ d \in Nat /\ ModHex[d + 1] \in 98 .. 118
    BY <2>2, ModHexPlain
  <2>4. CASE base = "hex"
    <3>1. (Char(base, d) = 48 + d /\ d < 10) \/ Char(base, d) = 87 + d
      BY <2>3, <2>4, CharArms
    <3> QED BY <3>1, <2>2 DEF Pad
  <2>5. CASE base = "base16"
    <3>1. (Char(base, d) = 48 + d /\ d < 10) \/ (Char(base, d) = 55 + d /\ ~(d < 10))
      BY <2>3, <2>5, CharArms
    <3> QED BY <3>1, <2>2 DEF Pad
  <2>6. CASE base = "modhex"
    <3>1. Char(base, d) = ModHex[d + 1]
      BY <2>3, <2>6, CharArms
    <3> QED BY <3>1, <2>3 DEF Pad
  <2> QED BY <1>2, <2>4, <2>5, <2>6 DEF Base16
<1> QED BY <1>1, <1>2

\* The characters that tell something hold the bits of the bytes, and in the last one
\* others.
Tells8(base, n, t) ==
  /\ t \in Nat /\ 8 * n <= Bits(base) * t
  /\ (t * Bits(base)) % 8 < Bits(base) /\ (t * Bits(base)) \div 8 = n
  /\ Up(t, Chars(base)) = Chars(base) * Blocks(base, n)
  /\ base \in Base16 => t = Chars(base) * Blocks(base, n)

\* So many characters tell.
LEMMA TellingIs ==
  ASSUME NEW base \in Bases, NEW n \in Nat
  PROVE  Tells8(base, n, Telling(base, n))
<1>1. CASE base \in Base16
  <2>1. Bytes(base) = 1 /\ Chars(base) = 2 /\ Bits(base) = 4
    BY <1>1, BaseIs
  <2>2. Telling(base, n) = 2 * n /\ Blocks(base, n) = n
    BY <2>1 DEF Telling, Blocks, Up
  <2>3. Up(2 * n, 2) = 2 * n
    BY DEF Up
  <2> QED BY <2>1, <2>2, <2>3 DEF Tells8
<1>2. CASE base \in Base32
  <2>1. Bytes(base) = 5 /\ Chars(base) = 8 /\ Bits(base) = 5 /\ base \notin Base16
    BY <1>2, BaseIs DEF Base16, Base32
  <2> DEFINE t == Telling(base, n)
  <2>2. t = (n * 8 + 4) \div 5 /\ Blocks(base, n) = (n + 4) \div 5
    BY <2>1 DEF Telling, Blocks, Up
  <2>3. Up(t, 8) = ((t + 7) \div 8) * 8
    BY DEF Up
  <2> HIDE DEF t
  <2>4. t \in Nat /\ 8 * n <= 5 * t /\ (t * 5) % 8 < 5 /\ (t * 5) \div 8 = n
    BY <2>2
  <2>5. ((t + 7) \div 8) * 8 = 8 * ((n + 4) \div 5)
    BY <2>2
  <2>6. Tells8(base, n, t)
    BY <2>1, <2>2, <2>3, <2>4, <2>5 DEF Tells8
  <2> QED BY <2>6 DEF t
<1>3. CASE base \in Base64
  <2>1. Bytes(base) = 3 /\ Chars(base) = 4 /\ Bits(base) = 6 /\ base \notin Base16
    BY <1>3, BaseIs DEF Base16, Base64
  <2> DEFINE t == Telling(base, n)
  <2>2. t = (n * 8 + 5) \div 6 /\ Blocks(base, n) = (n + 2) \div 3
    BY <2>1 DEF Telling, Blocks, Up
  <2>3. Up(t, 4) = ((t + 3) \div 4) * 4
    BY DEF Up
  <2> HIDE DEF t
  <2>4. t \in Nat /\ 8 * n <= 6 * t /\ (t * 6) % 8 < 6 /\ (t * 6) \div 8 = n
    BY <2>2
  <2>5. ((t + 3) \div 4) * 4 = 4 * ((n + 2) \div 3)
    BY <2>2
  <2>6. Tells8(base, n, t)
    BY <2>1, <2>2, <2>3, <2>4, <2>5 DEF Tells8
  <2> QED BY <2>6 DEF t
<1> QED BY <1>1, <1>2, <1>3 DEF Bases

\* What an encoder writes is well-formed for the decoder.
LEMMA EncodingIs ==
  ASSUME NEW s, s.name \in Bases, s.pad \in BOOLEAN, NEW t, t.name \in Bases,
         s.name \in Alike(t.name), t.pad = s.pad,
         NEW x \in Seq(Nat)
  PROVE  LET T == Telling(s.name, Len(x))
             e == EncodeMeaning(s, x)
         IN  /\ e \in Seq(Nat) /\ WellFormed(t, e, T)
             /\ Begins(DigitsOf(t.name, e, T), Padded(s.name, x), 8, Bits(t.name))
<1>. DEFINE base == s.name
            n == Len(x)
            T == Telling(base, n)
            k == Blocks(base, n)
            y == Padded(base, x)
            g == Regroup(y, 8, Bits(base))
            c == Encoded(base, y)
            e == EncodeMeaning(s, x)
<1>1. /\ e = Cut(s.pad, c, T) /\ y \in Seq(Nat) /\ T \in 0 .. Len(c) /\ e \in Seq(Nat)
      /\ EncodedTo(base, y, k)
  BY EncodeIs DEF Encodes
<1>2. /\ c \in Seq(Nat) /\ Len(c) = Chars(base) * k /\ Len(g) = Chars(base) * k
      /\ \A i \in 1 .. Chars(base) * k : c[i] = Char(base, g[i]) /\ g[i] \in 0 .. 2 ^ Bits(base) - 1
  BY <1>1 DEF EncodedTo
<1>3. n \in Nat /\ Len(e) \in Nat /\ Len(c) \in Nat
  BY <1>1, <1>2, LenProperties
<1>4. Tells8(base, n, T)
  BY <1>3, TellingIs
<1>5. /\ s.pad => Len(e) = Len(c)
      /\ ~s.pad => Len(e) = T
      /\ \A i \in 1 .. Len(e) : (i <= T => e[i] = c[i]) /\ (i > T => e[i] = Pad)
  BY <1>1, <1>2, CutIs, SMTT(30)
<1>6. Bits(base) \in Widths /\ 8 \in Widths
  BY BaseSizes
<1>7. /\ base \in Bases /\ t.name \in Bases /\ base \in Alike(t.name)
      /\ Bits(t.name) = Bits(base) /\ Chars(t.name) = Chars(base)
  BY AlikeIs
<1> HIDE DEF base, n, T, k, y, g, c, e
<1>8. T \in 0 .. Len(e)
  BY <1>1, <1>3, <1>5
<1>9. ASSUME NEW i \in 1 .. T
      PROVE  /\ i \in 1 .. Len(g) /\ i \in 1 .. Len(e)
             /\ e[i] = Char(base, g[i]) /\ g[i] \in 0 .. 2 ^ Bits(base) - 1
  <2>1. i \in 1 .. Len(e) /\ i \in 1 .. Len(c) /\ i <= T
    BY <1>1, <1>3, <1>8
  <2> QED BY <2>1, <1>2, <1>5
<1>10. \A i \in 1 .. T : e[i] # Pad /\ Digit(t.name, e[i]) = g[i] /\ Digit(t.name, e[i]) # -1
  <2>1. SUFFICES ASSUME NEW i \in 1 .. T
                 PROVE  e[i] # Pad /\ Digit(t.name, e[i]) = g[i] /\ Digit(t.name, e[i]) # -1
    OBVIOUS
  <2>2. e[i] # Pad
    BY <1>9, <1>7, PlainChar
  <2>3. Digit(t.name, e[i]) = g[i]
    BY <1>9, <1>7, DigitIs
  <2>4. g[i] # -1
    <3>1. g[i] \in 0 .. 2 ^ Bits(base) - 1
      BY <1>9
    <3> QED BY <3>1
  <2> QED BY <2>2, <2>3, <2>4
<1>11. \A i \in T + 1 .. Len(e) : e[i] = Pad
  BY <1>5, <1>8, <1>3
<1>12. ToldUpTo(e, T)
  <2>1. T = Len(e) \/ e[T + 1] = Pad
    BY <1>3, <1>8, <1>11
  <2> QED BY <1>8, <1>10, <2>1 DEF ToldUpTo
<1>13. Len(e) = IF t.pad THEN Up(T, Chars(base)) ELSE T
  <2>1. Up(T, Chars(base)) = Chars(base) * k
    BY <1>4 DEF Tells8, k
  <2>2. CASE s.pad
    BY <1>2, <1>5, <2>1, <2>2
  <2>3. CASE ~s.pad
    BY <1>5, <2>3
  <2> QED BY <2>2, <2>3
<1>14. WellFormed(t, e, T)
  <2>1. (T * Bits(t.name)) % 8 < Bits(t.name)
    BY <1>4, <1>7 DEF Tells8
  <2> QED BY <2>1, <1>7, <1>10, <1>11, <1>12, <1>13 DEF WellFormed
<1>15. Begins(DigitsOf(t.name, e, T), y, 8, Bits(base))
  <2>1. DigitsOf(t.name, e, T) = [i \in 1 .. T |-> Digit(t.name, e[i])]
    BY DEF DigitsOf
  <2>2. Len(DigitsOf(t.name, e, T)) = T
    BY <1>8, <1>7, <1>1, <1>10, DigitsAre
  <2>3. Recut(y, 8, Bits(base))
    BY <1>1, <1>6, RegroupCuts
  <2>4. Len(g) = Pieces(y, 8, Bits(base)) /\ g = Regroup(y, 8, Bits(base))
    BY <2>3 DEF Recut, g
  <2>5. T <= Pieces(y, 8, Bits(base))
    BY <1>1, <1>2, <2>4
  <2>6. \A i \in 1 .. T : DigitsOf(t.name, e, T)[i] = g[i]
    BY <2>1, <1>10
  <2> QED BY <2>2, <2>4, <2>5, <2>6 DEF Begins
<1> QED BY <1>1, <1>14, <1>15, <1>7 DEF base, n, T, y, e

\* A sequence of some is one of more.
LEMMA WiderSeq ==
  ASSUME NEW S, NEW T, \A a \in S : a \in T, NEW s \in Seq(S)
  PROVE  s \in Seq(T)
<1>1. Len(s) \in Nat /\ \A i \in 1 .. Len(s) : s[i] \in S
  BY LenProperties, ElementOfSeq
<1>2. s = [i \in 1 .. Len(s) |-> s[i]]
  BY SeqIs
<1>3. [i \in 1 .. Len(s) |-> s[i]] \in [1 .. Len(s) -> T]
  BY <1>1
<1> QED BY <1>1, <1>2, <1>3, IsRow

\* What bytes become in an encoder, a strict decoder of the same settings reads as
\* these bytes.
THEOREM EncodingReadsBack ==
  ASSUME NEW s, s.name \in Bases, s.pad \in BOOLEAN,
         NEW t, t.name \in Bases,
         s.name \in Alike(t.name), t.pad = s.pad, t.strict,
         NEW x \in Seq(0 .. 255)
  PROVE  DecodeMeaning(t, EncodeMeaning(s, x)) = x
<1>. DEFINE base == s.name
            n == Len(x)
            T == Telling(base, n)
            y == Padded(base, x)
            e == EncodeMeaning(s, x)
            d == DigitsOf(t.name, e, T)
            b == Bits(base)
            zeros == Repeat(0, Missing(base, n))
<1>1. x \in Seq(Nat) /\ n \in Nat
  <2>1. \A a \in 0 .. 255 : a \in Nat
    OBVIOUS
  <2> QED BY <2>1, LenProperties, WiderSeq, ZenonT(60)
<1>2. /\ b \in Widths /\ 8 \in Widths /\ base \in Bases
      /\ Bits(t.name) = b /\ t.name \in Bases
  BY BaseSizes, AlikeIs
<1>3. e \in Seq(Nat) /\ WellFormed(t, e, T) /\ Begins(d, y, 8, b)
  <2>1. Begins(d, y, 8, Bits(t.name))
    BY <1>1, EncodingIs
  <2>2. e \in Seq(Nat) /\ WellFormed(t, e, T)
    BY <1>1, EncodingIs
  <2> QED BY <1>2, <2>1, <2>2
<1>4. DecodeMeaning(t, e) = Regroup(d, b, 8) /\ Digital(t.name, e, T)
  BY <1>3, <1>2, Decoded
<1>5. Tells8(base, n, T) /\ Filled(base, n)
  BY <1>1, TellingIs, FillIs
<1>6. zeros \in Seq(Nat) /\ y = x \o zeros /\ y \in Seq(Nat)
  <2>1. Missing(base, n) \in Nat
    BY <1>1, <1>2, <1>5, BaseSizes DEF Filled
  <2>2. zeros \in Seq(Nat)
    BY <2>1, RepeatIs
  <2> QED BY <2>2, <1>1, ConcatProperties DEF Padded
<1>7. d \in Seq(Nat) /\ Len(d) = T
  <2>1. T \in 0 .. Len(e) /\ \A i \in 1 .. T : Digit(t.name, e[i]) # -1
    BY <1>4 DEF Digital
  <2> HIDE DEF base, T, e
  <2>2. DigitsOf(t.name, e, T) \in Seq(Nat) /\ Len(DigitsOf(t.name, e, T)) = T
    BY <1>3, <1>2, <2>1, DigitsAre
  <2> QED BY <2>2
<1> HIDE DEF base, n, T, y, e, d, b, zeros
<1>8. ASSUME NEW i, IsBit(x, 8, i)
      PROVE  Bit(d, b, i) = Bit(x, 8, i)
  <2>1. i \in Nat /\ i < 8 * n /\ 8 * n <= b * T
    BY <1>5, <1>8 DEF IsBit, Tells8, n, b
  <2>2. b * T \in Nat
    BY <1>2, <1>5 DEF Tells8, Widths
  <2>3. IsBit(d, b, i)
    BY <1>1, <1>7, <2>1, <2>2 DEF IsBit
  <2>4. Bit(d, b, i) = Bit(y, 8, i)
    <3>1. Begins(d, y, 8, b)
      BY <1>3
    <3>2. y \in Seq(Nat) /\ d \in Seq(Nat)
      BY <1>6, <1>7
    <3> DEFINE w == 8
    <3>3. w \in Widths /\ Begins(d, y, w, b)
      BY <1>2, <3>1
    <3> HIDE DEF w
    <3>4. Bit(d, b, i) = Bit(y, w, i)
      BY <1>2, <2>3, <3>2, <3>3, SameBits
    <3> QED BY <3>4 DEF w
  <2>5. Bit(x \o zeros, 8, i) = Bit(x, 8, i)
    BY <1>1, <1>2, <1>6, <1>8, BitsJoin
  <2> QED BY <1>6, <2>4, <2>5
<1>9. HasBits(d, b, 8, x)
  BY <1>8 DEF HasBits
<1>10. Pieces(d, b, 8) = Len(x)
  BY <1>5, <1>7 DEF Pieces, Tells8, n, b
<1>11. x \in Seq(0 .. 2 ^ 8 - 1)
  BY 2 ^ 8 - 1 = 255
<1>12. Regroup(d, b, 8) = x
  BY <1>2, <1>7, <1>9, <1>10, <1>11, ReadsDigits
<1> QED BY <1>4, <1>12 DEF e

-----------------------------------------------------------------------------
(***************************************************************************)
(* Chains of newline codecs, digests and block codecs.                     *)
(***************************************************************************)
OfCodecs == OfNewlines /\ OfDigests /\ HashesBytes /\ OfBlocks

\* The slices that a codec needs, if any: a codec of blocks must be shown one and
\* have room for what becomes of it.  A decoder is a strict one.
FitsRoom(settings, size, room) ==
  \/ Suits(settings, size, room)
  \/ DigestSuits(settings, size, room)
  \/ /\ settings.name = "swab" /\ settings.length \in Nat \ {0}
     /\ settings.length <= size /\ settings.length <= room
  \/ /\ settings.name \in Bases /\ settings.pad \in BOOLEAN /\ settings.dir = "forward"
     /\ Bytes(settings.name) <= size /\ Chars(settings.name) <= room
  \/ /\ settings.name \in Bases /\ settings.pad \in BOOLEAN /\ settings.dir = "reverse"
     /\ settings.strict
     /\ Chars(settings.name) <= size /\ Bytes(settings.name) <= room

\* Every stage of every chain fits.
AllFit ==
  \A c \in Chains : \A size \in BufSizes : \A k \in 1 .. Len(c) :
    FitsRoom(c[k], size, Writes(c, size, k))

\* No input is malformed for its chain.
AllMean == \A c \in Chains : \A in \in Sources(c) : Intends(c, in) # Malformed

\* A codec that fits streams.
LEMMA FitStreams ==
  ASSUME OfCodecs, NEW settings, NEW size \in Nat \ {0}, NEW room \in Nat, size <= room,
         FitsRoom(settings, size, room)
  PROVE  StreamsAlone(At(Start(settings), <<>>), size, room)
<1>1. OfNewlines /\ OfDigests /\ HashesBytes /\ OfBlocks
  BY DEF OfCodecs
<1>2. CASE Suits(settings, size, room)
  BY <1>1, <1>2, SuitedStreams
<1>3. CASE DigestSuits(settings, size, room)
  BY <1>1, <1>3, DigestStreams
<1>4. CASE /\ settings.name = "swab" /\ settings.length \in Nat \ {0}
           /\ settings.length <= size /\ settings.length <= room
  <2>1. Steady(settings, size, room) /\ Start(settings) = settings
    BY <1>1, <1>4, SwabSteady, SwabIs
  <2> QED BY <2>1, SteadyStreams
<1>5. CASE /\ settings.name \in Bases /\ settings.pad \in BOOLEAN /\ settings.dir = "forward"
           /\ Bytes(settings.name) <= size /\ Chars(settings.name) <= room
  <2>1. Steady(settings, size, room) /\ Start(settings) = settings
    BY <1>1, <1>5, EncoderSteady, EncoderIs
  <2> QED BY <2>1, SteadyStreams
<1>6. CASE /\ settings.name \in Bases /\ settings.pad \in BOOLEAN /\ settings.dir = "reverse"
           /\ settings.strict
           /\ Chars(settings.name) <= size /\ Bytes(settings.name) <= room
  <2>1. Steady(settings, size, room) /\ Start(settings) = settings
    BY <1>1, <1>6, DecoderSteady, DecoderIs
  <2> QED BY <2>1, SteadyStreams
<1> QED BY <1>2, <1>3, <1>4, <1>5, <1>6 DEF FitsRoom

\* So every stage is reliable.
LEMMA FitReliable ==
  ASSUME OfCodecs, AllFit, AllMean
  PROVE  AllReliable
<1>1. SUFFICES ASSUME NEW c \in Chains, NEW size \in BufSizes, NEW k \in 1 .. Len(c)
      PROVE  /\ StreamsAlone(At(Start(c[k]), <<>>), size, Writes(c, size, k))
             /\ \A in \in Sources(c) : Intends(c, in) # Malformed
  BY DEF AllReliable
<1>2. /\ size \in Nat \ {0} /\ Writes(c, size, k) \in Nat /\ size <= Writes(c, size, k)
      /\ FitsRoom(c[k], size, Writes(c, size, k))
  BY PipelineAssumption DEF Writes, AllFit
<1>3. StreamsAlone(At(Start(c[k]), <<>>), size, Writes(c, size, k))
  BY <1>2, FitStreams
<1> QED BY <1>3 DEF AllMean

\* Chains of newline codecs, digests, encoders and strict decoders keep the contract
\* of their readers (mod.rs:263-325) in every buffer size that suits them.
THEOREM CodecsKeepContract ==
  ASSUME OfCodecs, AllFit, AllMean
  PROVE  Spec => []KeepsContract /\ []Streams
BY FitReliable, ContractKept, AlwaysStreams, PTL

\* And they write exactly what they mean, complain about nothing, and are one stream
\* for whoever reads them, whatever the pieces in which the input comes (mod.rs:272-353).
THEOREM CodecsWriteTheMeaning ==
  ASSUME OfCodecs, AllFit, AllMean
  PROVE  Spec => []WritesTheMeaning /\ []NoFalseAlarm /\ ImplementsDelivery
BY FitReliable, ReliableChains

\* Only what is decoded, or cut into blocks by swab, may be malformed.
LEMMA FitMeans ==
  ASSUME OfCodecs, NEW settings, NEW size \in Nat \ {0}, NEW room \in Nat, size <= room,
         FitsRoom(settings, size, room), settings.name # "swab",
         settings.name \in Bases => settings.dir = "forward"
  PROVE  \A any \in Seq(Nat) : Meaning(Start(settings), any) \in Seq(Nat)
<1>1. OfNewlines /\ OfDigests /\ HashesBytes /\ OfBlocks
  BY DEF OfCodecs
<1>2. CASE Suits(settings, size, room)
  BY <1>1, <1>2, SuitedStreams
<1>3. CASE DigestSuits(settings, size, room)
  BY <1>1, <1>3, DigestStreams
<1>4. CASE /\ settings.name \in Bases /\ settings.pad \in BOOLEAN /\ settings.dir = "forward"
           /\ Bytes(settings.name) <= size /\ Chars(settings.name) <= room
  <2>1. Start(settings) = settings
    BY <1>1, <1>4, EncoderIs
  <2>2. \A in \in Seq(Nat) : Meaning(settings, in) \in Seq(Nat)
    BY <1>1, <1>4, EncoderSteady
  <2> QED BY <2>1, <2>2
<1>5. settings.name \in Bases => settings.dir # "reverse"
  OBVIOUS
<1> QED BY <1>2, <1>3, <1>4, <1>5 DEF FitsRoom

\* So chains without these have no malformed input at all.
LEMMA OneWayMeans ==
  ASSUME OfCodecs, AllFit, BufSizes # {},
         \A c \in Chains : \A k \in 1 .. Len(c) :
           c[k].name # "swab" /\ (c[k].name \in Bases => c[k].dir = "forward")
  PROVE  AllMean
<1>1. SUFFICES ASSUME NEW c \in Chains, NEW in \in Sources(c)
      PROVE  Intends(c, in) # Malformed
  BY DEF AllMean
<1>2. PICK size \in BufSizes : TRUE
  OBVIOUS
<1>3. ASSUME NEW k \in 1 .. Len(c), NEW any \in Seq(Nat)
      PROVE  Meaning(Start(c[k]), any) \in Seq(Nat)
  <2>1. /\ size \in Nat \ {0} /\ Writes(c, size, k) \in Nat /\ size <= Writes(c, size, k)
        /\ FitsRoom(c[k], size, Writes(c, size, k))
    BY PipelineAssumption DEF Writes, AllFit
  <2>2. c[k].name # "swab" /\ (c[k].name \in Bases => c[k].dir = "forward")
    OBVIOUS
  <2> QED BY <2>1, <2>2, FitMeans
<1> QED BY <1>3, IntendsBytes

-----------------------------------------------------------------------------
(***************************************************************************)
(* Chains of two that give back what they were given.                      *)
(***************************************************************************)
LEMMA FlattenOne ==
  ASSUME NEW x \in Seq(Nat)
  PROVE  FlattenSeq(<<x>>) = x
<1>1. <<>> \in Seq(Seq(Nat))
  BY EmptySeq
<1> QED BY <1>1, FlattenAppend

\* The newlines that wrap puts into an input without any are those that its
\* decoder drops.
LEMMA UnwrappedIs ==
  /\ Unwrapped(<<LF>>) = <<>>
  /\ \A x \in Nat : x # LF => Unwrapped(<<x>>) = <<x>> /\ Unwrapped(<<x, LF>>) = <<x>>
<1>1. <<LF>> \in Seq(Nat) /\ \A x \in Nat : <<x>> \in Seq(Nat)
  BY DEF LF
<1>2. Unwrapped(<<LF>>) = <<>>
  <2>1. [i \in 1 .. Len(<<LF>>) |-> IF <<LF>>[i] = LF THEN <<>> ELSE <<<<LF>>[i]>>] = <<<<>>>>
    OBVIOUS
  <2>2. FlattenSeq(<<<<>>>>) = <<>>
    BY EmptySeq, FlattenOne
  <2> QED BY <2>1, <2>2 DEF Unwrapped
<1>3. ASSUME NEW x \in Nat, x # LF
      PROVE  Unwrapped(<<x>>) = <<x>>
  <2>1. [i \in 1 .. Len(<<x>>) |-> IF <<x>>[i] = LF THEN <<>> ELSE <<<<x>>[i]>>] = <<<<x>>>>
    BY <1>3
  <2>2. FlattenSeq(<<<<x>>>>) = <<x>>
    BY <1>1, <1>3, FlattenOne
  <2> QED BY <2>1, <2>2 DEF Unwrapped
<1>4. ASSUME NEW x \in Nat, x # LF
      PROVE  Unwrapped(<<x, LF>>) = <<x>>
  <2>1. <<x, LF>> = <<x>> \o <<LF>>
    OBVIOUS
  <2>2. Unwrapped(<<x>> \o <<LF>>) = Unwrapped(<<x>>) \o Unwrapped(<<LF>>)
    BY <1>1, ExpandJoin
  <2>3. <<x>> \o <<>> = <<x>>
    OBVIOUS
  <2> QED BY <1>2, <1>3, <1>4, <2>1, <2>2, <2>3
<1> QED BY <1>2, <1>3, <1>4

\* There is no newline in it.
NoNewline(in) == \A i \in 1 .. Len(in) : in[i] # LF

\* What wrapping added is what unwrapping takes away.
LEMMA WrapUndone ==
  ASSUME NEW L \in Nat \ {0}, NEW c \in 0 .. L - 1, NEW in \in Seq(Nat), NoNewline(in)
  PROVE  Unwrapped(Made(L, c, in)) = in
<1> DEFINE P == {s \in Seq(Nat) : NoNewline(s) => Unwrapped(Made(L, c, s)) = s}
<1>1. <<>> \in P
  <2>1. Made(L, c, <<>>) = <<>>
    BY LinesAre
  <2>2. <<>> \in Seq(Nat)
    BY EmptySeq
  <2>3. Unwrapped(<<>>) = <<>>
    BY <2>2, ExpandJoin
  <2> QED BY <2>1, <2>2, <2>3
<1>2. ASSUME NEW s \in P, NEW x \in Nat PROVE Append(s, x) \in P
  <2>1. s \in Seq(Nat) /\ Append(s, x) \in Seq(Nat)
    BY AppendProperties
  <2>2. ASSUME NoNewline(Append(s, x))
        PROVE  Unwrapped(Made(L, c, Append(s, x))) = Append(s, x)
    <3> DEFINE col == Goes(L, c, s)
    <3>1. /\ Len(s) \in Nat /\ Len(Append(s, x)) = Len(s) + 1
          /\ Append(s, x)[Len(s) + 1] = x /\ \A i \in 1 .. Len(s) : Append(s, x)[i] = s[i]
      BY <2>1, LenProperties, AppendProperties
    <3>2. x # LF /\ NoNewline(s)
      BY <2>2, <3>1 DEF NoNewline
    <3>3. Unwrapped(Made(L, c, s)) = s
      BY <3>2
    <3>4. AreLines(L, c, s)
      BY <2>1, LinesAre
    <3>5. Made(L, c, Append(s, x)) = Made(L, c, s) \o Put(L, col, x)
      BY <2>1, <3>4, LinesStep
    <3>6. Made(L, c, s) \in Seq(Nat)
      BY <3>4 DEF AreLines
    <3>7. Put(L, col, x) \in Seq(Nat) /\ Unwrapped(Put(L, col, x)) = <<x>>
      <4>1. Put(L, col, x) \in {<<x>>, <<x, LF>>}
        BY <3>2 DEF Put
      <4>2. <<x>> \in Seq(Nat) /\ <<x, LF>> \in Seq(Nat)
        BY DEF LF
      <4>3. Unwrapped(<<x>>) = <<x>> /\ Unwrapped(<<x, LF>>) = <<x>>
        BY <3>2, UnwrappedIs
      <4> QED BY <4>1, <4>2, <4>3
    <3>8. Unwrapped(Made(L, c, Append(s, x)))
            = Unwrapped(Made(L, c, s)) \o Unwrapped(Put(L, col, x))
      BY <3>5, <3>6, <3>7, ExpandJoin, ZenonT(60)
    <3>9. s \o <<x>> = Append(s, x)
      BY <2>1, AppendIsConcat
    <3> QED BY <3>3, <3>7, <3>8, <3>9
  <2> QED BY <2>1, <2>2
<1>3. P \in SUBSET Seq(Nat) /\ Grows(Nat, P)
  BY <1>1, <1>2 DEF Grows
<1> HIDE DEF P
<1>4. P = Seq(Nat)
  BY <1>3, AllGrow
<1> QED BY <1>4 DEF P

\* b undoes what a makes of an input.
Undone(a, b, in) ==
  \/ a.name = "identity" /\ b.name = "identity"
  \/ a.name = "wrap" /\ a.arg \in Nat \ {0} /\ b.name = "-wrap" /\ NoNewline(in)
  \/ /\ a.name = "swab" /\ b.name = "swab"
     /\ a.length \in Nat \ {0} /\ b.length = a.length /\ Len(in) % a.length = 0
  \/ /\ a.name \in Bases /\ a.dir = "forward" /\ a.pad \in BOOLEAN
     /\ b.name \in Bases /\ b.dir = "reverse" /\ b.strict
     /\ a.name \in Alike(b.name) /\ b.pad = a.pad

\* Every chain is one of two codecs, and is given bytes of which the second codec undoes
\* what the first one makes.
AllUndone ==
  \A c \in Chains :
    /\ Len(c) = 2
    /\ \A in \in Sources(c) : in \in Seq(0 .. 255) /\ Undone(c[1], c[2], in)

\* So the two of them mean what they are given: for an encoder and a decoder that is
\* EncodingReadsBack.
LEMMA UndoneMeans ==
  ASSUME OfCodecs, NEW a, NEW b, NEW in \in Seq(0 .. 255), in \in Seq(Nat), Undone(a, b, in)
  PROVE  /\ Meaning(Start(a), in) \in Seq(Nat)
         /\ Meaning(Start(b), Meaning(Start(a), in)) = in
<1>1. OfNewlines /\ OfDigests /\ HashesBytes /\ OfBlocks
  BY DEF OfCodecs
<1>2. CASE a.name = "identity" /\ b.name = "identity"
  <2>1. Start(a).name = "identity" /\ Start(b).name = "identity"
    BY <1>1, <1>2 DEF OfNewlines, NewlineNames, NewlineStart
  <2> QED BY <1>1, <2>1, NewlineMeans
<1>3. CASE a.name = "wrap" /\ a.arg \in Nat \ {0} /\ b.name = "-wrap" /\ NoNewline(in)
  <2> DEFINE L == a.arg
  <2>1. Start(a) = WrapAt(L, 0) /\ Start(b).name = "-wrap"
    BY <1>1, <1>3 DEF OfNewlines, NewlineNames, NewlineStart, WrapStart, WrapAt
  <2>2. L \in Nat \ {0} /\ 0 \in 0 .. L - 1
    BY <1>3
  <2>3. Meaning(WrapAt(L, 0), in) = Made(L, 0, in) /\ Made(L, 0, in) \in Seq(Nat)
    BY <1>1, <2>2, WrapMeans
  <2>4. Meaning(Start(b), Made(L, 0, in)) = Unwrapped(Made(L, 0, in))
    BY <1>1, <2>1, NewlineMeans
  <2>5. Unwrapped(Made(L, 0, in)) = in
    BY <1>3, <2>2, WrapUndone
  <2> QED BY <2>1, <2>3, <2>4, <2>5
<1>4. CASE /\ a.name = "swab" /\ b.name = "swab"
           /\ a.length \in Nat \ {0} /\ b.length = a.length /\ Len(in) % a.length = 0
  <2> DEFINE L == a.length
             x == Backwards(in, L)
  <2>1. L \in Nat \ {0} /\ Len(in) \in Nat /\ Len(in) % L = 0
    BY <1>4, LenProperties
  <2>2. Whole(L, Len(in))
    BY <2>1, WholeIs
  <2>3. x \in Seq(Nat) /\ Len(x) = Len(in) /\ Backwards(x, L) = in
    BY <2>1, <2>2, BackwardsIs
  <2>4. Start(a) = a /\ Start(b) = b /\ b.length = L
    BY <1>1, <1>4, SwabIs
  <2>5. Meaning(a, in) = x
    BY <1>1, <1>4, <2>1, SwabIs
  <2>6. Meaning(b, x) = Backwards(x, L)
    <3>1. Meaning(b, x) = IF Len(x) % b.length = 0 THEN Backwards(x, b.length) ELSE Malformed
      BY <1>1, <1>4, SwabIs
    <3> HIDE DEF x, L
    <3> QED BY <2>1, <2>3, <2>4, <3>1
  <2> HIDE DEF x, L
  <2> QED BY <2>3, <2>4, <2>5, <2>6
<1>5. CASE /\ a.name \in Bases /\ a.dir = "forward" /\ a.pad \in BOOLEAN
           /\ b.name \in Bases /\ b.dir = "reverse" /\ b.strict
           /\ a.name \in Alike(b.name) /\ b.pad = a.pad
  <2>1. Start(a) = a /\ Meaning(a, in) = EncodeMeaning(a, in)
    BY <1>1, <1>5, EncoderIs
  <2>2. Start(b) = b /\ \A any : Meaning(b, any) = DecodeMeaning(b, any)
    BY <1>1, <1>5, DecoderIs
  <2>3. EncodeMeaning(a, in) \in Seq(Nat)
    BY <1>5, EncodeIs DEF Encodes
  <2>4. DecodeMeaning(b, EncodeMeaning(a, in)) = in
    BY <1>5, EncodingReadsBack
  <2> QED BY <2>1, <2>2, <2>3, <2>4
<1> QED BY <1>2, <1>3, <1>4, <1>5 DEF Undone

\* A chain of such a pair intends its source.
LEMMA UndoneIntends ==
  ASSUME OfCodecs, AllUndone, NEW c \in Chains, NEW in \in Sources(c)
  PROVE  Intends(c, in) = in /\ in \in Seq(Nat)
<1> DEFINE stages == [k \in 1 .. Len(c) |-> At(Start(c[k]), <<>>)]
           spares == [k \in 0 .. Len(c) - 1 |-> <<>>]
           due == Due(Len(c), stages, spares, in)
           x == Meaning(Start(c[1]), in)
<1>1. in \in Seq(Nat) /\ Len(c) = 2 /\ in \in Seq(0 .. 255) /\ Undone(c[1], c[2], in)
  BY PipelineAssumption DEF AllUndone
<1>2. x \in Seq(Nat) /\ Meaning(Start(c[2]), x) = in
  BY <1>1, UndoneMeans
<1>3. /\ stages[1].codec = Start(c[1]) /\ stages[1].win = <<>>
      /\ stages[2].codec = Start(c[2]) /\ stages[2].win = <<>>
      /\ spares[0] = <<>> /\ spares[1] = <<>>
  BY <1>1 DEF At
<1>4. Intends(c, in) = due[Len(c)]
  BY DEF Intends
<1> HIDE DEF stages, spares
<1>5. /\ due[0] = in
      /\ \A k \in 1 .. Len(c) :
           due[k] = IF due[k - 1] = Malformed THEN Malformed
                    ELSE Meaning(stages[k].codec, stages[k].win \o spares[k - 1] \o due[k - 1])
  BY <1>1, DueIs
<1> HIDE DEF due, x
<1>6. <<>> \o <<>> \o in = in /\ <<>> \o <<>> \o x = x
  BY <1>1, <1>2, ConcatEmptySeq
<1>7. due[1] = x
  <2>1. due[0] = in /\ in # Malformed
    BY <1>1, <1>5, NotMalformed
  <2>2. due[1] = IF due[0] = Malformed THEN Malformed
                 ELSE Meaning(stages[1].codec, stages[1].win \o spares[0] \o due[0])
    BY <1>1, <1>5
  <2> QED BY <1>3, <1>6, <2>1, <2>2 DEF x
<1>8. due[2] = in
  <2>1. due[1] # Malformed
    BY <1>2, <1>7, NotMalformed
  <2>2. due[2] = IF due[1] = Malformed THEN Malformed
                 ELSE Meaning(stages[2].codec, stages[2].win \o spares[1] \o due[1])
    BY <1>1, <1>5
  <2> QED BY <1>2, <1>3, <1>6, <1>7, <2>1, <2>2
<1> QED BY <1>1, <1>4, <1>8

\* What the chain is given does not change.
MeansItsSource == chain \in Chains /\ src \in Sources(chain) /\ meaning = Intends(chain, src)

\* It always does.
LEMMA MeansItsSourceAlways == Spec => []MeansItsSource
<1>1. Init => MeansItsSource
  BY InitMeaning DEF Init, MeansItsSource
<1>2. MeansItsSource /\ [Next]_vars => MeansItsSource'
  <2>1. [Next]_vars => UNCHANGED fixed
    BY DEF Next, vars, fixed, Copy, Ask, Read, ReadFail, Round, Continue, Return, Fail, Settle
  <2>2. SUFFICES ASSUME MeansItsSource, UNCHANGED fixed PROVE MeansItsSource'
    BY <2>1
  <2>3. chain' = chain /\ src' = src /\ meaning' = meaning
    BY <2>2 DEF fixed
  <2> QED BY <2>2, <2>3 DEF MeansItsSource
<1> QED BY <1>1, <1>2, PTL DEF Spec

\* In every buffer size that suits them, and whatever the pieces in which the input
\* comes, an encoder and the strict decoder for it, swab twice, and wrap and its decoder
\* where the input has no newlines, give back what they were given
\* (doc/man/muter.adoc:64, 74).
THEOREM ThereAndBack ==
  ASSUME OfCodecs, AllFit, AllUndone
  PROVE  Spec => []RoundTrips
<1>1. AllMean
  BY UndoneIntends, NotMalformed DEF AllMean
<1>2. Spec => []WritesTheMeaning
  BY <1>1, CodecsWriteTheMeaning
<1>3. MeansItsSource /\ WritesTheMeaning => RoundTrips
  <2>1. SUFFICES ASSUME MeansItsSource, WritesTheMeaning, reply = "end"
                 PROVE  out = src
    BY DEF RoundTrips
  <2>2. meaning = src /\ src \in Seq(Nat)
    BY <2>1, UndoneIntends DEF MeansItsSource
  <2>3. meaning # Malformed
    BY <2>2, NotMalformed
  <2> QED BY <2>1, <2>2, <2>3 DEF WritesTheMeaning
<1> QED BY <1>2, <1>3, MeansItsSourceAlways, PTL
=============================================================================
