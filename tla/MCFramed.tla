------------------------------ MODULE MCFramed ------------------------------
(***************************************************************************)
(* Pipelines of framed codecs and digests for TLC.                         *)
(***************************************************************************)
EXTENDS Pipeline, FramedCodecs, DigestCodecs

CONSTANT SourceLimit    (* bound on the length of the inputs *)

\* A function that tells the inputs of the runs apart, for the hash functions.
Mix(data, k) == FoldLeft(LAMBDA h, x : (7 * h + x + 1) % 251, k, data)

Framed == {"ascii85", "uuencode", "bubblebabble"}
MCStart(s) == IF s.name \in Framed THEN FramedStart(s) ELSE DigestStart(s)
MCBufferSize(s) == IF s.name \in Framed THEN FramedBufferSize(s) ELSE DigestBufferSize(s)
MCTransform(s, in, room, fin) ==
  IF s.name \in Framed THEN FramedTransform(s, in, room, fin) ELSE DigestTransform(s, in, room, fin)
MCMeaning(s, in) == IF s.name \in Framed THEN FramedMeaning(s, in) ELSE DigestMeaning(s, in)

To(name, bare) == [name |-> name, dir |-> "forward", bare |-> bare, strict |-> TRUE]
From(name, strict) == [name |-> name, dir |-> "reverse", bare |-> FALSE, strict |-> strict]
HashOf(chunk, length) == [name |-> "hash", chunk |-> chunk, length |-> length]
Checksum(name) == [name |-> name]

There(name, bare) == <<To(name, bare), From(name, TRUE)>>
RoundTripChains ==
  {There("ascii85", FALSE), There("ascii85", TRUE), There("uuencode", FALSE),
   There("bubblebabble", FALSE)}
Lenient == {<<From(name, FALSE)>> : name \in Framed}
Strict == {<<From(name, TRUE)>> : name \in {"uuencode", "bubblebabble"}}
Digests ==
  {<<HashOf(3, 3)>>, <<HashOf(2, 4)>>, <<HashOf(2, 2), To("bubblebabble", FALSE), From("bubblebabble", TRUE)>>}
    \cup {<<Checksum(name)>> : name \in {"adler32", "fletcher16", "fletcher32,be", "fletcher32,le"}}

FramedChains == RoundTripChains \cup Lenient \cup Strict \cup Digests

Sum(settings, in) == DigestMeaning(DigestStart(settings), in)
Counting(n) == [i \in 1 .. n |-> (i * 73) % 256]
Whole(settings, in) == FramedMeaning(FramedStart([settings EXCEPT !.dir = "forward"]), in)

\* Newlines and blanks put in front of some of the bytes.
Spread(text, at) ==
  FlattenSeq([i \in DOMAIN text |-> IF i \in at THEN <<32, text[i]>> ELSE <<text[i]>>])

\* Texts that are whole, cut short at any place, or changed at one.
Damaged(text) ==
  {Firsts(text, n) : n \in 1 .. Len(text)}
    \cup {[text EXCEPT ![i] = x] : i \in DOMAIN text, x \in {97, 120}}

FramedSources(ch) ==
  CASE ch \in RoundTripChains ->
         {Counting(n) : n \in 0 .. SourceLimit} \cup {Zeros(n) : n \in 0 .. SourceLimit \div 2}
    [] ch \in Digests -> {Counting(n) : n \in 0 .. SourceLimit}
    [] ch \in Lenient ->
         {Spread(Whole(ch[1], Counting(n)), at) : n \in 0 .. SourceLimit \div 2, at \in SUBSET {2, 5}}
    [] ch \in Strict -> UNION {Damaged(Whole(ch[1], Counting(n))) : n \in {0, 3, SourceLimit \div 2}}

\* ascii85 alone and of many zeros, and BLAKE3 with a length that is no multiple
\* of its chunk.
Ascii85Alone == {<<To("ascii85", FALSE)>>}
CountingSources(ch) == {Counting(n) : n \in 0 .. SourceLimit}
ManyZeros == {There("ascii85", FALSE)}
ZeroSources(ch) == {Zeros(n) : n \in 0 .. SourceLimit}
OddLengths == {<<HashOf(2, length)>> : length \in {3, 5}}

\* The values of the repository's tests.
ASSUME KnownAnswers ==
  /\ Whole(To("ascii85", FALSE), <<97, 98, 99>>) = <<60, 126, 64, 58, 69, 94, 126, 62>>
  /\ Whole(To("ascii85", FALSE), <<255, 255, 255, 255>>) = <<60, 126, 115, 56, 87, 45, 33, 126, 62>>
  /\ Whole(To("uuencode", FALSE), <<97, 98, 99>>) = <<35, 56, 54, 41, 67, 10, 96, 10>>
  /\ Whole(To("bubblebabble", FALSE), <<>>) = <<120, 101, 120, 97, 120>>
  /\ Whole(To("bubblebabble", FALSE), <<80, 105, 110, 101, 97, 112, 112, 108, 101>>) =
       <<120, 105, 103, 97, 107, 45, 110, 121, 114, 121, 107, 45, 104, 117, 109, 105, 108, 45,
         98, 111, 115, 101, 107, 45, 115, 111, 110, 97, 120>>
  /\ Sum(Checksum("adler32"), <<97, 98, 99>>) = <<2, 77, 1, 39>>
  /\ Sum(Checksum("fletcher16"), <<97, 98, 99, 100, 101>>) = <<200, 240>>
  /\ Sum(Checksum("fletcher32,le"), <<97, 98, 99, 100, 101>>) = <<240, 79, 199, 41>>
  /\ Sum(Checksum("fletcher32,be"), <<97, 98, 99, 100, 101>>) = <<79, 240, 41, 199>>
=============================================================================
