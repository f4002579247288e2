---------------------------- MODULE DigestCodecs ----------------------------
(***************************************************************************)
(* The codecs that take everything and hand out a result once: hash and    *)
(* checksum (src/src/lib/codec/codecs/hash.rs and checksum.rs).  The hash  *)
(* functions are external: HashByte(data, k) stands for the k-th byte of   *)
(* the result.  A digest of the digest crates has chunk = length; the one  *)
(* of BLAKE3 is read in chunks of a fixed size, whatever its length is.    *)
(***************************************************************************)
EXTENDS Codec, Sequences, SequencesExt

CONSTANT HashByte(_, _)

----------------------------------------------------------------------------
(***************************************************************************)
(* hash.  `fed' is what Hash::input was given, in order.                   *)
(***************************************************************************)
HashStart(settings) ==
  [name |-> "hash", chunk |-> settings.chunk, length |-> settings.length,
   left |-> settings.length, done |-> FALSE, fed |-> <<>>]

HashBytes(fed, first, last) == [i \in 1 .. last - first + 1 |-> HashByte(fed, first + i - 1)]

\* read_final fills what is left of the result, but the last answer says that
\* it was a whole chunk.
HashTransform(s, in, room, fin) ==
  LET fed == s.fed \o in
      n == Smaller(s.left, s.chunk)
      t == [s EXCEPT !.fed = fed, !.left = @ - n, !.done = s.left = n]
      first == s.length - s.left + 1
      bytes == HashBytes(fed, first, first + n - 1)
  IN  IF s.done THEN Ans(s, "StreamEnd", 0, <<>>)
      ELSE IF ~fin THEN Ans([s EXCEPT !.fed = fed], "Ok", Len(in), <<>>)
      ELSE IF room < s.chunk THEN Ans([s EXCEPT !.fed = fed], "BufError", Len(in), <<>>)
      ELSE IF t.done
      THEN Ans(t, "StreamEnd", Len(in), bytes \o [i \in 1 .. s.chunk - n |-> Unwritten])
      ELSE Ans(t, "Ok", Len(in), bytes)

----------------------------------------------------------------------------
(***************************************************************************)
(* checksum.  The sums a and b stay below their modulus; the chunks the    *)
(* code cuts its input into keep them below 2^32 in between.               *)
(***************************************************************************)
Modulus(name) ==
  CASE name = "adler32" -> 65521 [] name = "fletcher16" -> 255 [] OTHER -> 65535
InputSize(name) == IF name \in {"adler32", "fletcher16"} THEN 1 ELSE 2
OutputSize(name) == IF name = "fletcher16" THEN 2 ELSE 4

ChecksumStart(settings) ==
  [name |-> settings.name, a |-> IF settings.name = "adler32" THEN 1 ELSE 0, b |-> 0,
   done |-> FALSE]

\* The words of an input; an odd byte at the end is a word with a zero.
Words(name, in) ==
  LET byte(i) == IF i <= Len(in) THEN in[i] ELSE 0
  IN  IF InputSize(name) = 1 THEN in
      ELSE [k \in 1 .. (Len(in) + 1) \div 2 |->
             IF name = "fletcher32,le" THEN byte(2 * k - 1) + 256 * byte(2 * k)
             ELSE 256 * byte(2 * k - 1) + byte(2 * k)]

\* Hash::input.
Sums(s, in) ==
  LET w == Words(s.name, in)
      m == Modulus(s.name)
      sums[k \in 0 .. Len(w)] ==
        IF k = 0 THEN s
        ELSE [sums[k - 1] EXCEPT !.a = (@ + w[k]) % m, !.b = (@ + sums[k - 1].a + w[k]) % m]
  IN  sums[Len(w)]

\* result_reset: b before a, big end first.
Result(name, a, b) ==
  IF name = "fletcher16" THEN <<b, a>> ELSE <<b \div 256, b % 256, a \div 256, a % 256>>

\* A slip: to feed whatever has come, half a word, too.
ChecksumAll(s, in, room, fin) ==
  LET t == Sums(s, in)
  IN  IF s.done THEN Ans(s, "StreamEnd", 0, <<>>)
      ELSE IF ~fin THEN Ans(t, "Ok", Len(in), <<>>)
      ELSE Ans([t EXCEPT !.done = TRUE], "StreamEnd", Len(in), Result(s.name, t.a, t.b))

ChecksumTransform(s, in, room, fin) ==
  LET read == IF fin THEN Len(in) ELSE Len(in) - (Len(in) % InputSize(s.name))
      t == Sums(s, Firsts(in, read))
  IN  IF s.done THEN Ans(s, "StreamEnd", 0, <<>>)
      ELSE IF ~fin THEN Ans(t, "Ok", read, <<>>)
      ELSE IF room < OutputSize(s.name) THEN Ans(t, "BufError", read, <<>>)
      ELSE Ans([t EXCEPT !.done = TRUE], "StreamEnd", read, Result(s.name, t.a, t.b))

----------------------------------------------------------------------------
(***************************************************************************)
(* The factories and the trait.                                            *)
(***************************************************************************)
DigestStart(settings) ==
  IF settings.name = "hash" THEN HashStart(settings) ELSE ChecksumStart(settings)

DigestBufferSize(s) == IF s.name = "hash" THEN s.chunk ELSE OutputSize(s.name)

DigestTransform(s, in, room, fin) ==
  IF s.name = "hash" THEN HashTransform(s, in, room, fin) ELSE ChecksumTransform(s, in, room, fin)

(***************************************************************************)
(* What they make of all the rest of their input: what is left of the      *)
(* result, and for the checksums the sum of the words and the sum of these *)
(* sums, reduced once.  After the end nothing can come any more.           *)
(***************************************************************************)
ChecksumMeaning(s, in) ==
  LET w == Words(s.name, in)
      first[k \in 0 .. Len(w)] == IF k = 0 THEN s.a ELSE first[k - 1] + w[k]
      second[k \in 0 .. Len(w)] == IF k = 0 THEN s.b ELSE second[k - 1] + first[k]
  IN  Result(s.name, first[Len(w)] % Modulus(s.name), second[Len(w)] % Modulus(s.name))

DigestMeaning(s, in) ==
  IF s.done THEN IF in = <<>> THEN <<>> ELSE Malformed
  ELSE IF s.name = "hash" THEN HashBytes(s.fed \o in, s.length - s.left + 1, s.length)
  ELSE ChecksumMeaning(s, in)
=============================================================================
