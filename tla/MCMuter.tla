------------------------------ MODULE MCMuter ------------------------------
(***************************************************************************)
(* Invocations of muter for TLC: every short chain over an alphabet, every *)
(* codec with its parameters, chains of several codecs, options and files. *)
(***************************************************************************)
EXTENDS Muter

CONSTANT TextLimit   (* bound on the length of the arbitrary chains *)

Mix(data, k) == FoldLeft(LAMBDA h, x : (7 * h + x + 1) % 251, k, data)

Blocks == INSTANCE BlockCodecs
Escapes == INSTANCE EscapeCodecs
Newlines == INSTANCE NewlineCodecs
Framed == INSTANCE FramedCodecs WITH UuLine <- 45
Digests == INSTANCE DigestCodecs WITH HashByte <- Mix

\* Something that can be undone, in place of flate2.
Inflate(s, in) ==
  IF s.dir = "forward" THEN <<31>> \o in
  ELSE IF in # <<>> /\ in[1] = 31 THEN Tail(in) ELSE Malformed

MCMeaning(s, in) ==
  CASE s.name \in Hexes \cup Padded \cup {"swab"} -> Blocks!BlockMeaning(Blocks!BlockStart(s), in)
    [] s.name \in {"uri", "form", "quotedprintable", "xml", "vis"} -> Escapes!EscapeMeaning(Escapes!EscapeStart(s), in)
    [] s.name \in {"ascii85", "uuencode", "bubblebabble"} -> Framed!FramedMeaning(Framed!FramedStart(s), in)
    [] s.name \in {"hash"} \cup Sums \cup {"fletcher32,be", "fletcher32,le"} ->
         Digests!DigestMeaning(Digests!DigestStart(s), in)
    [] s.name \in Compressed -> Inflate(s, in)
    [] OTHER -> Newlines!NewlineMeaning(Newlines!NewlineStart(s), in)

MCUsize == [text \in {<<"0">>, <<"2">>, <<"4">>, <<"100">>} |->
  CASE text = <<"0">> -> 0 [] text = <<"2">> -> 2 [] text = <<"4">> -> 4 [] OTHER -> 100]

Use(chain, reverse) ==
  [chain |-> chain, reverse |-> reverse, strict |-> TRUE, size |-> <<>>, files |-> <<>>,
   stdin |-> <<10, 200>>]

----------------------------------------------------------------------------
(***************************************************************************)
(* Every text.                                                             *)
(***************************************************************************)
Alphabet == {"hex", "wrap", "upper", "length", "4", "-", "(", ")", ",", "=", ":", "wide"}
Texts == UNION {[1 .. n -> Alphabet] : n \in 0 .. TextLimit}

----------------------------------------------------------------------------
(***************************************************************************)
(* Every codec, with up to two parameters, some that it knows and some it  *)
(* does not.                                                               *)
(***************************************************************************)
Bits(word) ==
  IF word = "length"
  THEN {<<word>>, <<word, "=", "0">>, <<word, "=", "2">>, <<word, "=", "100">>, <<word, "=", "upper">>}
  ELSE {<<word>>, <<word, "=", "4">>}
Known(name) ==
  CASE name = "hash" -> {"md5", "blake2b", "blake3", "length"}
    [] name = "checksum" -> {"adler32", "fletcher32", "be", "le", "length"}
    [] OTHER -> Options(name)
Parameter(name) == UNION {Bits(word) : word \in Known(name) \cup {"nosuch"}} \cup {<<>>}
Unit(name, given) ==
  IF given = <<>> THEN <<name>> ELSE <<name, "(">> \o Join(given, ",") \o <<")">>
UnitsOf(name) ==
  {Unit(name, given) : given \in UNION {[1 .. n -> Parameter(name)] : n \in 0 .. 2}}

----------------------------------------------------------------------------
(***************************************************************************)
(* Chains of two, and one of three.                                        *)
(***************************************************************************)
Common ==
  {<<"hex">>, <<"-", "hex">>, <<"base64">>, <<"-", "url64">>, <<"uri", ",", "lower">>, <<"-", "uri">>,
   <<"xml", "(", "html", ")">>, <<"-", "ascii85">>, <<"vis", ",", "cstyle", ",", "white">>, <<"crlf">>,
   <<"wrap", ",", "length", "=", "2">>, <<"quotedprintable">>, <<"gzip">>, <<"-", "zlib">>, <<"lf">>,
   <<"hash", ",", "md5">>, <<"nosuch">>, <<"hex", ",">>, <<"uuencode">>, <<"bubblebabble">>}
Pairs == {Join(<<a, b>>, ":") : a, b \in Common}
Long == Join(<<<<"crlf">>, <<"vis">>, <<"base32", "(", "nopad", ")">>>>, ":")

----------------------------------------------------------------------------
(***************************************************************************)
(* Options and files.                                                      *)
(***************************************************************************)
Settled(chain) ==
  [chain : {chain}, reverse : {FALSE}, strict : BOOLEAN, size : {<<>>, <<<<"4">>>>, <<<<"upper">>>>},
   files : {<<>>, <<<<54, 49>>, <<48, 97, 33>>>>, <<<<54, 49>>, <<>>, <<54, 50>>>>}, stdin : {<<>>}]

MCLines ==
  {Use(chain, reverse) : chain \in Texts \cup Pairs \cup {Long} \cup UNION {UnitsOf(name) : name \in Names},
                         reverse \in BOOLEAN}
    \cup UNION {Settled(chain) : chain \in {<<"-", "hex">>, <<"identity">>, <<"-", "gzip">>, <<"hex", "(">>}}
=============================================================================
