------------------------------ MODULE Registry ------------------------------
(***************************************************************************)
(* The registry of codecs (src/src/lib/codec/registry.rs), the lookups of  *)
(* CodecSettings (src/src/lib/codec/mod.rs) and the factory of each codec: *)
(* which parameters it looks at, in which direction, what it refuses and   *)
(* the codec it makes, a record of settings of one of the codecs' modules. *)
(*                                                                         *)
(* A text is a sequence of characters and of words; a word is a member of  *)
(* its own.  The parameters of a step are a function from keys to values,  *)
(* both texts: <<>> for no value and <<text>> for one.                     *)
(***************************************************************************)
EXTENDS Integers, Sequences, FiniteSets

CONSTANT Usize   (* the usize that val.parse() finds in a text, if any *)

ASSUME UsizeAssumption == \A text \in DOMAIN Usize : Usize[text] \in Nat

Directions == {"forward", "reverse"}

\* Direction::invert.
Invert(dir) == IF dir = "forward" THEN "reverse" ELSE "forward"

\* What the code finds wrong first, "none" when nothing is.
FirstError(errors) ==
  LET wrong == {k \in DOMAIN errors : errors[k] # "none"}
  IN  IF wrong = {} THEN "none" ELSE errors[CHOOSE k \in wrong : \A j \in wrong : k <= j]

----------------------------------------------------------------------------
(***************************************************************************)
(* CodecSettings: bool_arg, int_arg and length_arg.                        *)
(***************************************************************************)
Has(args, word) == <<word>> \in DOMAIN args
Words(args) == {key[1] : key \in {k \in DOMAIN args : Len(k) = 1}}

BoolError(args, word) ==
  IF Has(args, word) /\ args[<<word>>] # <<>> THEN "InvalidArgument" ELSE "none"

IntError(args, word) ==
  CASE ~Has(args, word) -> "none"
    [] Has(args, word) ->
         IF args[<<word>>] = <<>> THEN "MissingArgument"
         ELSE IF args[<<word>>][1] \notin DOMAIN Usize THEN "InvalidArgument" ELSE "none"

IntArg(args, word) == Usize[args[<<word>>][1]]

LengthError(args, least) ==
  LET error == IntError(args, "length")
  IN  IF error = "none" /\ Has(args, "length") /\ IntArg(args, "length") \in 1 .. least - 1
      THEN "InvalidArgument" ELSE error

\* 0 is for None.
Length(args, default) == IF Has(args, "length") THEN IntArg(args, "length") ELSE default

----------------------------------------------------------------------------
(***************************************************************************)
(* The names, whether a codec says that it can be reversed, and the        *)
(* options it lists for --help.                                            *)
(***************************************************************************)
Hexes == {"hex", "base16", "modhex"}
Padded == {"base32", "base32hex", "base64", "url64"}
Compressed == {"deflate", "gzip", "zlib"}
ForwardOnly == {"hash", "checksum", "lf", "swab"}
Names ==
  Hexes \cup Padded \cup Compressed \cup ForwardOnly \cup
  {"ascii85", "bubblebabble", "crlf", "form", "identity", "quotedprintable", "uri", "uuencode",
   "vis", "wrap", "xml"}

DigestSize ==
  [name \in {"md5", "sha1", "sha224", "sha256", "sha384", "sha512", "sha3-224", "sha3-256",
             "sha3-384", "sha3-512", "blake2b", "blake2s", "blake3"} |->
    CASE name = "md5" -> 16
      [] name = "sha1" -> 20
      [] name \in {"sha224", "sha3-224"} -> 28
      [] name \in {"sha256", "sha3-256", "blake2s", "blake3"} -> 32
      [] name \in {"sha384", "sha3-384"} -> 48
      [] name \in {"sha512", "sha3-512", "blake2b"} -> 64]
Sums == {"adler32", "fletcher16", "fletcher32"}
Endianness == {"be", "le"}

VisOptions == {"cstyle", "glob", "nl", "octal", "sp", "space", "tab", "white"}
HashOptions == DOMAIN DigestSize \cup {"length"}

Options(name) ==
  CASE name \in {"hex", "base16", "uri", "form"} -> {"lower", "upper"}
    [] name \in Padded -> {"pad", "nopad"}
    [] name = "ascii85" -> {"bare"}
    [] name \in {"wrap", "quotedprintable", "swab"} -> {"length"}
    [] name = "lf" -> {"empty"}
    [] name = "vis" -> VisOptions
    [] name = "xml" -> {"default", "hex", "html"}
    [] name = "hash" -> HashOptions
    [] name = "checksum" -> Sums
    [] OTHER -> {}

----------------------------------------------------------------------------
(***************************************************************************)
(* What the factories refuse, in the order in which they look.             *)
(***************************************************************************)
PadError(args) ==
  FirstError(<<BoolError(args, "pad"), BoolError(args, "nopad"),
               IF Has(args, "pad") /\ Has(args, "nopad") THEN "IncompatibleParameters"
               ELSE "none">>)

\* hash and checksum want exactly one key but for the ones they know.
OneName(keys) ==
  CASE keys = {} -> "MissingArgument"
    [] Cardinality(keys) = 1 -> "none"
    [] OTHER -> "IncompatibleParameters"
Only(keys) == CHOOSE key \in keys : TRUE

\* TransformFactory::digest of hash: a length that does not fit is found before
\* a name that is not known.
HashError(args) ==
  LET keys == DOMAIN args \ {<<"length">>}
      name == Only(keys)[1]
      long == IF name = "blake2b" THEN 64 ELSE 32
      digest ==
        IF Len(Only(keys)) = 1 /\ name \in {"blake2b", "blake2s"}
        THEN IF Length(args, long) \in 1 .. long THEN "none" ELSE "InvalidArgument"
        ELSE IF Only(keys) = <<"blake3">> THEN "none"
        ELSE IF Has(args, "length") THEN "InvalidArgument"
        ELSE IF Len(Only(keys)) = 1 /\ name \in DOMAIN DigestSize THEN "none"
        ELSE "UnknownArgument"
      before == FirstError(<<IntError(args, "length"), OneName(keys)>>)
  IN  IF before = "none" THEN digest ELSE before

ChecksumError(args) ==
  LET keys == DOMAIN args \ ({<<"length">>} \cup {<<e>> : e \in Endianness})
      before == FirstError(<<IntError(args, "length"), OneName(keys),
                  IF \A e \in Endianness : Has(args, e) THEN "IncompatibleParameters"
                  ELSE "none">>)
  IN  IF before # "none" THEN before
      ELSE IF Only(keys) \in {<<sum>> : sum \in Sums} THEN "none" ELSE "UnknownArgument"

\* Zero is no length to wrap at.
WrapError(args) ==
  FirstError(<<LengthError(args, 1),
               IF LengthError(args, 1) = "none" /\ Length(args, 80) = 0
               THEN "InvalidArgument" ELSE "none">>)

SwabError(args) ==
  FirstError(<<LengthError(args, 1),
               IF LengthError(args, 1) = "none" /\ Length(args, 0) = 0
               THEN "MissingArgument" ELSE "none">>)

\* The others look at one parameter at most.
Refusal(name, args, dir) ==
  CASE name \in ForwardOnly /\ dir = "reverse" -> "ForwardOnly"
    [] name \in Padded -> PadError(args)
    [] name = "hex" /\ dir = "forward" -> BoolError(args, "upper")
    [] name \in {"uri", "form"} /\ dir = "forward" -> BoolError(args, "lower")
    [] name = "ascii85" /\ dir = "forward" -> BoolError(args, "bare")
    [] name = "wrap" -> WrapError(args)
    [] name = "quotedprintable" -> LengthError(args, 4)
    [] name = "swab" /\ dir = "forward" -> SwabError(args)
    [] name = "hash" /\ dir = "forward" -> HashError(args)
    [] name = "checksum" /\ dir = "forward" -> ChecksumError(args)
    [] OTHER -> "none"

----------------------------------------------------------------------------
(***************************************************************************)
(* What they make.                                                         *)
(***************************************************************************)
\* pad is the default, except for url64.
Pads(name, args) ==
  IF name = "url64" THEN Has(args, "pad") ELSE ~Has(args, "nopad")

\* base16 is hex with the one argument upper, whatever its own are; only the
\* encoder of hex looks at them.
HexSettings(name, args, dir, strict) ==
  [name |-> IF name = "hex" /\ dir = "forward" /\ Has(args, "upper") THEN "base16" ELSE name,
   dir |-> dir, pad |-> FALSE, strict |-> strict]

PaddedSettings(name, args, dir, strict) ==
  [name |-> name, dir |-> dir, pad |-> Pads(name, args), strict |-> strict]

\* uri, form, xml and vis look whether a word is there.
EscapeSettings(name, args, dir) ==
  [name |-> name, dir |-> dir, opts |-> Words(args), linelen |-> 0]

QpSettings(args, dir) ==
  [name |-> "quotedprintable", dir |-> dir, opts |-> {}, linelen |-> Length(args, 76)]

FramedSettings(name, args, dir, strict) ==
  [name |-> name, dir |-> dir, strict |-> strict,
   bare |-> name = "ascii85" /\ dir = "forward" /\ Has(args, "bare")]

WrapSettings(args, dir) ==
  IF dir = "forward" THEN [name |-> "wrap", arg |-> Length(args, 80)]
  ELSE [name |-> "-wrap", arg |-> 0]

Digest(args) ==
  LET name == Only({k \in DOMAIN args : k # <<"length">>})[1]
      length == Length(args, DigestSize[name])
  IN  [name |-> "hash", algorithm |-> name, length |-> length,
       chunk |-> IF name = "blake3" THEN 32 ELSE length]

Checksum(args) ==
  LET name == CHOOSE sum \in Sums : Has(args, sum)
  IN  [name |-> IF name # "fletcher32" THEN name
                ELSE IF Has(args, "le") THEN "fletcher32,le" ELSE "fletcher32,be"]

Settings(name, args, dir, strict) ==
  CASE name \in Hexes -> HexSettings(name, args, dir, strict)
    [] name \in Padded -> PaddedSettings(name, args, dir, strict)
    [] name \in {"uri", "form", "xml", "vis"} -> EscapeSettings(name, args, dir)
    [] name = "quotedprintable" -> QpSettings(args, dir)
    [] name \in {"ascii85", "uuencode", "bubblebabble"} -> FramedSettings(name, args, dir, strict)
    [] name = "swab" -> [name |-> name, length |-> Length(args, 0)]
    [] name = "lf" -> [name |-> name, arg |-> Has(args, "empty")]
    [] name = "wrap" -> WrapSettings(args, dir)
    [] name = "crlf" -> [name |-> IF dir = "forward" THEN "crlf" ELSE "-crlf", arg |-> 0]
    [] name = "identity" -> [name |-> name, arg |-> 0]
    [] name = "hash" -> Digest(args)
    [] name = "checksum" -> Checksum(args)
    [] name \in Compressed -> [name |-> name, dir |-> dir]

\* CodecRegistry::create, with the name as a text.
Registered(name) == Len(name) = 1 /\ name[1] \in Names

CreateError(name, args, dir) ==
  IF Registered(name) THEN Refusal(name[1], args, dir) ELSE "UnknownCodec"
=============================================================================
