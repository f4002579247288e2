------------------------------ MODULE MCCodecs ------------------------------
(***************************************************************************)
(* Pipelines of block codecs and of escaping codecs for TLC.               *)
(***************************************************************************)
EXTENDS Pipeline, BlockCodecs, EscapeCodecs

CONSTANT SourceLimit    (* bound on the length of the inputs *)

Escaping == {"uri", "form", "quotedprintable", "xml", "vis"}
MCStart(s) == IF s.name \in Escaping THEN EscapeStart(s) ELSE BlockStart(s)
MCBufferSize(s) == IF s.name \in Escaping THEN EscapeBufferSize(s) ELSE BlockBufferSize(s)
MCTransform(s, in, room, fin) ==
  IF s.name \in Escaping THEN EscapeTransform(s, in, room, fin) ELSE BlockTransform(s, in, room, fin)
MCMeaning(s, in) == IF s.name \in Escaping THEN EscapeMeaning(s, in) ELSE BlockMeaning(s, in)

----------------------------------------------------------------------------
(***************************************************************************)
(* Chains of block codecs, with an input of each length, and decoders of   *)
(* texts with characters that are no digits or with newlines in between.   *)
(***************************************************************************)
To(name, pad) == [name |-> name, dir |-> "forward", pad |-> pad, strict |-> TRUE]
From(name, pad, strict) == [name |-> name, dir |-> "reverse", pad |-> pad, strict |-> strict]
Swab(length) == [name |-> "swab", length |-> length]
There(base, pad, strict) == <<To(base, pad), From(base, pad, strict)>>

BlocksAndBack ==
  {There("base64", TRUE, TRUE), There("url64", FALSE, FALSE), There("base32", TRUE, TRUE),
   There("base32hex", FALSE, TRUE), There("modhex", FALSE, TRUE),
   <<To("base16", FALSE), From("hex", FALSE, FALSE)>>}
\* The other padding than the decoder's default.
Variants ==
  {<<To("base64", FALSE), From("base64", TRUE, TRUE)>>, <<To("url64", TRUE), From("url64", FALSE, TRUE)>>}
SwabTwice == {<<Swab(2), Swab(2)>>}
StrictHex == {<<From("hex", FALSE, TRUE)>>, <<From("modhex", FALSE, TRUE)>>}
StrictBase64 == {<<From("base64", TRUE, TRUE)>>}
Lenient ==
  {<<From("base64", TRUE, FALSE)>>, <<From("url64", FALSE, FALSE)>>,
   <<From("hex", FALSE, FALSE)>>}
BlockChains == BlocksAndBack \cup SwabTwice \cup StrictHex \cup Lenient

\* One input of each length, with bytes whose bits tell them apart.
Counting(n) == [i \in 1 .. n |-> (i * 73) % 256]

\* Encoded inputs with newlines put anywhere among the first characters.
WithNewlines(text, at) ==
  FlattenSeq([i \in DOMAIN text |-> IF i \in at THEN <<10, text[i]>> ELSE <<text[i]>>])
Folded(ch) ==
  {WithNewlines(EncodeMeaning(ch[1], Counting(n)), at) \o Repeat(10, after) :
    n \in 0 .. SourceLimit \div 3, at \in SUBSET {2, 4, 5}, after \in {0, 2}}

BlockSources(ch) ==
  CASE ch \in StrictHex ->
         UNION {[1 .. 2 * n -> {99, 102, 33}] : n \in 0 .. SourceLimit \div 6}
    [] ch \in Lenient -> Folded(ch)
    [] ch \in BlocksAndBack \cup Variants -> {Counting(n) : n \in 0 .. SourceLimit}
    [] ch \in SwabTwice -> {Counting(n) : n \in {m \in 0 .. SourceLimit : m % 2 = 0}}

Base64Texts(ch) == [1 .. SourceLimit -> {66, 65, 33}]

----------------------------------------------------------------------------
(***************************************************************************)
(* Chains of escaping codecs, with bytes that each of them writes in a way *)
(* of its own, and decoders of texts with escapes that end early, or that  *)
(* mean nothing, or both.                                                  *)
(***************************************************************************)
Use(name, dir, opts, linelen) == [name |-> name, dir |-> dir, opts |-> opts, linelen |-> linelen]
Escape(name, opts) == <<Use(name, "forward", opts, 7), Use(name, "reverse", {}, 0)>>

EscapesAndBack ==
  {Escape(name, {}) : name \in Escaping}
    \cup {Escape("vis", {"cstyle", "white"}), Escape("xml", {"html"}), Escape("vis", {"octal", "glob"})}
Unescapers == {<<Use(name, "reverse", {}, 0)>> : name \in {"uri", "xml", "vis"}}

Pieces(name) ==
  CASE name = "uri" -> {<<37>>, <<52>>, <<37, 52, 49>>, <<33>>}
    [] name = "xml" -> {<<38, 108, 116, 59>>, <<38>>, <<59>>, <<38, 35, 120, 101, 57, 59>>, <<65>>}
    [] name = "vis" -> {<<92>>, <<92, 48>>, <<48, 48>>, <<94>>, <<77, 45>>, <<65>>}

Interesting(s) ==
  CASE s.name \in {"uri", "form"} -> {32, 43, 65, 200}
    [] s.name = "quotedprintable" -> {10, 61, 65}
    [] s.name = "xml" -> {38, 39, 65}
    [] s.name = "vis" /\ s.opts = {} -> {0, 92, 160, 255}
    [] s.name = "vis" /\ "cstyle" \in s.opts -> {0, 7, 32, 49}
    [] s.name = "vis" /\ "octal" \in s.opts -> {0, 42, 92, 160}

\* Texts of up to four pieces; of up to three where the pieces are many.
Texts(pieces) ==
  LET longest == IF Cardinality(pieces) > 3 THEN SourceLimit \div 4 ELSE SourceLimit \div 3
  IN  {FlattenSeq(t) : t \in UNION {[1 .. n -> pieces] : n \in 0 .. longest}}

----------------------------------------------------------------------------
MCChains == BlockChains \cup EscapesAndBack \cup Unescapers
MCSources(ch) ==
  CASE ch \in BlockChains -> BlockSources(ch)
    [] ch \in EscapesAndBack -> Texts({<<x>> : x \in Interesting(ch[1])})
    [] ch \in Unescapers -> Texts(Pieces(ch[1].name))
=============================================================================
