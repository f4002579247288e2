--------------------------- MODULE NewlineCodecs ---------------------------
(***************************************************************************)
(* The codecs that touch line endings: lf, crlf, wrap, and identity, which *)
(* touches nothing (src/src/lib/codec/codecs/).  Each transform gives one  *)
(* answer of module Codec for the struct `s', the input slice, the length  *)
(* of the output slice and whether the flush state is Finish.              *)
(***************************************************************************)
EXTENDS Codec, Sequences, SequencesExt, FiniteSetsExt

LF == 10
CR == 13

\* What a transform leaves in a cell of the output it never wrote: whatever
\* the caller's slice held there.
Stale == 256

----------------------------------------------------------------------------
Identity(s, in, room, fin) ==
  LET n == Smaller(Len(in), room)
  IN  StatelessAnswer(s, in, fin, n, Firsts(in, n))

----------------------------------------------------------------------------
(***************************************************************************)
(* lf: hold back the last byte until the end shows whether it was a        *)
(* newline.                                                                *)
(***************************************************************************)
LfStart(empty) == [name |-> "lf", last |-> <<>>, done |-> FALSE, empty |-> empty]

\* At the very end: the held byte, and a newline if it is none.
LfFinish(s) ==
  LET newline == ~(s.last = <<LF>> \/ (s.last = <<>> /\ s.empty))
  IN  Ans([s EXCEPT !.done = TRUE], "Ok", 0, s.last \o IF newline THEN <<LF>> ELSE <<>>)

\* A slip: to forget the held byte when more comes.
LfForgets(s, in, room) ==
  LET n == Smaller(Len(in) - 1, room - Len(s.last) - 1)
  IN  Ans([s EXCEPT !.last = <<in[n + 1]>>], "Ok", n + 1, Firsts(in, n))

\* The held byte and what fits behind it; the byte after that is held next.
LfMore(s, in, room) ==
  LET n == Smaller(Len(in) - 1, room - Len(s.last) - 1)
  IN  Ans([s EXCEPT !.last = <<in[n + 1]>>], "Ok", n + 1, s.last \o Firsts(in, n))

LfTransform(s, in, room, fin) ==
  CASE s.done -> Ans(s, "StreamEnd", 0, <<>>)
    [] ~s.done /\ room < 2 -> Ans(s, "BufError", 0, <<>>)
    [] ~s.done /\ room >= 2 /\ in = <<>> /\ ~fin -> Ans(s, "SeqError", 0, <<>>)
    [] ~s.done /\ room >= 2 /\ in = <<>> /\ fin -> LfFinish(s)
    [] ~s.done /\ room >= 2 /\ in # <<>> -> LfMore(s, in, room)

----------------------------------------------------------------------------
(***************************************************************************)
(* crlf.                                                                   *)
(***************************************************************************)
CrlfExpand(in) == FlattenSeq([i \in 1 .. Len(in) |-> IF in[i] = LF THEN <<CR, LF>> ELSE <<in[i]>>])

\* forward_transform says it took what surely fits but writes all of the
\* input.
CrlfForward(s, in, room, fin) ==
  LET made == CrlfExpand(in)
      took == Smaller(Len(in), room \div 2)
  IN  IF Len(made) > room THEN Ans(s, "Panic", 0, <<>>)
      ELSE StatelessAnswer(s, in, fin, took, made)

\* The scan from byte i + 1 on, over at most max bytes: a CR waits for the
\* byte that follows it.
CrlfScan(in, max, fin) ==
  LET put(bytes, r) == [r EXCEPT !.made = bytes \o r.made]
      stop(kind, took, bytes) == [kind |-> kind, took |-> took, made |-> bytes]
      from[i \in 0 .. max] ==
        IF i = max THEN stop("Ok", max, <<>>)
        ELSE IF in[i + 1] # CR THEN put(<<in[i + 1]>>, from[i + 1])
        ELSE IF i + 1 = max
             THEN IF fin THEN stop("StreamEnd", max, <<CR>>) ELSE stop("SeqError", i, <<>>)
        ELSE IF in[i + 2] = LF THEN put(<<LF>>, from[i + 2])
        ELSE IF in[i + 2] = CR THEN put(<<CR>>, from[i + 1])
        ELSE put(<<CR, in[i + 2]>>, from[i + 2])
  IN  from[0]

\* The CR at the very end is written as far behind the output's end as the
\* output is long, so that after other output its cell is never written.
CrlfDecode(s, in, room, fin) ==
  LET r == CrlfScan(in, Smaller(Len(in), room - 2), fin)
      before == Len(r.made) - 1
  IN  IF r.kind # "StreamEnd" \/ before = 0 THEN Ans(s, r.kind, r.took, r.made)
      ELSE IF 2 * before >= room THEN Ans(s, "Panic", 0, <<>>)
      ELSE Ans(s, r.kind, r.took, [r.made EXCEPT ![before + 1] = Stale])

----------------------------------------------------------------------------
(***************************************************************************)
(* wrap.                                                                   *)
(***************************************************************************)
Unwrapped(in) == FlattenSeq([i \in 1 .. Len(in) |-> IF in[i] = LF THEN <<>> ELSE <<in[i]>>])

WrapStart(linelen) == [name |-> "wrap", curline |-> 0, linelen |-> linelen]

\* process_chunk and the loop around it, for one byte at column `col'.
WrapByte(linelen, acc, byte) ==
  CASE byte = LF /\ acc.col # 0 -> [made |-> Append(acc.made, LF), col |-> 0]
    [] byte = LF /\ acc.col = 0 -> acc
    [] byte # LF /\ acc.col + 1 = linelen -> [made |-> acc.made \o <<byte, LF>>, col |-> 0]
    [] byte # LF /\ acc.col + 1 < linelen -> [made |-> Append(acc.made, byte), col |-> acc.col + 1]

WrapLines(linelen, col, in) ==
  LET lines[n \in 0 .. Len(in)] ==
        IF n = 0 THEN [made |-> <<>>, col |-> col]
        ELSE WrapByte(linelen, lines[n - 1], in[n])
  IN  lines[Len(in)]

\* A slip: to keep no room for the newlines.
WrapAll(linelen, in, room) == Smaller(Len(in), room)

\* The subtraction from dst.len() wraps around in a release build, to more
\* than there is input.
WrapMax(linelen, in, room) ==
  LET reserve == ((room + linelen - 1) \div linelen) * 2
  IN  IF reserve > room THEN Len(in) ELSE Smaller(Len(in), room - reserve)

\* process_chunk slices one byte more than it copies.
WrapTransform(s, in, room) ==
  LET max == WrapMax(s.linelen, in, room)
      r == WrapLines(s.linelen, s.curline, Firsts(in, max))
      slack == IF max > 0 /\ r.col # 0 THEN 1 ELSE 0
  IN  IF Len(r.made) + slack > room THEN Ans(s, "Panic", 0, <<>>)
      ELSE Ans([s EXCEPT !.curline = r.col], "Ok", max, r.made)

Unwrap(s, in, room) ==
  LET max == Smaller(Len(in), room)
  IN  Ans(s, "Ok", max, Unwrapped(Firsts(in, max)))

----------------------------------------------------------------------------
(***************************************************************************)
(* The factories and the trait.  Settings are a record with the name of    *)
(* the codec, its direction folded into the name, and its argument.        *)
(***************************************************************************)
NewlineStart(settings) ==
  CASE settings.name = "lf" -> LfStart(settings.arg)
    [] settings.name = "wrap" -> WrapStart(settings.arg)
    [] OTHER -> [name |-> settings.name]

NewlineBufferSize(s) ==
  CASE s.name \in {"lf", "wrap"} -> 2
    [] s.name \in {"crlf", "-crlf"} -> 3
    [] s.name \in {"identity", "-wrap"} -> 1

NewlineTransform(s, in, room, fin) ==
  CASE s.name = "identity" -> Identity(s, in, room, fin)
    [] s.name = "lf" -> LfTransform(s, in, room, fin)
    [] s.name = "crlf" -> CrlfForward(s, in, room, fin)
    [] s.name = "-crlf" -> CrlfDecode(s, in, room, fin)
    [] s.name = "wrap" -> WrapTransform(s, in, room)
    [] s.name = "-wrap" -> Unwrap(s, in, room)

----------------------------------------------------------------------------
(***************************************************************************)
(* What the codecs make of all the rest of their input, without buffers.   *)
(***************************************************************************)
\* After its end nothing can come any more.
LfMeaning(s, in) ==
  LET left == s.last \o in
  IN  IF s.done THEN IF in = <<>> THEN <<>> ELSE Malformed
      ELSE IF left = <<>> THEN IF s.empty THEN <<>> ELSE <<LF>>
      ELSE IF Last(left) = LF THEN left ELSE Append(left, LF)

\* A CR that an LF follows goes.
UncrlfMeaning(in) ==
  FlattenSeq([i \in 1 .. Len(in) |->
    IF in[i] = CR /\ i < Len(in) /\ in[i + 1] = LF THEN <<>> ELSE <<in[i]>>])

\* A byte's column is its distance from the last newline before it, or from
\* `first' places in front of the input.
Column(first, in, i) ==
  i - 1 - Max({-first} \cup {j \in 1 .. i - 1 : in[j] = LF})

WrapMeaning(s, in) ==
  LET column(i) == Column(s.curline, in, i)
  IN  FlattenSeq([i \in 1 .. Len(in) |->
        IF in[i] = LF THEN IF column(i) % s.linelen = 0 THEN <<>> ELSE <<LF>>
        ELSE IF (column(i) + 1) % s.linelen = 0 THEN <<in[i], LF>>
        ELSE <<in[i]>>])

NewlineMeaning(s, in) ==
  CASE s.name = "identity" -> in
    [] s.name = "lf" -> LfMeaning(s, in)
    [] s.name = "crlf" -> CrlfExpand(in)
    [] s.name = "-crlf" -> UncrlfMeaning(in)
    [] s.name = "wrap" -> WrapMeaning(s, in)
    [] s.name = "-wrap" -> Unwrapped(in)
=============================================================================
