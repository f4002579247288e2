---------------------------- MODULE EscapeCodecs ----------------------------
(***************************************************************************)
(* The codecs that write some bytes as escapes: uri and form,              *)
(* quotedprintable, xml, and vis (src/src/lib/codec/codecs/).  Encoders    *)
(* are one loop that writes a byte's code as long as it surely fits;       *)
(* decoders are one loop that takes a unit, a plain byte or a whole        *)
(* escape, as long as there is room for what it stands for.  A codec is    *)
(* the record of its settings: name, dir, opts and linelen, the last for   *)
(* quotedprintable, which keeps the column in curline.                     *)
(***************************************************************************)
EXTENDS Codec, Sequences, SequencesExt

LF == 10
HexDigit(n, upper) == IF n < 10 THEN 48 + n ELSE IF upper THEN 55 + n ELSE 87 + n
HexPair(x, upper) == <<HexDigit(x \div 16, upper), HexDigit(x % 16, upper)>>

\* The tables REV: -1 for a character that is no digit.  The one of
\* quotedprintable has no lower case.
HexValue(c, lower) ==
  CASE c \in 48 .. 57 -> c - 48
    [] c \in 65 .. 70 -> c - 55
    [] c \in 97 .. 102 /\ lower -> c - 87
    [] OTHER -> -1

\* x ^ bit, for a single bit.
Flip(x, bit) == IF (x \div bit) % 2 = 1 THEN x - bit ELSE x + bit

----------------------------------------------------------------------------
(***************************************************************************)
(* The two loops.                                                          *)
(***************************************************************************)

\* quotedprintable: a code that does not fit into the line comes behind a soft
\* line break.  A line length of 0 disables wrapping.
Breaks(linelen, column, code) == linelen > 0 /\ Len(code) + column + 1 > linelen

\* while i < maxin && j < max: the code of byte i, <<>> when the byte after it
\* must be seen first.
EscapeScan(in, max, linelen, column, codes) ==
  FoldLeft(
    LAMBDA r, i :
      LET code == codes[i]
          breaks == Breaks(linelen, r.column, code)
      IN  IF r.waits \/ Len(r.made) >= max THEN r
          ELSE IF code = <<>> THEN [r EXCEPT !.waits = TRUE]
          ELSE [r EXCEPT !.took = i,
                         !.made = @ \o (IF breaks THEN <<61, LF>> ELSE <<>>) \o code,
                         !.column = (IF breaks THEN 0 ELSE @) + Len(code)],
    [took |-> 0, made |-> <<>>, column |-> column, waits |-> FALSE],
    [i \in 1 .. Len(in) |-> i])

\* What a decoder finds at byte i: a unit of n bytes and its meaning, or that
\* more bytes must come, or that none can help.
Unit(n, bytes) == [is |-> "unit", length |-> n, bytes |-> bytes]
More == [is |-> "more"]
Bad == [is |-> "bad"]

\* while let Some((i, x)) = iter.next(), with the check of the room left.
UnescapeScan(s, in, max, units) ==
  LET put(bytes, r) == [r EXCEPT !.made = bytes \o r.made]
      from[i \in 1 .. Len(in) + 1, j \in 0 .. 4 * Len(in) + 4] ==
        IF i > Len(in) THEN Ans(s, "Ok", Len(in), <<>>)
        ELSE IF j >= max THEN Ans(s, "Ok", i - 1, <<>>)
        ELSE LET u == units[i]
             IN  CASE u.is = "more" -> Ans(s, "SeqError", i - 1, <<>>)
                   [] u.is = "bad" -> Ans(s, "Err", 0, <<>>)
                   [] u.is = "unit" -> put(u.bytes, from[i + u.length, j + Len(u.bytes)])
  IN  from[1, 0]

\* A pair of hex digits behind byte i.
HexUnit(in, i, lower) ==
  LET high == HexValue(in[i + 1], lower)
      low == HexValue(in[i + 2], lower)
  IN  IF i + 2 > Len(in) THEN More
      ELSE IF high = -1 \/ low = -1 THEN Bad
      ELSE Unit(3, <<high * 16 + low>>)

----------------------------------------------------------------------------
(***************************************************************************)
(* uri and form.                                                           *)
(***************************************************************************)
Unreserved == {45, 46, 95, 126} \cup 48 .. 57 \cup 65 .. 90 \cup 97 .. 122

UriCode(s, x) ==
  IF x \in Unreserved THEN <<x>>
  ELSE IF x = 32 /\ s.name = "form" THEN <<43>>
  ELSE <<37>> \o HexPair(x, "lower" \notin s.opts)

UriEncode(s, in, room, fin) ==
  LET r == EscapeScan(in, room - 3, 0, 0, [i \in DOMAIN in |-> UriCode(s, in[i])])
  IN  StatelessAnswer(s, in, fin, r.took, r.made)

UriDecode(s, in, room) ==
  UnescapeScan(s, in, room, [i \in DOMAIN in |->
    IF in[i] = 37 THEN HexUnit(in, i, TRUE)
    ELSE Unit(1, <<IF in[i] = 43 /\ s.name = "form" THEN 32 ELSE in[i]>>)])

----------------------------------------------------------------------------
(***************************************************************************)
(* quotedprintable.                                                        *)
(***************************************************************************)
QpPlain == 32 .. 60 \cup 62 .. 126

QpCode(x) == IF x \in QpPlain THEN <<x>> ELSE <<61>> \o HexPair(x, TRUE)

QpEncode(s, in, room) ==
  LET r == EscapeScan(in, room - 5, s.linelen, s.curline, [i \in DOMAIN in |-> QpCode(in[i])])
  IN  Ans([s EXCEPT !.curline = r.column], "Ok", r.took, r.made)

\* = and a newline is a unit that means nothing.
QpDecode(s, in, room) ==
  UnescapeScan(s, in, room, [i \in DOMAIN in |->
    IF in[i] # 61 THEN Unit(1, <<in[i]>>)
    ELSE IF i < Len(in) /\ in[i + 1] = LF THEN Unit(2, <<>>)
    ELSE HexUnit(in, i, FALSE)])

----------------------------------------------------------------------------
(***************************************************************************)
(* xml: character, entity, and the spellings DEFAULT, HTML and HEX.        *)
(***************************************************************************)
Named ==
  {<<60, <<108, 116>> >>, <<62, <<103, 116>> >>, <<38, <<97, 109, 112>> >>,
   <<39, <<97, 112, 111, 115>> >>, <<34, <<113, 117, 111, 116>> >>}

XmlCode(s, x) ==
  LET entity == {e \in Named : e[1] = x}
      named == (CHOOSE e \in entity : TRUE)[2]
      hex == <<35, 120>> \o HexPair(x, FALSE)
  IN  IF entity = {} THEN <<x>>
      ELSE <<38>> \o (IF "hex" \in s.opts \/ ("html" \in s.opts /\ x = 39) THEN hex ELSE named)
                  \o <<59>>

XmlEncode(s, in, room, fin) ==
  LET r == EscapeScan(in, room - 6, 0, 0, [i \in DOMAIN in |-> XmlCode(s, in[i])])
  IN  StatelessAnswer(s, in, fin, r.took, r.made)

\* char::from_u32 and encode_utf8.
Utf8(code) ==
  LET tail(n) == 128 + ((code \div 64 ^ n) % 64)
  IN  CASE code < 128 -> <<code>>
        [] code \in 128 .. 2047 -> <<192 + (code \div 64), tail(0)>>
        [] code \in 2048 .. 65535 -> <<224 + (code \div 4096), tail(1), tail(0)>>
        [] code > 65535 -> <<240 + (code \div 262144), tail(2), tail(1), tail(0)>>
Scalar(code) == code < 55296 \/ (code > 57343 /\ code < 1114112)

\* process_char: digits of some radix, at most as many as 32 bits surely hold,
\* after a + if there is one.
Number(text, radix) ==
  LET digits == IF text # <<>> /\ text[1] = 43 THEN Skip(text, 1) ELSE text
      value == FoldLeft(LAMBDA n, c : n * radix + HexValue(c, TRUE), 0, digits)
      valid == digits # <<>> /\ \A i \in DOMAIN digits : HexValue(digits[i], TRUE) \in 0 .. radix - 1
  IN  IF valid /\ Scalar(value) THEN Utf8(value) ELSE <<>>

\* What stands for the text between & and ;, <<>> when nothing does.
Entity(text) ==
  LET meant == {e \in Named : e[2] = text}
  IN  CASE Len(text) < 2 -> <<>>
        [] Len(text) >= 2 /\ text[1] = 35 ->
             IF text[2] \in {120, 88} THEN Number(Skip(text, 2), 16) ELSE Number(Skip(text, 1), 10)
        [] OTHER -> IF meant = {} THEN <<>> ELSE <<(CHOOSE e \in meant : TRUE)[1]>>

\* A slip: to reject an entity whose end is not there yet.
XmlUnitNow(in, i, fin) ==
  LET ends == {k \in i + 1 .. Len(in) : in[k] = 59}
      end == CHOOSE k \in ends : \A other \in ends : k <= other
      stands == Entity(SubSeq(in, i + 1, end - 1))
  IN  IF in[i] # 38 THEN Unit(1, <<in[i]>>)
      ELSE IF ends = {} THEN Bad
      ELSE IF stands = <<>> THEN Bad ELSE Unit(end - i + 1, stands)

XmlUnit(in, i, fin) ==
  LET ends == {k \in i + 1 .. Len(in) : in[k] = 59}
      end == CHOOSE k \in ends : \A other \in ends : k <= other
      stands == Entity(SubSeq(in, i + 1, end - 1))
  IN  IF in[i] # 38 THEN Unit(1, <<in[i]>>)
      ELSE IF ends = {} THEN IF fin THEN Bad ELSE More
      ELSE IF stands = <<>> THEN Bad ELSE Unit(end - i + 1, stands)

\* The subtraction from dst.len() wraps around in a release build.
XmlDecode(s, in, room, fin) ==
  LET max == IF room < 4 THEN 4 * Len(in) + 5 ELSE room - 4
      r == UnescapeScan(s, in, max, [i \in DOMAIN in |-> XmlUnit(in, i, fin)])
  IN  IF Len(r.made) > room THEN Ans(s, "Panic", 0, <<>>) ELSE r

----------------------------------------------------------------------------
(***************************************************************************)
(* vis.                                                                    *)
(***************************************************************************)
Octal == 48 .. 55
Glob == {35, 42, 63, 91}
Backslash == 92

\* The letter that follows the backslash for a character in C style.
CLetter == [c \in 7 .. 13 |-> <<97, 98, 116, 110, 118, 102, 114>>[c - 6]]

\* Encoder::encode.
VisEscape(c, octal) ==
  <<Backslash>> \o
  (CASE octal \/ c \in {32, 160} -> <<48 + (c \div 64), 48 + ((c \div 8) % 8), 48 + (c % 8)>>
     [] ~octal /\ c < 128 /\ c # 32 -> <<94, Flip(c, 64)>>
     [] ~octal /\ c \in 128 .. 159 \cup {255} -> <<77, 94, Flip(c - 128, 64)>>
     [] ~octal /\ c \in 161 .. 254 -> <<77, 45, c - 128>>)

\* build_table: white space is left alone unless an option asks for it.
VisAsks(s, c) ==
  CASE c = LF -> s.opts \cap {"nl", "white"} # {}
    [] c = 32 -> s.opts \cap {"sp", "space", "white"} # {}
    [] c = 9 -> s.opts \cap {"tab", "white"} # {}
    [] c \in Glob -> "glob" \in s.opts
    [] OTHER -> c \notin 33 .. 126

VisTable(s, c) ==
  CASE c = Backslash -> <<Backslash, Backslash>>
    [] c # Backslash /\ ~VisAsks(s, c) -> <<c>>
    [] c # Backslash /\ VisAsks(s, c) ->
         CASE c \in Glob -> VisEscape(c, TRUE)
           [] c \in DOMAIN CLetter /\ "cstyle" \in s.opts -> <<Backslash, CLetter[c]>>
           [] c = 32 /\ "cstyle" \in s.opts -> <<Backslash, 115>>
           [] c = 0 /\ "cstyle" \in s.opts -> <<Backslash, 48>>
           [] OTHER -> VisEscape(c, "octal" \in s.opts)

\* A NUL in C style must not run into an octal digit that follows it.
VisCode(s, in, i, fin) ==
  CASE in[i] # 0 \/ "cstyle" \notin s.opts -> VisTable(s, in[i])
    [] in[i] = 0 /\ "cstyle" \in s.opts ->
         IF i < Len(in) THEN IF in[i + 1] \in Octal THEN <<Backslash, 48, 48, 48>>
                             ELSE <<Backslash, 48>>
         ELSE IF fin THEN <<Backslash, 48>> ELSE <<>>

VisEncode(s, in, room, fin) ==
  LET r == EscapeScan(in, room - 4, 0, 0, [i \in DOMAIN in |-> VisCode(s, in, i, fin)])
  IN  Ans(s, IF r.waits THEN "SeqError" ELSE "Ok", r.took, r.made)

\* handle_escape.  The text begins behind the backslash.
VisMeta(text) ==
  IF Len(text) = 1 THEN More
  ELSE IF text[2] \notin {45, 94} THEN Bad
  ELSE IF Len(text) = 2 THEN More
  ELSE Unit(4, <<IF text[2] = 94 THEN Flip(Flip(text[3], 64), 128)
                 ELSE IF text[3] < 128 THEN text[3] + 128 ELSE text[3]>>)

VisOctal(text) ==
  IF Len(text) < 3 THEN More
  ELSE IF {text[2], text[3]} \subseteq Octal
  THEN Unit(4, <<((text[1] - 48) * 64 + (text[2] - 48) * 8 + text[3] - 48) % 256>>)
  ELSE Bad

\* A slip: to take the end of the window for the end of the input.
VisNulNow(text, fin) ==
  IF Len(text) = 1 THEN Unit(2, <<0>>)
  ELSE IF text[2] \in Octal THEN VisOctal(text)
  ELSE IF text[2] = Backslash THEN Unit(2, <<0>>)
  ELSE Unit(3, <<0, text[2]>>)

VisNul(text, fin) ==
  IF Len(text) = 1 THEN IF fin THEN Unit(2, <<0>>) ELSE More
  ELSE IF text[2] \in Octal THEN VisOctal(text)
  ELSE IF text[2] = Backslash THEN Unit(2, <<0>>)
  ELSE Unit(3, <<0, text[2]>>)

VisUnit(text, fin) ==
  LET letters == {c \in DOMAIN CLetter : text # <<>> /\ CLetter[c] = text[1]}
  IN  CASE text = <<>> -> More
        [] text # <<>> /\ text[1] = 94 ->
             IF Len(text) = 1 THEN More ELSE Unit(3, <<Flip(text[2], 64)>>)
        [] text # <<>> /\ text[1] = 77 -> VisMeta(text)
        [] text # <<>> /\ text[1] = 48 -> VisNul(text, fin)
        [] text # <<>> /\ text[1] \in Octal \ {48} -> VisOctal(text)
        [] text # <<>> /\ text[1] = Backslash -> Unit(2, <<Backslash>>)
        [] text # <<>> /\ text[1] = 115 -> Unit(2, <<32>>)
        [] OTHER -> IF letters = {} THEN Bad ELSE Unit(2, <<CHOOSE c \in letters : TRUE>>)

VisDecode(s, in, room, fin) ==
  UnescapeScan(s, in, room - 1, [i \in DOMAIN in |->
    IF in[i] = Backslash THEN VisUnit(Skip(in, i), fin) ELSE Unit(1, <<in[i]>>)])

----------------------------------------------------------------------------
(***************************************************************************)
(* The factories and the trait.                                            *)
(***************************************************************************)
EscapeStart(settings) ==
  [name |-> settings.name, dir |-> settings.dir, opts |-> settings.opts,
   linelen |-> settings.linelen, curline |-> 0]

EscapeBufferSize(s) ==
  IF s.dir = "reverse" THEN 1
  ELSE CASE s.name \in {"uri", "form"} -> 3
         [] s.name = "quotedprintable" -> 5
         [] s.name = "xml" -> 6
         [] s.name = "vis" -> 4

EscapeTransform(s, in, room, fin) ==
  IF s.dir = "forward"
  THEN CASE s.name \in {"uri", "form"} -> UriEncode(s, in, room, fin)
         [] s.name = "quotedprintable" -> QpEncode(s, in, room)
         [] s.name = "xml" -> XmlEncode(s, in, room, fin)
         [] s.name = "vis" -> VisEncode(s, in, room, fin)
  ELSE CASE s.name \in {"uri", "form"} -> UriDecode(s, in, room)
         [] s.name = "quotedprintable" -> QpDecode(s, in, room)
         [] s.name = "xml" -> XmlDecode(s, in, room, fin)
         [] s.name = "vis" -> VisDecode(s, in, room, fin)

(***************************************************************************)
(* What the codecs make of all the rest of their input: the answer of a    *)
(* single call that sees it and has more than enough room.                 *)
(***************************************************************************)
EscapeMeaning(s, in) ==
  LET whole == EscapeTransform(s, in, 6 * Len(in) + 7, TRUE)
  IN  IF whole.kind \in {"Ok", "StreamEnd"} /\ whole.took = Len(in) THEN whole.made
      ELSE Malformed
=============================================================================
