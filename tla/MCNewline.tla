----------------------------- MODULE MCNewline -----------------------------
(***************************************************************************)
(* Pipelines of newline codecs for TLC.                                    *)
(***************************************************************************)
EXTENDS Pipeline, NewlineCodecs

CONSTANT SourceLimit

Alphabet == {LF, CR, 65}
ShortSources(ch) == UNION {[1 .. n -> Alphabet] : n \in 0 .. SourceLimit}

Use(name, arg) == [name |-> name, arg |-> arg]

Singles ==
  {<<Use("identity", 0)>>, <<Use("lf", TRUE)>>, <<Use("lf", FALSE)>>, <<Use("crlf", 0)>>,
   <<Use("-crlf", 0)>>, <<Use("wrap", 3)>>, <<Use("-wrap", 0)>>}

\* Chains of several stages, where a codec writes into slices of bufsize.
Several ==
  {<<Use("-wrap", 0), Use("lf", FALSE)>>, <<Use("lf", FALSE), Use("wrap", 4)>>,
   <<Use("wrap", 4), Use("lf", TRUE), Use("-wrap", 0)>>}

NewlineChains == Singles \cup Several

CrlfAlone == {<<Use("crlf", 0)>>}
=============================================================================
