------------------------------- MODULE Codec -------------------------------
(***************************************************************************)
(* The trait Codec and its Status (src/src/lib/codec/mod.rs): what one     *)
(* call of transform answers, and what the reader that drives the codec    *)
(* needs of every answer.                                                  *)
(***************************************************************************)
EXTENDS Integers, Sequences

Kinds == {"Ok", "SeqError", "BufError", "StreamEnd"}

\* One answer of transform: the codec afterwards, the status and its two
\* numbers.  The second one is the length of `made'.  "Err" is a Result::Err
\* and "Panic" an index out of the slices.
Ans(codec, kind, took, made) ==
  [codec |-> codec, kind |-> kind, took |-> took, made |-> made]

Smaller(a, b) == IF a < b THEN a ELSE b
Firsts(in, n) == SubSeq(in, 1, Smaller(n, Len(in)))
Skip(in, n) == SubSeq(in, n + 1, Len(in))

\* The meaning of an input that a decoder must reject: no sequence of bytes.
Malformed == <<-1>>

\* What a transform hands out in a cell of the output it never wrote: whatever
\* the caller's slice held there.
Unwritten == 256

\* helpers/codecs.rs: StatelessEncoder, for functions that only look at the
\* slices.
StatelessAnswer(s, in, fin, took, made) ==
  Ans(s, IF fin /\ took = Len(in) THEN "StreamEnd" ELSE "Ok", took, made)

(***************************************************************************)
(* The contract.  A codec that is shown `visible' bytes and `room' bytes   *)
(* of output answers within those slices.  Before the end of its input it  *)
(* consumes something once it is shown `need' bytes.  At the end, when it  *)
(* has nothing more to produce, Ok says that it took everything, and       *)
(* SeqError that what is left is an incomplete sequence.                   *)
(***************************************************************************)
Contract(kind, c, p, visible, room, need, refusals, eof) ==
  /\ kind \in Kinds
  /\ c \in 0 .. visible
  /\ p \in 0 .. room
  /\ kind = "BufError" => <<c, p>> \in refusals
  /\ kind # "BufError" /\ ~eof /\ visible >= need => c > 0
  /\ eof /\ p = 0 =>
       /\ kind = "Ok" => c = visible
       /\ kind = "SeqError" => c = 0
=============================================================================
