---------------------------- MODULE CodecReader ----------------------------
(***************************************************************************)
(* CodecReader::read (src/src/lib/codec/mod.rs), the loop that drives      *)
(* every codec of muter: it pulls bytes from an upstream reader into a     *)
(* window `buf[..off]', shows the window to the codec, drops what the      *)
(* codec consumed with memmove, and decides whether to ask for more input, *)
(* to return data, or to fail.                                             *)
(*                                                                         *)
(* Bytes are abstracted to their position in the source: the n-th byte the *)
(* upstream reader delivers is the number n, and 0 is the zero byte a      *)
(* fresh buffer is filled with.  The codec is any codec that keeps the     *)
(* Contract of module Codec; the upstream reader delivers the source in  *)
(* pieces of any size and may fail; the caller repeats reads the way       *)
(* io::copy and BufReader do: until end of file or an error other than     *)
(* Interrupted.                                                            *)
(***************************************************************************)
EXTENDS Codec

CONSTANTS
  BufSize,          (* bufsize: the length of CodecReader.buf              *)
  SourceLen,        (* number of bytes upstream delivers before its EOF    *)
  DstSizes,         (* lengths of the slices the caller reads into         *)
  CodecBufferSize,  (* codec.buffer_size()                                 *)
  Need,             (* a codec shown Need bytes consumes at least one      *)
  Refusals,         (* the <<consumed, produced>> a BufError may carry     *)
  OutLimit          (* bound on the bytes the codec produces in all        *)

ASSUME ReaderAssumption ==
  /\ BufSize \in Nat
  /\ SourceLen \in Nat
  /\ DstSizes \subseteq Nat
  /\ CodecBufferSize \in Nat \ {0}
  /\ Need \in Nat \ {0}
  /\ Refusals \subseteq Nat \X Nat
  /\ OutLimit \in Nat

VARIABLES
  pc,       (* where the read call is                                      *)
  dst,      (* dst.len() of the current call                               *)
  buf,      (* CodecReader.buf                                             *)
  off,      (* CodecReader.off                                             *)
  got,      (* `read': bytes the last obj.read delivered                   *)
  pos,      (* history: bytes upstream has delivered                       *)
  eaten,    (* history: bytes the codec has reported consumed              *)
  made,     (* history: bytes the codec has reported produced              *)
  told,     (* history: the codec has been called with FlushState::Finish  *)
  ended,    (* history: the codec has answered StreamEnd                   *)
  reply     (* what the last read call returned                            *)

vars == <<pc, dst, buf, off, got, pos, eaten, made, told, ended, reply>>

\* "data" is Ok(n) with n > 0, "end" is Ok(0); the others are errors.
Fatal == {"SmallBuffer", "TruncatedData", "IO", "Codec"}
Replies == {"none", "data", "end", "Interrupted"} \cup Fatal

Cells == 0 .. BufSize - 1
Room == BufSize - off
Visible == off + got

\* A slip: to take a read that leaves room for the last one.
ShortRead == got < Room
AtEof == got = 0

TypeOK ==
  /\ pc \in {"idle", "fill", "transform", "stopped"}
  /\ dst \in Nat
  /\ buf \in [Cells -> 0 .. SourceLen]
  /\ off \in 0 .. BufSize
  /\ got \in 0 .. Room
  /\ pos \in 0 .. SourceLen
  /\ eaten \in Nat
  /\ made \in 0 .. OutLimit
  /\ told \in BOOLEAN
  /\ ended \in BOOLEAN
  /\ reply \in Replies

----------------------------------------------------------------------------
\* The codec, seen from the reader: any answer within the contract.
MayAnswer(kind, c, p) ==
  /\ Contract(kind, c, p, Visible, dst, Need, Refusals, AtEof)
  /\ made + p <= OutLimit

----------------------------------------------------------------------------
Init ==
  /\ pc = "idle"
  /\ dst = 0
  /\ buf = [i \in Cells |-> 0]
  /\ off = 0
  /\ got = 0
  /\ pos = 0
  /\ eaten = 0
  /\ made = 0
  /\ told = FALSE
  /\ ended = FALSE
  /\ reply = "none"

\* The call leaves read() with r; the caller comes back only after data or
\* an interruption.
ReturnWith(r) ==
  /\ reply' = r
  /\ pc' = IF r \in {"data", "Interrupted"} THEN "idle" ELSE "stopped"

Call(d) ==
  /\ pc = "idle"
  /\ d >= CodecBufferSize
  /\ pc' = "fill"
  /\ dst' = d
  /\ UNCHANGED <<buf, off, got, pos, eaten, made, told, ended, reply>>

CallTooSmall(d) ==
  /\ pc = "idle"
  /\ d < CodecBufferSize
  /\ dst' = d
  /\ ReturnWith("SmallBuffer")
  /\ UNCHANGED <<buf, off, got, pos, eaten, made, told, ended>>

\* A slip: to read into the whole of buf instead of the part behind off.
FillWhole(n) ==
  /\ pc = "fill"
  /\ n <= BufSize /\ pos + n <= SourceLen
  /\ n = 0 => pos = SourceLen
  /\ buf' = [i \in Cells |-> IF i < n THEN pos + i + 1 ELSE buf[i]]
  /\ got' = n
  /\ pos' = pos + n
  /\ pc' = "transform"
  /\ UNCHANGED <<dst, off, eaten, made, told, ended, reply>>

\* obj.read(&mut self.buf[self.off..]): upstream delivers n bytes, and none
\* only at its end or when it is offered an empty slice.
Fill(n) ==
  /\ pc = "fill"
  /\ n <= Room /\ pos + n <= SourceLen
  /\ n = 0 => Room = 0 \/ pos = SourceLen
  /\ buf' = [i \in Cells |-> IF off <= i /\ i < off + n
                              THEN pos + (i - off) + 1 ELSE buf[i]]
  /\ got' = n
  /\ pos' = pos + n
  /\ pc' = "transform"
  /\ UNCHANGED <<dst, off, eaten, made, told, ended, reply>>

\* The ? after obj.read: nothing was delivered.
FillFail(r) ==
  /\ pc = "fill"
  /\ ReturnWith(r)
  /\ got' = 0
  /\ UNCHANGED <<dst, buf, off, pos, eaten, made, told, ended>>

\* The first match after transform: every status but BufError moves the
\* window.  What the codec says it consumed is `eaten' whatever the kind.
Settle(kind, c, p) ==
  /\ pc = "transform"
  /\ MayAnswer(kind, c, p)
  /\ IF kind = "BufError"
     THEN UNCHANGED <<buf, off>>
     ELSE /\ buf' = [i \in Cells |-> IF i + c < Visible THEN buf[i + c] ELSE buf[i]]
          /\ off' = Visible - c
  /\ eaten' = eaten + c
  /\ made' = made + p
  /\ told' = (told \/ AtEof)
  /\ ended' = (ended \/ kind = "StreamEnd")
  /\ got' = 0
  /\ UNCHANGED <<dst, pos>>

\* A slip: to ask for more input at the end, too.
ContinueAtEnd(kind, c) ==
  /\ Settle(kind, c, 0)
  /\ kind \in {"Ok", "SeqError"}
  /\ pc' = "fill"
  /\ UNCHANGED reply

\* No output yet and not at the end: `continue', ask for more input.
Continue(kind, c) ==
  /\ Settle(kind, c, 0)
  /\ kind \in {"Ok", "SeqError"}
  /\ ~AtEof /\ dst > 0
  /\ pc' = "fill"
  /\ UNCHANGED reply

Refuse(c) ==
  /\ Settle("BufError", c, 0)
  /\ ReturnWith("SmallBuffer")

Truncate(p) ==
  /\ Settle("SeqError", 0, p)
  /\ AtEof
  /\ ReturnWith("TruncatedData")

\* The last Ok arm: whatever the arms above left.
Deliver(kind, c, p) ==
  /\ Settle(kind, c, p)
  /\ p = 0 /\ kind \in {"Ok", "SeqError"} => AtEof \/ dst = 0
  /\ ~(kind = "BufError" /\ p = 0)
  /\ ~(kind = "SeqError" /\ c = 0 /\ AtEof)
  /\ ReturnWith(IF p = 0 THEN "end" ELSE "data")

\* Err(e) from the codec: the window is left as it is.
CodecFail ==
  /\ pc = "transform"
  /\ told' = (told \/ AtEof)
  /\ got' = 0
  /\ ReturnWith("Codec")
  /\ UNCHANGED <<dst, buf, off, pos, eaten, made, ended>>

Amounts == 0 .. BufSize
Outputs == 0 .. OutLimit

Transform ==
  \/ \E kind \in Kinds, c \in Amounts : Continue(kind, c)
  \/ \E c \in Amounts : Refuse(c)
  \/ \E p \in Outputs : Truncate(p)
  \/ \E kind \in Kinds, c \in Amounts, p \in Outputs : Deliver(kind, c, p)
  \/ CodecFail

Next ==
  \/ \E d \in DstSizes : Call(d) \/ CallTooSmall(d)
  \/ \E n \in Amounts : Fill(n)
  \/ \E r \in {"Interrupted", "IO"} : FillFail(r)
  \/ Transform

Spec == Init /\ [][Next]_vars

(***************************************************************************)
(* The caller keeps calling and the codec answers (ordinary code that      *)
(* runs).  Upstream may be interrupted again and again, but a read that is *)
(* retried for ever is answered some day.                                  *)
(***************************************************************************)
Fairness ==
  /\ WF_vars(\E d \in DstSizes : Call(d) \/ CallTooSmall(d))
  /\ SF_vars(\E n \in Amounts : Fill(n))
  /\ WF_vars(Transform)

FairSpec == Spec /\ Fairness

----------------------------------------------------------------------------
(***************************************************************************)
(* Properties.                                                             *)
(***************************************************************************)

\* The codec is shown the source in order: whenever transform is called, the
\* slice buf[..off + read] holds exactly the bytes that were delivered and not
\* yet consumed, each once, whatever short reads, interruptions and memmoves
\* came before (mod.rs:281-302).
ShownInOrder ==
  pc = "transform" =>
    /\ eaten + Visible = pos
    /\ \A i \in 0 .. Visible - 1 : buf[i] = eaten + i + 1

\* FlushState::Finish is only ever told when nothing is left upstream
\* (mod.rs:283-289): a read of 0 bytes that is due to a full window would tell
\* it early.
FinishOnlyAtEnd == told => pos = SourceLen

\* A caller that sees Ok(0) has seen everything: the source was read to its
\* end, the codec was told so and every byte was consumed, unless the codec
\* itself declared the stream ended (mod.rs:304-322).
EndMeansEnd ==
  reply = "end" => ended \/ (told /\ pos = SourceLen /\ eaten = SourceLen)

\* Once finishing, always finishing: no call of transform with
\* FlushState::None follows one with FlushState::Finish (mod.rs:285-290).
FinishIsSticky ==
  [][told /\ pc = "fill" /\ pc' = "transform" => got' = 0]_vars

\* Every sequence of reads comes to an end: the loop neither spins on a codec
\* that produces nothing nor returns data for ever (mod.rs:278-323).
Drains == <>(pc = "stopped")

\* doc/man/muter.adoc:41: "If this value is set too low for a given codec to
\* make forward progress, an error will be given", so a read that ends with
\* success has read everything.
TooLowIsAnError == reply = "end" /\ ~ended => pos = SourceLen

(***************************************************************************)
(* The reader implements the stream a codec relies on.                     *)
(***************************************************************************)
Phase ==
  IF pc = "stopped"
  THEN IF reply = "end" THEN "done" ELSE "failed"
  ELSE IF told THEN "closing" ELSE "open"

Stream == INSTANCE ByteStream WITH seen <- pos, taken <- eaten, phase <- Phase

\* Every step of the reader is a step of the stream or leaves it alone: bytes
\* are taken in order and once, the stream is closed only at its end, never
\* reopened, and complete only when all of it was taken (mod.rs:272-324).
ImplementsByteStream == Stream!Spec

----------------------------------------------------------------------------
(***************************************************************************)
(* The part of the invariant that makes ShownInOrder and FinishOnlyAtEnd   *)
(* inductive.                                                              *)
(***************************************************************************)

\* The window between two calls of transform.  After a fatal reply the bytes
\* of the last obj.read are forgotten, and nobody reads again.
Window ==
  /\ pc # "stopped" =>
       /\ eaten + Visible = pos
       /\ \A i \in 0 .. Visible - 1 : buf[i] = eaten + i + 1
  /\ pc \in {"idle", "fill"} => got = 0

\* There is room for a byte each time obj.read is called before the end.
RoomToRead ==
  /\ pc \in {"idle", "fill"} /\ ~told => Room > 0
  /\ pc = "transform" /\ AtEof => pos = SourceLen
  /\ told => pos = SourceLen

\* A transform is given room for output, and after Ok(0) nobody reads again.
Calling ==
  /\ pc \in {"fill", "transform"} => dst > 0
  /\ reply = "end" => pc = "stopped"

\* The inductive invariant: what a step of the reader relies on and keeps
\* (mod.rs:272-324).
Inductive == TypeOK /\ Window /\ RoomToRead /\ Calling

\* BufError is only used to refuse a slice, never to hand out part of a result.
RefusalsAreEmpty == Refusals \subseteq {<<0, 0>>}
BufferHoldsNeed == Need <= BufSize
=============================================================================
