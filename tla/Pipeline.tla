------------------------------ MODULE Pipeline ------------------------------
(***************************************************************************)
(* A chain of codecs at work: Chain::build nests one Transform around the  *)
(* other (src/src/lib/chain/mod.rs), each a BufReader around a CodecReader *)
(* around the one before it (src/src/lib/codec/mod.rs), and io::copy pulls *)
(* on the outermost one.                                                   *)
(*                                                                         *)
(* Here the codecs are the real ones: the operators Start, BufferSize and  *)
(* Transform stand for the trait Codec.  The only nondeterminism left is   *)
(* the size of the pieces in which the source arrives, and its failures.   *)
(***************************************************************************)
EXTENDS Codec, Sequences, SequencesExt

CONSTANTS
  Chains,               (* the chains to run: sequences of codec settings  *)
  BufSizes,             (* values of --buffer-size                         *)
  CopySize,             (* the size of the buffer io::copy reads into      *)
  Sources(_),           (* the inputs for a chain: sequences of bytes      *)
  Start(_),             (* the codec a factory makes of its settings       *)
  BufferSize(_),        (* Codec::buffer_size                              *)
  Transform(_, _, _, _),(* Codec::transform(codec, input, room, finish)    *)
  Meaning(_, _)         (* what a codec makes of all the rest of its input *)

\* A chain names a codec at least.  In a buffer of 0 bytes every codec sees the
\* end at once, whatever the source has: TooLowIsAnError of CodecReader is
\* about those.
ASSUME PipelineAssumption ==
  /\ BufSizes \subseteq Nat \ {0}
  /\ CopySize \in Nat
  /\ \A c \in Chains :
       /\ Len(c) \in Nat \ {0}
       /\ \A in \in Sources(c) : in \in Seq(Nat)

VARIABLES
  chain,    (* the chain that runs                                         *)
  bufsize,  (* its buffer size                                             *)
  src,      (* the whole input                                             *)
  meaning,  (* what the codecs, one after the other, make of all of it     *)
  pos,      (* how much of it was read                                     *)
  stage,    (* per stage: its codec and its window                         *)
  spare,    (* spare[k] is what the BufReader of stage k still holds; the  *)
            (* source's own BufReader is stage 0                           *)
  active,   (* the stage whose CodecReader::read runs, 0 when none does    *)
  given,    (* the read this stage made of the one before has returned     *)
  out,      (* what io::copy has written                                   *)
  reply     (* what the last read of the whole chain returned              *)

vars == <<chain, bufsize, src, meaning, pos, stage, spare, active, given, out, reply>>
fixed == <<chain, bufsize, src, meaning>>

Fatal == {"SmallBuffer", "TruncatedData", "Codec", "IO", "panic"}
Going == {"none", "data", "Interrupted"}
Replies == Going \cup {"end"} \cup Fatal
Top == Len(chain)

\* A slip: to believe that every stage writes to the slice of io::copy.
WideRoom(k) == IF CopySize > bufsize THEN CopySize ELSE bufsize

\* The slice a stage writes to: the BufReader around it has bufsize bytes, and
\* a caller that brings as many is served directly.
Room(k) == IF k = Top /\ CopySize > bufsize THEN CopySize ELSE bufsize

TypeOK ==
  /\ chain \in Chains /\ bufsize \in BufSizes /\ src \in Sources(chain)
  /\ pos \in 0 .. Len(src)
  /\ DOMAIN stage = 1 .. Top
  /\ \A k \in 1 .. Top : stage[k].win \in Seq(Nat) /\ Len(stage[k].win) <= bufsize
  /\ DOMAIN spare = 0 .. Top - 1
  /\ \A k \in 0 .. Top - 1 : spare[k] \in Seq(Nat) /\ Len(spare[k]) <= bufsize
  /\ out \in Seq(Nat)
  /\ active \in 0 .. Top
  /\ given \in BOOLEAN
  /\ reply \in Replies

\* What is still due of each stage, after `rest' of the source: of its window,
\* of what the BufReader below holds and of what is due of the stage below.
Due(n, stages, spares, rest) ==
  LET due[k \in 0 .. n] ==
        IF k = 0 THEN rest
        ELSE LET below == due[k - 1]
             IN  IF below = Malformed THEN Malformed
                 ELSE Meaning(stages[k].codec, stages[k].win \o spares[k - 1] \o below)
  IN  due

Init ==
  /\ chain \in Chains
  /\ bufsize \in BufSizes
  /\ src \in Sources(chain)
  /\ pos = 0
  /\ stage = [k \in 1 .. Top |-> [codec |-> Start(chain[k]), win |-> <<>>]]
  /\ spare = [k \in 0 .. Top - 1 |-> <<>>]
  /\ meaning = Due(Top, stage, spare, src)[Top]
  /\ active = 0
  /\ given = FALSE
  /\ out = <<>>
  /\ reply = "none"

----------------------------------------------------------------------------
Stop(r) ==
  /\ reply' = r
  /\ active' = 0
  /\ given' = FALSE

\* The call of CodecReader::read on stage k.
Enter(k) ==
  IF Room(k) < BufferSize(stage[k].codec)
  THEN Stop("SmallBuffer")
  ELSE active' = k /\ given' = FALSE /\ UNCHANGED reply

\* io::copy reads until the end or an error it does not retry.
Copy ==
  /\ active = 0
  /\ reply \in Going
  /\ Enter(Top)
  /\ UNCHANGED <<fixed, pos, stage, spare, out>>

\* What the stage before has for this one, or has answered.
Ready == active > 0 /\ (given \/ spare[active - 1] # <<>>)

\* obj.read with nothing in the BufReader below: ask the stage below.
Ask ==
  /\ active > 1 /\ ~Ready
  /\ Enter(active - 1)
  /\ UNCHANGED <<fixed, pos, stage, spare, out>>

\* The source's BufReader reads at most its capacity.
Read(n) ==
  /\ active = 1 /\ ~Ready
  /\ pos + n <= Len(src)
  /\ n = 0 => pos = Len(src)
  /\ spare' = [spare EXCEPT ![0] = SubSeq(src, pos + 1, pos + n)]
  /\ pos' = pos + n
  /\ given' = TRUE
  /\ UNCHANGED <<fixed, stage, active, out, reply>>

\* The error passes through every stage that waits; their windows stay.
ReadFail(r) ==
  /\ active = 1 /\ ~Ready
  /\ Stop(r)
  /\ UNCHANGED <<fixed, pos, stage, spare, out>>

----------------------------------------------------------------------------
(***************************************************************************)
(* One round of the loop in CodecReader::read.                             *)
(***************************************************************************)
Window == stage[active].win
Below == spare[active - 1]
\* What the slice &mut buf[off..] takes of it.
Fresh == Firsts(Below, bufsize - Len(Window))

\* A slip: to take a short read for the end.
ShortRead == Len(Fresh) < bufsize - Len(Window)

AtEof == Fresh = <<>>
Input == Window \o Fresh
Answers ==
  IF Ready THEN {Transform(stage[active].codec, Input, Room(active), AtEof)} ELSE {}

\* A slip: to take an incomplete sequence at the end for the end.
FailureLoose(answer) ==
  CASE answer.kind = "Panic" -> "panic"
    [] answer.kind = "Err" -> "Codec"
    [] answer.kind = "BufError" /\ answer.made = <<>> -> "SmallBuffer"
    [] OTHER -> "none"

\* What makes read return Err, "none" when it does not: the match on the status
\* and the question mark behind transform.
Failure(answer) ==
  CASE answer.kind = "Panic" -> "panic"
    [] answer.kind = "Err" -> "Codec"
    [] answer.kind = "BufError" /\ answer.made = <<>> -> "SmallBuffer"
    [] answer.kind = "SeqError" /\ answer.took = 0 /\ AtEof -> "TruncatedData"
    [] OTHER -> "none"

\* A slip: to ask for more at the end, too.
AsksForever(answer) == answer.kind \in {"Ok", "SeqError"} /\ answer.made = <<>>

\* Nothing was made, and it is not the end.
AsksAgain(answer) == answer.kind \in {"Ok", "SeqError"} /\ answer.made = <<>> /\ ~AtEof

\* Before the match: what was read is taken, and what was consumed is dropped,
\* but a BufError leaves off as it was.
Settle(answer) ==
  /\ stage' = [stage EXCEPT ![active] =
       [codec |-> answer.codec,
        win |-> IF answer.kind = "BufError" THEN Window ELSE Skip(Input, answer.took)]]
  /\ UNCHANGED <<fixed, pos>>

DropFresh == [spare EXCEPT ![active - 1] = Skip(Below, Len(Fresh))]

Continue(answer) ==
  /\ AsksAgain(answer)
  /\ Settle(answer)
  /\ spare' = DropFresh
  /\ given' = FALSE
  /\ UNCHANGED <<active, out, reply>>

\* Ok(n) to the stage above or, from the last stage, to io::copy.
Return(answer) ==
  /\ Failure(answer) = "none" /\ ~AsksAgain(answer)
  /\ Settle(answer)
  /\ IF active < Top
     THEN /\ spare' = [DropFresh EXCEPT ![active] = answer.made]
          /\ active' = active + 1
          /\ given' = TRUE
          /\ UNCHANGED <<out, reply>>
     ELSE /\ spare' = DropFresh
          /\ out' = out \o answer.made
          /\ Stop(IF answer.made = <<>> THEN "end" ELSE "data")

\* No stage runs again after one of these, so what transform did does not count.
Fail(answer) ==
  /\ Failure(answer) # "none"
  /\ Stop(Failure(answer))
  /\ spare' = DropFresh
  /\ UNCHANGED <<fixed, pos, stage, out>>

Round == \E answer \in Answers : Continue(answer) \/ Return(answer) \/ Fail(answer)

Next ==
  \/ Copy
  \/ Ask
  \/ \E n \in 0 .. bufsize : Read(n)
  \/ \E r \in {"Interrupted", "IO"} : ReadFail(r)
  \/ Round

Spec == Init /\ [][Next]_vars

(***************************************************************************)
(* Every thread of control here is one program that runs; a source that is *)
(* interrupted and asked again and again answers some day.                 *)
(***************************************************************************)
Fairness ==
  /\ WF_vars(Copy \/ Ask)
  /\ SF_vars(\E n \in 0 .. bufsize : Read(n))
  /\ WF_vars(Round)

FairSpec == Spec /\ Fairness

----------------------------------------------------------------------------
(***************************************************************************)
(* Properties.                                                             *)
(***************************************************************************)

\* Every answer of every codec keeps the contract that the proofs about
\* CodecReader rest on.  It must consume something of a full window
\* (mod.rs:199-208, 289), unless it sees an input that no window is large
\* enough for, which is never a well-formed one.
KeepsContract ==
  \A answer \in Answers : answer.kind # "Err" =>
    /\ answer.made \in Seq(Nat)
    /\ Contract(answer.kind, answer.took, Len(answer.made), Len(Input), Room(active),
                IF meaning = Malformed THEN bufsize + 1 ELSE bufsize, {<<0, 0>>}, AtEof)

\* A codec that is told the truth about the end makes what is due: what it
\* answers, and then what it makes of the rest; an answer with nothing that is
\* taken for the end is one (mod.rs:111-208, 304-321).
Owed == Due(Top, stage, spare, Skip(src, pos))
Later == Skip(Below, Len(Fresh)) \o Owed[active - 1]
Streams ==
  meaning # Malformed =>
    /\ \A k \in 1 .. Top : BufferSize(stage[k].codec) \in 0 .. Room(k)
    /\ \A k \in 0 .. Top : Owed[k] \in Seq(Nat)
    /\ \A answer \in Answers : (AtEof => Later = <<>>) =>
         LET rest == Meaning(answer.codec, Skip(Input, answer.took) \o Later)
         IN  /\ Failure(answer) = "none"
             /\ Owed[active] = answer.made \o rest
             /\ rest \in Seq(Nat)
             /\ answer.made = <<>> /\ ~AsksAgain(answer) => rest = <<>>

\* While a read runs nobody was told of an end or an error, and the stages that
\* wait have found nothing.
Quiet == active > 0 => reply \in Going /\ \A k \in active .. Top - 1 : spare[k] = <<>>

\* A stage that is told of an end has got everything.
Told == active > 0 /\ given /\ spare[active - 1] = <<>> => Owed[active - 1] = <<>>

\* A window that is full, which looks like the end, is full at the end only.
Open == \A k \in 1 .. Top :
          Len(stage[k].win) < bufsize \/ (spare[k - 1] = <<>> /\ Owed[k - 1] = <<>>)

\* What was written and what is due are the meaning.
Paid ==
  /\ meaning = out \o Owed[Top]
  /\ reply = "end" => Owed[Top] = <<>>
  /\ reply \in Going \cup {"end", "IO"}

\* At every moment each byte of the input is written, or in a window, in a
\* BufReader or unread, and nobody takes for the end what is none
\* (mod.rs:272-324).
Balance == Quiet /\ (meaning # Malformed => Told /\ Open /\ Paid)

\* Whatever the buffer size and the pieces in which the source arrives, a
\* chain that ends well on a well-formed input has written exactly what its
\* codecs make of the whole of it, and it has written nothing else before
\* (mod.rs:272-324).
WritesTheMeaning ==
  meaning # Malformed =>
    /\ IsPrefix(out, meaning)
    /\ reply = "end" => out = meaning

\* The only input a chain complains about is a malformed one (mod.rs:304-322).
NoFalseAlarm ==
  reply \in {"SmallBuffer", "TruncatedData", "Codec", "panic"} => meaning = Malformed

\* A chain of two, the second of which undoes the first, gives back what it was
\* given (doc/man/muter.adoc:64, 74), whatever the buffers between its stages do.
RoundTrips == Top = 2 /\ reply = "end" => out = src

\* A chain that ends well was given a well-formed input, begun and ended as it
\* must be, with the right checksum: "We have successfully consumed the given
\* number of valid input bytes and transformed them into valid output bytes"
\* (mod.rs:113-114), and an escape that the end of the input cuts short is not
\* one (mod.rs:117-118).
RejectsMalformed == reply = "end" => meaning # Malformed

\* For whoever reads it a chain is one stream (mod.rs:327-353): pieces of the
\* meaning in order, the end only after all of it, no error of the codecs on
\* the way, and nothing any more after the end or an error.
Promise == INSTANCE Delivery
ImplementsDelivery == Promise!Spec

\* The chain comes to an end (mod.rs:278-323).
Drains == <>(reply \in {"end"} \cup Fatal)
=============================================================================
