------------------------------- MODULE Muter -------------------------------
(***************************************************************************)
(* One invocation of muter, from the parsed command line to the exit       *)
(* status (src/src/main.rs): create_chain reads the buffer size, opens the *)
(* input files and has Chain::build (src/src/lib/chain/mod.rs) parse the   *)
(* chain and make one codec after the other; process copies to the         *)
(* standard output; main turns an error into an exit status.  Of the chain *)
(* at work only what module Delivery promises is used.                     *)
(***************************************************************************)
EXTENDS Chain

CONSTANTS
  Lines,          (* the command lines                                     *)
  Cuts,           (* bound: where a read or a write may stop short         *)
  Meaning(_, _)   (* what settings make of a whole input                   *)

ASSUME LinesAssumption ==
  \A l \in Lines : l.chain \in Seq(STRING) /\ l.files \in Seq(Seq(Int))

VARIABLES
  line,     (* the command line and what it refers to: chain, reverse,     *)
            (* strict, size, files, each its content, and stdin            *)
  parsed,   (* what Chain::parse makes of its chain: an error or the steps *)
  pc,       (* where main is                                               *)
  opened,   (* the number of files that are open                           *)
  codecs,   (* the settings of the codecs made so far                      *)
  meaning, out, reply, (* of Delivery: what the chain makes of the whole   *)
            (* input, what io::copy gave to stdout, how the last read went  *)
  shown,    (* how much of it has left the program                         *)
  faults,   (* what the operating system failed to do                      *)
  status    (* the exit status, -1 before                                  *)

fixed == <<line, parsed, meaning>>
vars == <<fixed, pc, opened, codecs, out, reply, shown, faults, status>>

LF == 10
Malformed == <<-1>>
Junk == <<0>>       \* what a codec may write before it finds its input malformed
Copied == INSTANCE Delivery

\* A buffer below this size is too small for some codec (doc/man/muter.adoc:42).
Roomy == 64

Faults == {"open", "read", "stdout", "tail", "stderr"}
Statuses == {0, 2, 3, 101, 141}

----------------------------------------------------------------------------
(***************************************************************************)
(* The command line.                                                       *)
(***************************************************************************)
SizeKnown(l) == l.size = <<>> \/ l.size[1] \in DOMAIN Usize
BufferSize(l) == IF l.size = <<>> THEN 65536 ELSE Usize[l.size[1]]
Direction(l) == IF l.reverse THEN "reverse" ELSE "forward"
Input(l) == IF l.files = <<>> THEN l.stdin ELSE FlattenSeq(l.files)

StepError(step) == CreateError(step.name, step.args, step.dir)
Codec(step, strict) == Settings(step.name[1], step.args, step.dir, strict)

Parsed(l) ==
  LET error == ParseError(l.chain, Direction(l))
  IN  [error |-> error, steps |-> IF error = "none" THEN Parse(l.chain, Direction(l)) ELSE <<>>]

\* What the command line itself asks for and muter must refuse.
Wrong ==
  \/ ~SizeKnown(line)
  \/ parsed.error # "none"
  \/ \E k \in DOMAIN parsed.steps : StepError(parsed.steps[k]) # "none"

\* What the codecs of a chain make of a whole input, one after the other.
Passed(made, input) ==
  LET bytes[k \in 0 .. Len(made)] ==
        IF k = 0 THEN input
        ELSE IF bytes[k - 1] = Malformed THEN Malformed ELSE Meaning(made[k], bytes[k - 1])
  IN  bytes
Composed(made, input) == Passed(made, input)[Len(made)]
Made(steps, strict) == [k \in DOMAIN steps |-> Codec(steps[k], strict)]

\* A decoder of flate2 reports what it cannot read as a failed read.
Inflates == \E k \in DOMAIN codecs : codecs[k].name \in Compressed /\ codecs[k].dir = "reverse"

\* Of a wrong command line, or a buffer that is too small, nothing is promised.
Init ==
  /\ line \in Lines
  /\ parsed = Parsed(line)
  /\ pc = "options"
  /\ opened = 0
  /\ codecs = <<>>
  /\ meaning = IF Wrong \/ BufferSize(line) < Roomy THEN Malformed
               ELSE Composed(Made(parsed.steps, line.strict), Input(line))
  /\ Copied!Init
  /\ shown = 0
  /\ faults = {}
  /\ status = -1

----------------------------------------------------------------------------
(***************************************************************************)
(* The end of main.  What the LineWriter of stdout still holds is written  *)
(* then, and nobody looks whether it was; eprintln panics when stderr does *)
(* not take the message.                                                   *)
(***************************************************************************)
Stops(from, to) == {n \in from .. to : n \in Cuts \cup {from, to}}

Exit(code, met) ==
  /\ pc' = "over"
  /\ \E lost, mute \in BOOLEAN :
       /\ lost => shown < Len(out')
       /\ mute => code \in {2, 3}
       /\ shown' \in IF lost THEN Stops(shown, Len(out')) \ {Len(out')} ELSE {Len(out')}
       /\ status' = IF mute THEN 101 ELSE code
       /\ faults' = faults \cup met \cup (IF lost THEN {"tail"} ELSE {})
                           \cup (IF mute THEN {"stderr"} ELSE {})

Refuse(code, met) ==
  /\ UNCHANGED <<fixed, opened, codecs, out, reply>>
  /\ Exit(code, met)

----------------------------------------------------------------------------
(***************************************************************************)
(* create_chain: the options, then the files, then the chain.              *)
(***************************************************************************)
ReadOptions ==
  /\ pc = "options"
  /\ IF SizeKnown(line)
     THEN pc' = "open" /\ UNCHANGED <<fixed, opened, codecs, out, reply, shown, faults, status>>
     ELSE Refuse(2, {})

\* A slip: to count from one.
OpenPast ==
  /\ pc = "open" /\ opened <= Len(line.files)
  /\ opened' = opened + 1
  /\ UNCHANGED <<fixed, pc, codecs, out, reply, shown, faults, status>>

\* source: collect() stops at the first file that cannot be opened.
Open ==
  /\ pc = "open" /\ opened < Len(line.files)
  /\ opened' = opened + 1
  /\ UNCHANGED <<fixed, pc, codecs, out, reply, shown, faults, status>>

OpenFail ==
  /\ pc = "open" /\ opened < Len(line.files)
  /\ Refuse(3, {"open"})

\* A slip: to open a file only when it is read.
ParseFirst ==
  /\ pc = "open"
  /\ parsed.error = "none"
  /\ pc' = "build"
  /\ UNCHANGED <<fixed, opened, codecs, out, reply, shown, faults, status>>

\* Chain::parse.
ParseChain ==
  /\ pc = "open" /\ opened = Len(line.files)
  /\ IF parsed.error = "none"
     THEN /\ pc' = "build"
          /\ UNCHANGED <<fixed, opened, codecs, out, reply, shown, faults, status>>
     ELSE Refuse(IF parsed.error = "panic" THEN 101 ELSE 2, {})

\* The fold of Chain::build, one step of the chain at a time.
Building == pc = "build" /\ Len(codecs) < Len(parsed.steps)
NextStep == parsed.steps[Len(codecs) + 1]

Create ==
  /\ Building
  /\ StepError(NextStep) = "none"
  /\ codecs' = Append(codecs, Codec(NextStep, line.strict))
  /\ UNCHANGED <<fixed, pc, opened, out, reply, shown, faults, status>>

CreateFail ==
  /\ Building
  /\ StepError(NextStep) # "none"
  /\ Refuse(2, {})

----------------------------------------------------------------------------
(***************************************************************************)
(* process: io::copy from the chain to stdout.                             *)
(***************************************************************************)
StartCopy ==
  /\ pc = "build" /\ Len(codecs) = Len(parsed.steps)
  /\ pc' = "copy"
  /\ UNCHANGED <<fixed, opened, codecs, out, reply, shown, faults, status>>

\* What the next read may return.
Pieces ==
  IF meaning = Malformed THEN IF out = <<>> THEN {Junk} ELSE {}
  ELSE {SubSeq(meaning, Len(out) + 1, last) :
         last \in Stops(Len(out), Len(meaning)) \ {Len(out)}}

Larger(a, b) == IF a > b THEN a ELSE b

\* A slip: to hold back what the writer has until it is full.
HeldWhole(text) == 0

\* A LineWriter lets everything up to the last newline out.
LinesEnd(text) ==
  LET ends == {i \in DOMAIN text : text[i] = LF}
  IN  IF ends = {} THEN 0 ELSE CHOOSE i \in ends : \A j \in ends : j <= i

Write ==
  /\ pc = "copy"
  /\ \E piece \in Pieces : Copied!Deliver(piece)
  /\ shown' \in Stops(Larger(shown, LinesEnd(out')), Len(out'))
  /\ UNCHANGED <<line, parsed, pc, opened, codecs, faults, status>>

WriteFail ==
  /\ pc = "copy"
  /\ \E piece \in Pieces : Copied!Deliver(piece)
  /\ \E code \in {3, 141} : Exit(code, {"stdout"})
  /\ UNCHANGED <<line, parsed, opened, codecs>>

\* io::copy tries again.
Retry ==
  /\ pc = "copy"
  /\ Copied!Interrupt
  /\ UNCHANGED <<line, parsed, pc, opened, codecs, shown, faults, status>>

\* A slip: to wait for data before the end is believed.
SucceedAfterData ==
  /\ pc = "copy" /\ reply = "data"
  /\ Copied!Finish
  /\ Exit(0, {})
  /\ UNCHANGED <<line, parsed, opened, codecs>>

Succeed ==
  /\ pc = "copy"
  /\ Copied!Finish
  /\ Exit(0, {})
  /\ UNCHANGED <<line, parsed, opened, codecs>>

\* A slip: to take a failed read for the end.
StatusLax(error) ==
  CASE error = "IO" -> 0 [] error = "panic" -> 101 [] OTHER -> 2

\* A slip: to tell errors apart by their kind alone.
StatusByKind(error) == IF error = "IO" \/ error = "SmallBuffer" THEN 3 ELSE 2

\* main: an error with a payload is one of muter's own, others are the
\* operating system's.
StatusOf(error) ==
  CASE error = "IO" -> 3 [] error = "panic" -> 101 [] OTHER -> 2

\* What flate2 finds is an error of either kind.
CodecFail ==
  /\ pc = "copy"
  /\ \E error \in Copied!CodecErrors :
       /\ Copied!Fail(error)
       /\ \/ Exit(StatusOf(error), {})
          \/ Inflates /\ Exit(StatusOf("IO"), {})
  /\ UNCHANGED <<line, parsed, opened, codecs>>

ReadFail ==
  /\ pc = "copy"
  /\ Copied!Fail("IO")
  /\ Exit(StatusOf("IO"), {"read"})
  /\ UNCHANGED <<line, parsed, opened, codecs>>

----------------------------------------------------------------------------
Progress ==
  \/ ReadOptions \/ Open \/ ParseChain \/ Create \/ CreateFail
  \/ StartCopy \/ Write \/ Succeed \/ CodecFail

Next == Progress \/ OpenFail \/ WriteFail \/ Retry \/ ReadFail

Spec == Init /\ [][Next]_vars

\* One thread that runs, whether or not the system fails; an input that is
\* interrupted answers some day.
FairSpec == Spec /\ WF_vars(Progress)

----------------------------------------------------------------------------
(***************************************************************************)
(* Properties.                                                             *)
(***************************************************************************)
TypeOK ==
  /\ pc \in {"options", "open", "build", "copy", "over"}
  /\ opened \in 0 .. Len(line.files)
  /\ Len(codecs) \in 0 .. Len(parsed.steps)
  /\ shown \in 0 .. Len(out)
  /\ faults \subseteq Faults
  /\ status \in Statuses \cup {-1}
  /\ status = -1 <=> pc # "over"

\* Nothing is written unless every file was opened and every step of the chain
\* was made: a mistake in the last step does not leave half of the output of a
\* chain without it (main.rs:48-78, chain/mod.rs:86-95).
AllOrNothing ==
  out # <<>> =>
    /\ ~Wrong /\ opened = Len(line.files)
    /\ codecs = Made(parsed.steps, line.strict)

\* The exit status tells the caller what happened (main.rs:156-166): 0 that
\* all of the output was made, 2 that the command line or the input is to
\* blame, 3 and 141 that the system is; and whose fault it is decides whenever
\* it is one side's alone.
TruthfulStatus ==
  pc = "over" =>
    /\ status = 0 => ~Wrong /\ reply = "end" /\ (meaning # Malformed => out = meaning)
    /\ status = 2 => Wrong \/ meaning = Malformed
    /\ status \in {3, 141} => faults \cap {"open", "read", "stdout"} # {} \/ Inflates
    /\ Wrong /\ faults = {} => status \in {2, 101}
    /\ ~Wrong /\ meaning # Malformed /\ faults \subseteq {"tail"} => status = 0

\* With status 0 everything up to the last newline has left the program; only
\* the rest of the last line, written by nobody in particular after main, can
\* be lost without a word (main.rs:77).
LosesOnlyTheLastLine ==
  status = 0 => \A i \in shown + 1 .. Len(out) : out[i] # LF

\* --reverse is the chain written the other way round (chain/mod.rs:119-148).
ReverseMirrors == pc = "options" => Mirrors(line.chain)

\* A comma is as good as parentheses (main.rs:88).
SameSyntax == pc = "options" => SameStep(Split(line.chain, ":"))

\* "Assuming all transforms can be inverted, running an instance of muter
\* without this flag followed by an instance with this flag and with the same
\* chain returns the original data" (doc/man/muter.adoc:64): then the chain can
\* be made the other way, too, and it undoes itself, even without its
\* parameters, as "a reverse transform will decode any variant of the forward
\* transform" (doc/man/muter.adoc:29).  The paddings are the exception, and
\* wrap.
Bare(list) == [k \in DOMAIN list |-> [list[k] EXCEPT !.args = <<>>]]
Reversible(list) ==
  \A k \in DOMAIN list :
    list[k].dir = "forward" /\ list[k].name[1] \notin ForwardOnly \cup {"wrap"}
ReverseUndoes ==
  pc = "build" /\ Len(codecs) = Len(parsed.steps) =>
    LET forth == Parse(line.chain, "forward")
        back == Parse(line.chain, "reverse")
        undo(list) == Composed(Made(list, line.strict), Composed(Made(forth, line.strict), Input(line)))
        pads == \E k \in DOMAIN forth : forth[k].name[1] \in Padded
    IN  Reversible(forth) /\ (\A k \in DOMAIN forth : StepError(forth[k]) = "none") =>
          /\ \A k \in DOMAIN back : StepError(back[k]) = "none"
          /\ undo(back) = Input(line)
          /\ pads \/ undo(Bare(back)) = Input(line)

\* The program comes to an end.
Exits == <>(pc = "over")

\* For its caller muter checks, works and exits (main.rs:75-79, 156-166).
Phase ==
  CASE pc = "copy" -> "working" [] pc = "over" -> "over" [] OTHER -> "checking"
Contract == INSTANCE Invocation WITH
  phase <- Phase, wanted <- meaning = Malformed \/ out = meaning
ImplementsInvocation == Contract!Spec
=============================================================================
