---------------------------- MODULE MuterProofs ----------------------------
(***************************************************************************)
(* Proofs about Muter for every set of command lines, every meaning of the *)
(* codecs and every way to cut the output.                                 *)
(***************************************************************************)
EXTENDS Muter, ChainProofs

----------------------------------------------------------------------------
(***************************************************************************)
(* The parser returns a sequence of steps.                                 *)
(***************************************************************************)
\* A chain is text.
LEMMA ChainIsText ==
  ASSUME NEW l \in Lines
  PROVE  l.chain \in Seq(Characters)
<1>1. l.chain \in Seq(STRING)
  BY LinesAssumption
<1>2. \A i \in 1 .. Len(l.chain) : l.chain[i] \in Characters
  BY <1>1 DEF Characters
<1>3. QED
  BY <1>1, <1>2

LEMMA StepsAreSequence ==
  ASSUME NEW l \in Lines
  PROVE  IsSequence(Parsed(l).steps)
<1>1. IsSequence(<<>>)
  BY DEF IsSequence
<1>2. IsSequence(Parse(l.chain, Direction(l)))
  <2>1. IsSequence(Units(l.chain, Direction(l)))
    BY ChainIsText, UnitsAreSequence
  <2>2. QED
    BY <2>1 DEF Parse, StepsOf, IsSequence
<1>3. QED
  BY <1>1, <1>2 DEF Parsed

----------------------------------------------------------------------------
(***************************************************************************)
(* What main has done when it is somewhere.                                *)
(***************************************************************************)
CodecsOf == {Codec(parsed.steps[k], line.strict) : k \in DOMAIN parsed.steps}

\* The files and the chain are all right, and nothing is missing.
Ready ==
  /\ ~Wrong
  /\ opened = Len(line.files)
  /\ codecs = Made(parsed.steps, line.strict)

\* The codecs made are those of the first steps, and none was refused.
FirstSteps ==
  /\ codecs \in Seq(CodecsOf)
  /\ Len(codecs) <= Len(parsed.steps)
  /\ \A k \in DOMAIN codecs :
       /\ codecs[k] = Codec(parsed.steps[k], line.strict)
       /\ StepError(parsed.steps[k]) = "none"

Positions == {"options", "open", "build", "copy", "over"}
Orderly ==
  /\ pc \in Positions
  /\ status = -1 <=> pc # "over"
  /\ IsSequence(parsed.steps)
  /\ FirstSteps
  /\ pc \in {"options", "open", "build"} => out = <<>>
  /\ pc \in {"open", "build", "copy"} => SizeKnown(line)
  /\ pc \in {"options", "open"} => codecs = <<>>
  /\ pc \in {"build", "copy"} => parsed.error = "none" /\ opened = Len(line.files)
  /\ pc = "copy" \/ out # <<>> => Ready

\* What Exit leaves behind.
LEMMA ExitFacts ==
  ASSUME NEW code \in Statuses, NEW met, Exit(code, met)
  PROVE  /\ pc' = "over"
         /\ status' \in {code, 101}
         /\ status' # code => code \in {2, 3} /\ "stderr" \in faults'
         /\ status' # -1
         /\ met \subseteq faults' /\ faults \subseteq faults'
BY DEF Exit, Statuses

\* Made all of them: the codecs of the chain.
LEMMA AllMade ==
  ASSUME Orderly, Len(codecs) = Len(parsed.steps), pc = "build"
  PROVE  Ready
<1>1. DOMAIN codecs = DOMAIN parsed.steps
  BY DEF Orderly, FirstSteps, IsSequence
<1>2. codecs = Made(parsed.steps, line.strict)
  BY <1>1 DEF Orderly, FirstSteps, Made
<1>3. ~Wrong
  BY <1>1 DEF Orderly, FirstSteps, Wrong
<1>4. QED
  BY <1>2, <1>3 DEF Ready, Orderly

LEMMA OrderlyInit == Init => Orderly
<1> SUFFICES ASSUME Init PROVE Orderly
  OBVIOUS
<1>1. IsSequence(parsed.steps)
  BY StepsAreSequence DEF Init
<1>2. FirstSteps
  BY <1>1 DEF Init, FirstSteps, IsSequence
<1>3. out = <<>>
  BY DEF Init, Copied!Init
<1>4. QED
  BY <1>1, <1>2, <1>3 DEF Init, Orderly, Positions

\* A step that leaves the command line and the codecs alone keeps what was
\* found of them.
LEMMA Kept ==
  ASSUME Orderly, UNCHANGED <<fixed, opened, codecs>>
  PROVE  /\ IsSequence(parsed.steps)' /\ FirstSteps' /\ SizeKnown(line)' = SizeKnown(line)
         /\ Wrong' = Wrong /\ Ready' = Ready
<1>1. Wrong' = Wrong /\ SizeKnown(line)' = SizeKnown(line)
  BY DEF fixed, Wrong, SizeKnown
<1>2. Ready' = Ready
  BY <1>1 DEF fixed, Ready
<1>3. FirstSteps' /\ IsSequence(parsed.steps)'
  BY DEF fixed, Orderly, FirstSteps, CodecsOf, IsSequence
<1>4. QED
  BY <1>1, <1>2, <1>3

\* A refusal in any place but copy keeps everything else.
LEMMA RefuseKeeps ==
  ASSUME Orderly, pc # "copy", NEW code \in Statuses, NEW met, Refuse(code, met)
  PROVE  Orderly'
<1>1. UNCHANGED <<fixed, opened, codecs, out, reply>> /\ Exit(code, met)
  BY DEF Refuse
<1>2. pc' = "over" /\ status' # -1
  BY <1>1, ExitFacts
<1>3. /\ IsSequence(parsed.steps)' /\ FirstSteps' /\ Ready' = Ready
  BY <1>1, Kept
<1>4. QED
  BY <1>1, <1>2, <1>3 DEF Orderly, Positions

\* So does the end of the copying.
LEMMA CopyKeeps ==
  ASSUME Orderly, pc = "copy", UNCHANGED <<line, parsed, opened, codecs>>, UNCHANGED meaning,
         \/ pc' = "over" /\ status' # -1
         \/ pc' = "copy" /\ status' = status
  PROVE  Orderly'
<1>1. UNCHANGED <<fixed, opened, codecs>>
  BY DEF fixed
<1>2. IsSequence(parsed.steps)' /\ FirstSteps' /\ Ready' = Ready /\ SizeKnown(line)' = SizeKnown(line)
  BY <1>1, Kept
<1>3. QED
  BY <1>2 DEF Orderly, Positions

LEMMA OrderlyStep == Orderly /\ [Next]_vars => Orderly'
<1> SUFFICES ASSUME Orderly, [Next]_vars PROVE Orderly'
  OBVIOUS
<1>1. CASE ReadOptions
  <2>1. CASE SizeKnown(line)
    <3>1. /\ pc = "options" /\ pc' = "open"
          /\ UNCHANGED <<fixed, opened, codecs, out, reply, shown, faults, status>>
      BY <1>1, <2>1 DEF ReadOptions
    <3>2. IsSequence(parsed.steps)' /\ FirstSteps' /\ Ready' = Ready
          /\ SizeKnown(line)' = SizeKnown(line)
      BY <3>1, Kept
    <3>3. QED
      BY <2>1, <3>1, <3>2 DEF Orderly, Positions
  <2>2. CASE ~SizeKnown(line)
    BY <1>1, <2>2, RefuseKeeps DEF ReadOptions, Statuses
  <2>3. QED
    BY <2>1, <2>2
<1>2. CASE Open
  <2>1. /\ pc = "open" /\ pc' = "open" /\ out = <<>> /\ codecs = <<>>
        /\ UNCHANGED <<fixed, codecs, out, reply, shown, faults, status>>
    BY <1>2 DEF Open, Orderly
  <2>2. IsSequence(parsed.steps)' /\ FirstSteps' /\ SizeKnown(line)' = SizeKnown(line)
    BY <2>1 DEF fixed, Orderly, FirstSteps, CodecsOf, IsSequence, SizeKnown
  <2>3. QED
    BY <2>1, <2>2 DEF Orderly, Positions
<1>3. CASE OpenFail
  BY <1>3, RefuseKeeps DEF OpenFail, Statuses
<1>4. CASE ParseChain
  <2>1. CASE parsed.error = "none"
    <3>1. /\ pc = "open" /\ pc' = "build" /\ opened = Len(line.files)
          /\ UNCHANGED <<fixed, opened, codecs, out, reply, shown, faults, status>>
      BY <1>4, <2>1 DEF ParseChain
    <3>2. IsSequence(parsed.steps)' /\ FirstSteps' /\ Ready' = Ready
          /\ SizeKnown(line)' = SizeKnown(line)
      BY <3>1, Kept
    <3>3. QED
      BY <2>1, <3>1, <3>2 DEF Orderly, Positions, fixed
  <2>2. CASE parsed.error # "none"
    BY <1>4, <2>2, RefuseKeeps DEF ParseChain, Statuses
  <2>3. QED
    BY <2>1, <2>2
<1>5. CASE Create
  <2> DEFINE made == Codec(NextStep, line.strict)
  <2>1. /\ pc = "build" /\ pc' = "build" /\ out = <<>>
        /\ Len(codecs) < Len(parsed.steps) /\ StepError(parsed.steps[Len(codecs) + 1]) = "none"
        /\ codecs' = Append(codecs, made)
        /\ UNCHANGED <<fixed, opened, out, reply, shown, faults, status>>
    BY <1>5 DEF Create, Building, NextStep, Orderly
  <2>2. Len(codecs) + 1 \in DOMAIN parsed.steps
    BY <2>1 DEF Orderly, FirstSteps, IsSequence
  <2>3. made = Codec(parsed.steps[Len(codecs) + 1], line.strict) /\ made \in CodecsOf
    BY <2>2 DEF NextStep, CodecsOf
  <2> HIDE DEF made
  <2>4. codecs' \in Seq(CodecsOf) /\ Len(codecs') = Len(codecs) + 1
        /\ DOMAIN codecs' = 1 .. Len(codecs) + 1 /\ DOMAIN codecs = 1 .. Len(codecs)
        /\ codecs'[Len(codecs) + 1] = made
        /\ \A k \in DOMAIN codecs : codecs'[k] = codecs[k]
    BY <2>1, <2>3 DEF Orderly, FirstSteps
  <2>5. \A k \in DOMAIN codecs' :
          /\ codecs'[k] = Codec(parsed.steps[k], line.strict)
          /\ StepError(parsed.steps[k]) = "none"
    <3> SUFFICES ASSUME NEW k \in DOMAIN codecs'
                 PROVE  /\ codecs'[k] = Codec(parsed.steps[k], line.strict)
                        /\ StepError(parsed.steps[k]) = "none"
      OBVIOUS
    <3>1. CASE k = Len(codecs) + 1
      BY <3>1, <2>1, <2>3, <2>4
    <3>2. CASE k # Len(codecs) + 1
      <4>1. k \in DOMAIN codecs
        BY <3>2, <2>4 DEF Orderly, FirstSteps
      <4>2. QED
        BY <4>1, <2>4 DEF Orderly, FirstSteps
    <3>3. QED
      BY <3>1, <3>2
  <2>6. parsed' = parsed /\ line' = line
    BY <2>1 DEF fixed
  <2>7. Len(codecs) + 1 <= Len(parsed.steps)
    BY <2>2 DEF Orderly, IsSequence
  <2>8. FirstSteps' /\ IsSequence(parsed.steps)' /\ SizeKnown(line)' = SizeKnown(line)
    BY <2>4, <2>5, <2>6, <2>7 DEF FirstSteps, CodecsOf, Orderly, IsSequence, SizeKnown
  <2>9. QED
    BY <2>1, <2>6, <2>8 DEF Orderly, Positions
<1>6. CASE CreateFail
  BY <1>6, RefuseKeeps DEF CreateFail, Building, Statuses
<1>7. CASE StartCopy
  <2>1. /\ pc = "build" /\ pc' = "copy" /\ Len(codecs) = Len(parsed.steps)
        /\ UNCHANGED <<fixed, opened, codecs, out, reply, shown, faults, status>>
    BY <1>7 DEF StartCopy
  <2>2. Ready
    BY <2>1, AllMade
  <2>3. IsSequence(parsed.steps)' /\ FirstSteps' /\ Ready' = Ready
        /\ SizeKnown(line)' = SizeKnown(line)
    BY <2>1, Kept
  <2>4. QED
    BY <2>1, <2>2, <2>3 DEF Orderly, Positions, fixed
<1>8. CASE Write
  BY <1>8, CopyKeeps DEF Write, Copied!Deliver
<1>9. CASE WriteFail
  <2>1. PICK code \in {3, 141} : Exit(code, {"stdout"})
    BY <1>9 DEF WriteFail
  <2>2. pc' = "over" /\ status' # -1
    BY <2>1, ExitFacts DEF Statuses
  <2>3. QED
    BY <1>9, <2>2, CopyKeeps DEF WriteFail, Copied!Deliver
<1>10. CASE Retry
  BY <1>10, CopyKeeps DEF Retry, Copied!Interrupt
<1>11. CASE Succeed
  <2>1. pc' = "over" /\ status' # -1
    BY <1>11, ExitFacts DEF Succeed, Statuses
  <2>2. QED
    BY <1>11, <2>1, CopyKeeps DEF Succeed, Copied!Finish
<1>12. CASE CodecFail
  <2>1. PICK error \in Copied!CodecErrors :
          Copied!Fail(error) /\ (Exit(StatusOf(error), {}) \/ Exit(StatusOf("IO"), {}))
    BY <1>12 DEF CodecFail
  <2>2. StatusOf(error) \in Statuses /\ StatusOf("IO") \in Statuses
    BY DEF StatusOf, Statuses
  <2>3. pc' = "over" /\ status' # -1
    BY <2>1, <2>2, ExitFacts
  <2>4. QED
    BY <1>12, <2>1, <2>3, CopyKeeps DEF CodecFail, Copied!Fail
<1>13. CASE ReadFail
  <2>1. pc' = "over" /\ status' # -1
    BY <1>13, ExitFacts DEF ReadFail, StatusOf, Statuses
  <2>2. QED
    BY <1>13, <2>1, CopyKeeps DEF ReadFail, Copied!Fail
<1>14. CASE UNCHANGED vars
  <2>1. IsSequence(parsed.steps)' /\ FirstSteps' /\ Ready' = Ready
        /\ SizeKnown(line)' = SizeKnown(line)
    BY <1>14, Kept DEF vars
  <2>2. QED
    BY <1>14, <2>1 DEF vars, Orderly, fixed
<1>15. QED
  BY <1>1, <1>2, <1>3, <1>4, <1>5, <1>6, <1>7, <1>8, <1>9, <1>10, <1>11, <1>12, <1>13, <1>14
     DEF Next, Progress

\* main goes from one place to the next and checks everything on its way.
THEOREM OrderlyAlways == Spec => []Orderly
BY OrderlyInit, OrderlyStep, PTL DEF Spec

\* Nothing is written before every file is open and every step of the chain is
\* made (main.rs:48-78, chain/mod.rs:86-95).
THEOREM NothingBeforeAll == Spec => []AllOrNothing
<1>1. Orderly => AllOrNothing
  BY DEF Orderly, Ready, AllOrNothing
<1>2. QED
  BY <1>1, OrderlyAlways, PTL

----------------------------------------------------------------------------
(***************************************************************************)
(* The exit status.  Once main is over nothing happens, so it is enough to *)
(* look at the step that ends it.                                          *)
(***************************************************************************)
\* A refusal in front of the copy: of a wrong command line, or of a file.
LEMMA TruthfulRefusal ==
  ASSUME NEW code \in Statuses, NEW met, Refuse(code, met),
         \/ code \in {2, 101} /\ Wrong
         \/ code = 3 /\ "open" \in met
  PROVE  TruthfulStatus'
<1>1. /\ status' \in {code, 101}
      /\ status' # code => code \in {2, 3} /\ "stderr" \in faults'
      /\ met \subseteq faults'
  BY ExitFacts DEF Refuse
<1>2. Wrong' = Wrong /\ meaning' = meaning /\ out' = out /\ Inflates' = Inflates
  BY DEF Refuse, fixed, Wrong, SizeKnown, Inflates
<1>3. CASE code \in {2, 101} /\ Wrong
  BY <1>1, <1>2, <1>3 DEF TruthfulStatus
<1>4. CASE code = 3 /\ "open" \in met
  BY <1>1, <1>2, <1>4 DEF TruthfulStatus
<1>5. QED
  BY <1>3, <1>4

\* The copy ends, of a chain that is all right.
LEMMA TruthfulEnd ==
  ASSUME Orderly, pc = "copy", UNCHANGED <<line, parsed, opened, codecs, meaning>>,
         NEW code \in Statuses, NEW met, Exit(code, met),
         \/ code = 0 /\ reply' = "end" /\ (meaning # Malformed => out' = meaning)
         \/ code \in {2, 101} /\ meaning = Malformed
         \/ code = 3 /\ Inflates /\ meaning = Malformed
         \/ code \in {3, 141} /\ ("read" \in met \/ "stdout" \in met)
  PROVE  TruthfulStatus'
<1>1. /\ status' \in {code, 101}
      /\ status' # code => code \in {2, 3} /\ "stderr" \in faults'
      /\ met \subseteq faults'
  BY ExitFacts
<1>2. Wrong' = Wrong /\ Inflates' = Inflates /\ ~Wrong
  BY DEF Wrong, SizeKnown, Inflates, Orderly, Ready
<1>3. CASE code = 0 /\ reply' = "end" /\ (meaning # Malformed => out' = meaning)
  BY <1>1, <1>2, <1>3 DEF TruthfulStatus
<1>4. CASE code \in {2, 101} /\ meaning = Malformed
  BY <1>1, <1>2, <1>4 DEF TruthfulStatus
<1>5. CASE code = 3 /\ Inflates /\ meaning = Malformed
  BY <1>1, <1>2, <1>5 DEF TruthfulStatus
<1>6. CASE code \in {3, 141} /\ ("read" \in met \/ "stdout" \in met)
  BY <1>1, <1>2, <1>6 DEF TruthfulStatus
<1>7. QED
  BY <1>3, <1>4, <1>5, <1>6

LEMMA TruthfulStep == Orderly /\ TruthfulStatus /\ [Next]_vars => TruthfulStatus'
<1> SUFFICES ASSUME Orderly, TruthfulStatus, [Next]_vars PROVE TruthfulStatus'
  OBVIOUS
<1>1. CASE ReadOptions
  <2>1. CASE SizeKnown(line)
    BY <1>1, <2>1 DEF ReadOptions, TruthfulStatus
  <2>2. CASE ~SizeKnown(line)
    BY <1>1, <2>2, TruthfulRefusal DEF ReadOptions, Statuses, Wrong
  <2>3. QED
    BY <2>1, <2>2
<1>2. CASE Open
  BY <1>2 DEF Open, TruthfulStatus
<1>3. CASE OpenFail
  BY <1>3, TruthfulRefusal DEF OpenFail, Statuses
<1>4. CASE ParseChain
  <2>1. CASE parsed.error = "none"
    BY <1>4, <2>1 DEF ParseChain, TruthfulStatus
  <2>2. CASE parsed.error # "none"
    BY <1>4, <2>2, TruthfulRefusal DEF ParseChain, Statuses, Wrong
  <2>3. QED
    BY <2>1, <2>2
<1>5. CASE Create
  BY <1>5 DEF Create, Building, TruthfulStatus
<1>6. CASE CreateFail
  <2>1. Len(codecs) + 1 \in DOMAIN parsed.steps
    BY <1>6 DEF CreateFail, Building, Orderly, FirstSteps, IsSequence
  <2>2. Wrong
    BY <1>6, <2>1 DEF CreateFail, NextStep, Wrong
  <2>3. QED
    BY <1>6, <2>2, TruthfulRefusal DEF CreateFail, Statuses
<1>7. CASE StartCopy
  BY <1>7 DEF StartCopy, TruthfulStatus
<1>8. CASE Write
  BY <1>8 DEF Write, TruthfulStatus
<1>9. CASE WriteFail
  <2>1. PICK code \in {3, 141} : Exit(code, {"stdout"})
    BY <1>9 DEF WriteFail
  <2>2. QED
    BY <1>9, <2>1, TruthfulEnd DEF WriteFail, Copied!Deliver, Statuses
<1>10. CASE Retry
  BY <1>10 DEF Retry, TruthfulStatus
<1>11. CASE Succeed
  BY <1>11, TruthfulEnd DEF Succeed, Copied!Finish, Copied!Promised, Copied!Malformed,
                             Malformed, Statuses
<1>12. CASE CodecFail
  <2>1. PICK error \in Copied!CodecErrors :
          /\ Copied!Fail(error)
          /\ Exit(StatusOf(error), {}) \/ (Inflates /\ Exit(StatusOf("IO"), {}))
    BY <1>12 DEF CodecFail
  <2>2. StatusOf(error) \in {2, 101} /\ StatusOf("IO") = 3
    BY DEF StatusOf, Copied!CodecErrors
  <2>3. meaning = Malformed /\ UNCHANGED <<line, parsed, opened, codecs, meaning>> /\ pc = "copy"
    BY <1>12, <2>1 DEF CodecFail, Copied!Fail, Copied!Promised, Copied!Malformed, Malformed
  <2>4. CASE Exit(StatusOf(error), {})
    BY <2>2, <2>3, <2>4, TruthfulEnd DEF Statuses
  <2>5. CASE Inflates /\ Exit(StatusOf("IO"), {})
    BY <2>2, <2>3, <2>5, TruthfulEnd DEF Statuses
  <2>6. QED
    BY <2>1, <2>4, <2>5
<1>13. CASE ReadFail
  BY <1>13, TruthfulEnd DEF ReadFail, Copied!Fail, StatusOf, Statuses
<1>14. CASE UNCHANGED vars
  BY <1>14 DEF vars, fixed, TruthfulStatus, Wrong, SizeKnown, Inflates
<1>15. QED
  BY <1>1, <1>2, <1>3, <1>4, <1>5, <1>6, <1>7, <1>8, <1>9, <1>10, <1>11, <1>12, <1>13, <1>14
     DEF Next, Progress

\* The exit status tells the caller what happened, and blames nobody who is not
\* at fault (main.rs:156-166).
THEOREM StatusIsTruthful == Spec => []TruthfulStatus
<1>1. Init => TruthfulStatus
  BY DEF Init, TruthfulStatus
<1>2. QED
  BY <1>1, TruthfulStep, OrderlyAlways, PTL DEF Spec

----------------------------------------------------------------------------
(***************************************************************************)
(* The output, of codecs whose output is a sequence of bytes.              *)
(***************************************************************************)
\* Where the last line ends.
LEMMA LinesEndIsLast ==
  ASSUME NEW text \in Seq(Int)
  PROVE  /\ LinesEnd(text) \in 0 .. Len(text)
         /\ \A i \in LinesEnd(text) + 1 .. Len(text) : text[i] # LF
<1> DEFINE ends == {i \in DOMAIN text : text[i] = LF}
           behind == {Len(text) - i : i \in ends}
<1>1. CASE ends = {}
  <2>1. LinesEnd(text) = 0
    BY <1>1 DEF LinesEnd
  <2>2. QED
    BY <1>1, <2>1
<1>2. CASE ends # {}
  <2>1. behind \subseteq Nat /\ behind # {}
    BY <1>2
  <2>2. PICK least \in behind : \A n \in behind : ~(<<n, least>> \in OpToRel(<, Nat))
    BY <2>1, WFMin, NatLessThanWellFounded
  <2>3. \A n \in behind : ~(n < least)
    BY <2>1, <2>2, Zenon DEF OpToRel
  <2>4. PICK last \in ends : least = Len(text) - last
    BY <2>2
  <2>5. ASSUME NEW i \in ends PROVE i <= last
    <3>1. ~(Len(text) - i < Len(text) - last)
      BY <2>3, <2>4
    <3>2. QED
      BY <3>1
  <2>6. LinesEnd(text) = CHOOSE i \in ends : \A j \in ends : j <= i
    BY <1>2 DEF LinesEnd
  <2>7. LinesEnd(text) \in ends /\ \A j \in ends : j <= LinesEnd(text)
    BY <2>4, <2>5, <2>6
  <2>8. QED
    BY <2>7
<1>3. QED
  BY <1>1, <1>2

LEMMA NoneBehind ==
  ASSUME NEW text \in Seq(Int), NEW n \in 0 .. Len(text), n >= LinesEnd(text)
  PROVE  \A i \in n + 1 .. Len(text) : text[i] # LF
<1>1. /\ LinesEnd(text) \in 0 .. Len(text)
      /\ \A i \in LinesEnd(text) + 1 .. Len(text) : text[i] # LF
  BY LinesEndIsLast
<1>2. QED
  BY <1>1

LEMMA Narrower ==
  ASSUME NEW c \in Nat, NEW a \in Nat, NEW b \in a .. c, NEW i \in b + 1 .. c
  PROVE  i \in a + 1 .. c
OBVIOUS

\* A read returns bytes.
LEMMA PieceType ==
  ASSUME meaning \in Seq(Int), out \in Seq(Int), NEW piece \in Pieces
  PROVE  piece \in Seq(Int)
<1>1. CASE meaning = Malformed
  <2>1. piece = <<0>>
    BY <1>1 DEF Pieces, Junk
  <2>2. QED
    BY <2>1
<1>2. CASE meaning # Malformed
  <2>1. PICK last \in Stops(Len(out), Len(meaning)) \ {Len(out)} :
          piece = SubSeq(meaning, Len(out) + 1, last)
    BY <1>2 DEF Pieces
  <2>2. last \in Nat /\ last <= Len(meaning)
    BY DEF Stops
  <2>3. \A i \in Len(out) + 1 .. last : meaning[i] \in Int
    BY <2>2
  <2>4. SubSeq(meaning, Len(out) + 1, last) \in Seq(Int)
    BY <2>2, <2>3, SubSeqProperties
  <2>5. QED
    BY <2>1, <2>4
<1>3. QED
  BY <1>1, <1>2

\* And the output grows by them.
LEMMA Grows ==
  ASSUME out \in Seq(Int), NEW piece \in Seq(Int), Copied!Deliver(piece)
  PROVE  /\ out' \in Seq(Int)
         /\ Len(out') >= Len(out)
         /\ SubSeq(out', 1, Len(out)) = out
<1>1. out' = out \o piece
  BY DEF Copied!Deliver
<1>2. out \o piece \in Seq(Int) /\ Len(out \o piece) = Len(out) + Len(piece)
      /\ \A i \in 1 .. Len(out) : (out \o piece)[i] = out[i]
  OBVIOUS
<1>3. SubSeq(out \o piece, 1, Len(out)) = out
  BY <1>2, SubSeqProperties, SeqEqual
<1>4. QED
  BY <1>1, <1>2, <1>3

Typed ==
  /\ line \in Lines
  /\ meaning \in Seq(Int)
  /\ out \in Seq(Int)
  /\ TypeOK
  /\ status \in {-1, 0} => \A i \in shown + 1 .. Len(out) : out[i] # LF

\* What Exit does to what is shown.
LEMMA ExitShows ==
  ASSUME Typed, NEW code \in Statuses, NEW met \in SUBSET Faults, Exit(code, met),
         out' \in Seq(Int), Len(out') >= Len(out)
  PROVE  shown' \in shown .. Len(out') /\ status' \in Statuses /\ faults' \subseteq Faults
<1>1. shown \in 0 .. Len(out)
  BY DEF Typed, TypeOK
<1>2. PICK lost, mute \in BOOLEAN :
        /\ shown' \in IF lost THEN Stops(shown, Len(out')) \ {Len(out')} ELSE {Len(out')}
        /\ status' = IF mute THEN 101 ELSE code
        /\ faults' = faults \cup met \cup (IF lost THEN {"tail"} ELSE {})
                            \cup (IF mute THEN {"stderr"} ELSE {})
  BY DEF Exit
<1>3. shown' \in shown .. Len(out')
  BY <1>1, <1>2 DEF Stops
<1>4. status' \in Statuses
  BY <1>2 DEF Statuses
<1>5. faults' \subseteq Faults
  BY <1>2 DEF Typed, TypeOK, Faults
<1>6. QED
  BY <1>3, <1>4, <1>5

LEMMA TypedInit == Init /\ meaning \in Seq(Int) => Typed
<1> SUFFICES ASSUME Init, meaning \in Seq(Int) PROVE Typed
  OBVIOUS
<1>1. out = <<>>
  BY DEF Init, Copied!Init
<1>2. IsSequence(parsed.steps) /\ Len(line.files) \in Nat
  BY StepsAreSequence, LinesAssumption DEF Init
<1>3. TypeOK
  BY <1>1, <1>2 DEF Init, TypeOK, IsSequence, Faults
<1>4. QED
  BY <1>1, <1>3 DEF Typed, Init

\* The end of main.
LEMMA TypedEnd ==
  ASSUME Typed, UNCHANGED <<fixed, opened, codecs>>,
         NEW code \in Statuses, NEW met \in SUBSET Faults, Exit(code, met),
         out' \in Seq(Int), Len(out') >= Len(out), code = 0 => out' = out,
         status = -1
  PROVE  Typed'
<1>1. shown' \in shown .. Len(out') /\ status' \in Statuses /\ faults' \subseteq Faults
      /\ pc' = "over" /\ status' \in {code, 101}
  BY ExitShows, ExitFacts
<1>2. shown' \in 0 .. Len(out')
  BY <1>1 DEF Typed, TypeOK
<1>3. status' # -1
  BY <1>1 DEF Statuses
<1>4. TypeOK'
  BY <1>1, <1>2, <1>3 DEF TypeOK, Typed, fixed
<1>5. ASSUME status' = 0, NEW i \in shown' + 1 .. Len(out') PROVE out'[i] # LF
  <2>1. out' = out
    BY <1>1, <1>5
  <2>2. i \in shown + 1 .. Len(out)
    <3>1. Len(out) \in Nat /\ shown \in Nat
      BY DEF Typed, TypeOK
    <3>2. shown' \in shown .. Len(out) /\ i \in shown' + 1 .. Len(out)
      BY <1>1, <1>5, <2>1
    <3>3. QED
      BY <3>1, <3>2, Narrower
  <2>3. QED
    BY <2>1, <2>2 DEF Typed
<1>6. QED
  BY <1>3, <1>4, <1>5 DEF Typed, fixed

\* Bytes are written, and all of the lines with them leave the program.
LEMMA TypedWrite ==
  ASSUME Typed, Orderly, Write
  PROVE  Typed' /\ SubSeq(out', 1, Len(out)) = out /\ Len(out') >= Len(out)
<1>1. PICK piece \in Pieces : Copied!Deliver(piece)
  BY DEF Write
<1>2. out' \in Seq(Int) /\ Len(out') >= Len(out) /\ SubSeq(out', 1, Len(out)) = out
  BY <1>1, PieceType, Grows DEF Typed
<1>3. meaning' = meaning
  BY <1>1 DEF Copied!Deliver
<1>4. LinesEnd(out') \in 0 .. Len(out')
  BY <1>2, LinesEndIsLast
<1>5. shown' >= LinesEnd(out') /\ shown' \in 0 .. Len(out')
  <2>1. shown' \in Stops(Larger(shown, LinesEnd(out')), Len(out'))
    BY DEF Write
  <2>2. Larger(shown, LinesEnd(out')) \in Nat /\ Larger(shown, LinesEnd(out')) >= LinesEnd(out')
    BY <1>4 DEF Larger, Typed, TypeOK
  <2>3. shown' \in Larger(shown, LinesEnd(out')) .. Len(out')
    BY <2>1 DEF Stops
  <2>4. QED
    BY <2>2, <2>3, <1>2, <1>4
<1>6. \A i \in shown' + 1 .. Len(out') : out'[i] # LF
  BY <1>2, <1>5, NoneBehind
<1>7. UNCHANGED <<line, parsed, pc, opened, codecs, faults, status>>
  BY DEF Write
<1>8. TypeOK'
  BY <1>5, <1>7 DEF TypeOK, Typed
<1>9. QED
  BY <1>2, <1>3, <1>6, <1>7, <1>8 DEF Typed

\* The output stays as it is.
LEMMA Whole ==
  ASSUME Typed, out' = out
  PROVE  out' \in Seq(Int) /\ Len(out') >= Len(out) /\ SubSeq(out', 1, Len(out)) = out
<1>1. out \in Seq(Int) /\ Len(out) \in Nat
  BY DEF Typed
<1>2. SubSeq(out, 1, Len(out)) = out
  BY <1>1, SubSeqProperties, SeqEqual
<1>3. QED
  BY <1>1, <1>2

\* How the copy ends: nothing more is written unless a write failed, and then
\* the status is not 0.
CopyEnds ==
  \E code \in Statuses, met \in SUBSET Faults :
    /\ Exit(code, met)
    /\ UNCHANGED <<fixed, opened, codecs>>
    /\ out' \in Seq(Int) /\ Len(out') >= Len(out) /\ SubSeq(out', 1, Len(out)) = out
    /\ code = 0 => out' = out /\ (meaning = Malformed \/ out = meaning)

LEMMA CopyEndsSo ==
  ASSUME Typed, pc = "copy", WriteFail \/ Succeed \/ CodecFail \/ ReadFail
  PROVE  CopyEnds
<1>1. CASE WriteFail
  <2>1. PICK piece \in Pieces : Copied!Deliver(piece)
    BY <1>1 DEF WriteFail
  <2>2. out' \in Seq(Int) /\ Len(out') >= Len(out) /\ SubSeq(out', 1, Len(out)) = out
    BY <2>1, PieceType, Grows DEF Typed
  <2>3. PICK code \in {3, 141} : Exit(code, {"stdout"})
    BY <1>1 DEF WriteFail
  <2>4. UNCHANGED <<fixed, opened, codecs>>
    BY <1>1, <2>1 DEF WriteFail, Copied!Deliver, fixed
  <2>5. QED
    BY <2>2, <2>3, <2>4 DEF CopyEnds, Statuses, Faults
<1>2. CASE Succeed
  <2>1. /\ Exit(0, {}) /\ UNCHANGED <<fixed, opened, codecs>>
        /\ out' = out /\ (meaning = Malformed \/ out = meaning)
    BY <1>2 DEF Succeed, Copied!Finish, Copied!Promised, Copied!Malformed, Malformed, fixed
  <2>2. QED
    BY <2>1, Whole DEF CopyEnds, Statuses, Faults
<1>3. CASE CodecFail
  <2>1. PICK error \in Copied!CodecErrors :
          Copied!Fail(error) /\ (Exit(StatusOf(error), {}) \/ Exit(StatusOf("IO"), {}))
    BY <1>3 DEF CodecFail
  <2>2. StatusOf(error) \in Statuses \ {0} /\ StatusOf("IO") \in Statuses \ {0}
    BY DEF StatusOf, Statuses, Copied!CodecErrors
  <2>3. out' = out /\ UNCHANGED <<fixed, opened, codecs>>
    BY <1>3, <2>1 DEF CodecFail, Copied!Fail, fixed
  <2>4. QED
    BY <2>1, <2>2, <2>3, Whole DEF CopyEnds, Faults
<1>4. CASE ReadFail
  <2>1. Exit(3, {"read"}) /\ out' = out /\ UNCHANGED <<fixed, opened, codecs>>
    BY <1>4 DEF ReadFail, Copied!Fail, StatusOf, fixed
  <2>2. QED
    BY <2>1, Whole DEF CopyEnds, Statuses, Faults
<1>5. QED
  BY <1>1, <1>2, <1>3, <1>4

\* How it ends before.
LEMMA TypedRefusal ==
  ASSUME Typed, status = -1, NEW code \in Statuses \ {0}, NEW met \in SUBSET Faults,
         Refuse(code, met)
  PROVE  Typed'
BY TypedEnd, Whole DEF Refuse

LEMMA TypedStep == Typed /\ Orderly /\ [Next]_vars => Typed'
<1> SUFFICES ASSUME Typed, Orderly, [Next]_vars PROVE Typed'
  OBVIOUS
<1>1. CASE ReadOptions
  <2>1. CASE SizeKnown(line)
    BY <1>1, <2>1 DEF ReadOptions, Typed, TypeOK, fixed
  <2>2. CASE ~SizeKnown(line)
    BY <1>1, <2>2, TypedRefusal DEF ReadOptions, Orderly, Statuses
  <2>3. QED
    BY <2>1, <2>2
<1>2. CASE Open
  <2>1. UNCHANGED <<fixed, pc, codecs, out, reply, shown, faults, status>>
        /\ opened' \in 0 .. Len(line.files)
    BY <1>2 DEF Open, Typed, TypeOK
  <2>2. QED
    BY <2>1 DEF Typed, TypeOK, fixed
<1>3. CASE OpenFail
  BY <1>3, TypedRefusal DEF OpenFail, Orderly, Statuses, Faults
<1>4. CASE ParseChain
  <2>1. CASE parsed.error = "none"
    BY <1>4, <2>1 DEF ParseChain, Typed, TypeOK, fixed
  <2>2. CASE parsed.error # "none"
    BY <1>4, <2>2, TypedRefusal DEF ParseChain, Orderly, Statuses
  <2>3. QED
    BY <2>1, <2>2
<1>5. CASE Create
  <2>1. FirstSteps'
    BY OrderlyStep DEF Orderly
  <2>2. UNCHANGED <<fixed, pc, opened, out, reply, shown, faults, status>>
    BY <1>5 DEF Create
  <2>3. Len(codecs') \in Nat /\ Len(codecs') <= Len(parsed.steps) /\ Len(parsed.steps) \in Nat
    BY <2>1, <2>2 DEF FirstSteps, Orderly, IsSequence, fixed
  <2>4. Len(codecs') \in 0 .. Len(parsed.steps)
    BY <2>3
  <2>5. QED
    BY <2>2, <2>4 DEF Typed, TypeOK, fixed
<1>6. CASE CreateFail
  BY <1>6, TypedRefusal DEF CreateFail, Building, Orderly, Statuses
<1>7. CASE StartCopy
  BY <1>7 DEF StartCopy, Typed, TypeOK, fixed
<1>8. CASE Write
  BY <1>8, TypedWrite
<1>9. CASE Retry
  BY <1>9 DEF Retry, Copied!Interrupt, Typed, TypeOK
<1>10. CASE WriteFail \/ Succeed \/ CodecFail \/ ReadFail
  <2>1. pc = "copy"
    BY <1>10 DEF WriteFail, Succeed, CodecFail, ReadFail
  <2>2. CopyEnds
    BY <1>10, <2>1, CopyEndsSo
  <2>3. QED
    BY <2>1, <2>2, TypedEnd DEF CopyEnds, Orderly
<1>11. CASE UNCHANGED vars
  BY <1>11 DEF vars, fixed, Typed, TypeOK
<1>12. QED
  BY <1>1, <1>2, <1>3, <1>4, <1>5, <1>6, <1>7, <1>8, <1>9, <1>10, <1>11 DEF Next, Progress

LEMMA TypedAlways == Spec /\ meaning \in Seq(Int) => [](Typed /\ Orderly)
BY TypedInit, TypedStep, OrderlyInit, OrderlyStep, PTL DEF Spec

\* The types of the state, when what the chain makes of its input are bytes.
THEOREM TypeCorrect == Spec /\ meaning \in Seq(Int) => []TypeOK
<1>1. Typed => TypeOK
  BY DEF Typed
<1>2. QED
  BY <1>1, TypedAlways, PTL

\* All that can be lost without a word is the rest of the last line
\* (main.rs:77).
THEOREM OnlyTheLastLine == Spec /\ meaning \in Seq(Int) => []LosesOnlyTheLastLine
<1>1. Typed => LosesOnlyTheLastLine
  BY DEF Typed, LosesOnlyTheLastLine
<1>2. QED
  BY <1>1, TypedAlways, PTL

----------------------------------------------------------------------------
(***************************************************************************)
(* Muter implements Invocation: main is working from the moment the copy   *)
(* starts, and what it does before is to check.                            *)
(***************************************************************************)
\* A refusal of main is one of the contract.
LEMMA RefusalMaps ==
  ASSUME Orderly, pc \in {"options", "open", "build"}, NEW code \in Statuses \ {0}, NEW met,
         Refuse(code, met)
  PROVE  Contract!Refuse
<1>1. pc' = "over" /\ status' \in {code, 101} /\ out' = out
  BY ExitFacts DEF Refuse
<1>2. status' \in Nat \ {0}
  BY <1>1 DEF Statuses
<1>3. QED
  BY <1>1, <1>2 DEF Contract!Refuse, Phase

\* A check that finds nothing is one, too.
LEMMA CheckMaps ==
  ASSUME pc \in {"options", "open", "build"}, pc' \in {"options", "open", "build", "copy"},
         UNCHANGED <<out, status>>
  PROVE  Contract!Check
BY DEF Contract!Check, Phase

LEMMA StepMaps ==
  Typed /\ Orderly /\ [Next]_vars =>
    [Contract!Next]_<<Phase, meaning = Malformed \/ out = meaning, out, status>>
<1> SUFFICES ASSUME Typed, Orderly, Next
             PROVE  \/ Contract!Next
                    \/ UNCHANGED <<Phase, meaning = Malformed \/ out = meaning, out, status>>
  BY DEF vars, fixed, Phase
<1>1. CASE ReadOptions
  <2>1. CASE SizeKnown(line)
    BY <1>1, <2>1, CheckMaps DEF ReadOptions, Contract!Next
  <2>2. CASE ~SizeKnown(line)
    BY <1>1, <2>2, RefusalMaps DEF ReadOptions, Statuses, Contract!Next
  <2>3. QED
    BY <2>1, <2>2
<1>2. CASE Open
  BY <1>2, CheckMaps DEF Open, Contract!Next
<1>3. CASE OpenFail
  BY <1>3, RefusalMaps DEF OpenFail, Statuses, Contract!Next
<1>4. CASE ParseChain
  <2>1. CASE parsed.error = "none"
    BY <1>4, <2>1, CheckMaps DEF ParseChain, Contract!Next
  <2>2. CASE parsed.error # "none"
    BY <1>4, <2>2, RefusalMaps DEF ParseChain, Statuses, Contract!Next
  <2>3. QED
    BY <2>1, <2>2
<1>5. CASE Create
  BY <1>5, CheckMaps DEF Create, Building, Contract!Next
<1>6. CASE CreateFail
  BY <1>6, RefusalMaps DEF CreateFail, Building, Statuses, Contract!Next
<1>7. CASE StartCopy
  BY <1>7, CheckMaps DEF StartCopy, Contract!Next
<1>8. CASE Write
  <2>1. pc = "copy" /\ pc' = "copy" /\ status' = status
    BY <1>8 DEF Write
  <2>2. SubSeq(out', 1, Len(out)) = out /\ Len(out') >= Len(out)
    BY <1>8, TypedWrite
  <2>3. QED
    BY <2>1, <2>2 DEF Phase, Contract!Work, Contract!Next
<1>9. CASE Retry
  BY <1>9 DEF Retry, Copied!Interrupt, Phase
<1>10. CASE WriteFail \/ Succeed \/ CodecFail \/ ReadFail
  <2>1. pc = "copy"
    BY <1>10 DEF WriteFail, Succeed, CodecFail, ReadFail
  <2>2. CopyEnds
    BY <1>10, <2>1, CopyEndsSo
  <2>3. PICK code \in Statuses, met \in SUBSET Faults :
          /\ Exit(code, met)
          /\ Len(out') >= Len(out) /\ SubSeq(out', 1, Len(out)) = out
          /\ code = 0 => out' = out /\ (meaning = Malformed \/ out = meaning)
    BY <2>2 DEF CopyEnds
  <2>4. pc' = "over" /\ status' \in {code, 101}
    BY <2>3, ExitFacts
  <2>5. status' \in Nat /\ (status' = 0 => code = 0)
    BY <2>4 DEF Statuses
  <2>6. QED
    BY <2>1, <2>3, <2>4, <2>5 DEF Phase, Contract!Exit, Contract!Next
<1>11. QED
  BY <1>1, <1>2, <1>3, <1>4, <1>5, <1>6, <1>7, <1>8, <1>9, <1>10 DEF Next, Progress

\* Every step of the program is a step of what it is for its caller, or none
\* (main.rs:75-79, 156-166).
THEOREM Refinement == Spec /\ meaning \in Seq(Int) => ImplementsInvocation
<1>1. Init => Contract!Init
  BY DEF Init, Copied!Init, Contract!Init, Phase
<1>2. QED
  BY <1>1, StepMaps, TypedAlways, PTL DEF Spec, ImplementsInvocation, Contract!Spec

----------------------------------------------------------------------------
(***************************************************************************)
(* The text of the chain.                                                  *)
(***************************************************************************)
\* The command line stays what it is.
LEMMA LineStays == Spec => [](line \in Lines)
<1>1. Init => line \in Lines
  BY DEF Init
<1>2. line \in Lines /\ [Next]_vars => (line \in Lines)'
  <2>1. [Next]_vars => line' = line
    BY DEF vars, fixed, Next, Progress, ReadOptions, Refuse, Open, ParseChain, Create, CreateFail,
           StartCopy, Write, Succeed, CodecFail, OpenFail, WriteFail, Retry, ReadFail
  <2>2. QED
    BY <2>1
<1>3. QED
  BY <1>1, <1>2, PTL DEF Spec

\* --reverse is the chain written the other way round, for every chain
\* (chain/mod.rs:119-148): the same steps in the same order, and the error that
\* comes first.
THEOREM EveryChainMirrors == Spec => []ReverseMirrors
<1>1. line \in Lines => ReverseMirrors
  BY ChainIsText, EveryTextMirrors DEF ReverseMirrors
<1>2. QED
  BY <1>1, LineStays, PTL

\* A comma is as good as parentheses in every unit of every chain
\* (main.rs:88, chain/mod.rs:143-154).
THEOREM EverySyntaxTheSame == Spec => []SameSyntax
<1>1. line \in Lines => SameSyntax
  <2> SUFFICES ASSUME line \in Lines PROVE SameSyntax
    OBVIOUS
  <2> DEFINE units == Split(line.chain, ":")
  <2>1. \A k \in DOMAIN units : units[k] \in Seq(Characters)
    BY ChainIsText, SplitIsSequence
  <2>2. \A k \in DOMAIN units : SameUnit(units[k])
    BY <2>1, CommaOrParentheses
  <2>3. QED
    BY <2>2 DEF SameSyntax, SameStep
<1>2. QED
  BY <1>1, LineStays, PTL

----------------------------------------------------------------------------
(***************************************************************************)
(* --reverse undoes a chain when each of its codecs is undone alone.       *)
(***************************************************************************)
\* What a chain hands from one codec to the next.
Passes(bytes, made, input, n) ==
  bytes = [k \in 0 .. n |->
            IF k = 0 THEN input
            ELSE IF bytes[k - 1] = Malformed THEN Malformed ELSE Meaning(made[k], bytes[k - 1])]

\* It hands it on: the recursion has a solution, for a chain of every length.
LEMMA PassesExist ==
  ASSUME NEW made, NEW input, NEW n \in Nat
  PROVE  \E bytes : Passes(bytes, made, input, n)
<1> DEFINE bad == {m \in Nat : ~ \E f : Passes(f, made, input, m)}
<1>1. SUFFICES ASSUME bad # {} PROVE FALSE
  OBVIOUS
<1>2. PICK m \in bad : \A i \in bad : m <= i
  BY <1>1, HasLeast
<1>3. m # 0
  <2>1. Passes([k \in 0 .. 0 |-> input], made, input, 0)
    BY DEF Passes
  <2>2. QED
    BY <1>2, <2>1
<1>4. m \in Nat /\ m - 1 \in Nat /\ m - 1 \notin bad
  BY <1>2, <1>3
<1>5. PICK g : Passes(g, made, input, m - 1)
  BY <1>4
<1> DEFINE on(k, x) == IF x = Malformed THEN Malformed ELSE Meaning(made[k], x)
           f == [k \in 0 .. m |-> IF k < m THEN g[k] ELSE on(k, g[m - 1])]
<1>6. ASSUME NEW k \in 0 .. m PROVE f[k] = IF k = 0 THEN input ELSE on(k, f[k - 1])
  <2> HIDE DEF on
  <2>1. g = [i \in 0 .. m - 1 |-> IF i = 0 THEN input ELSE on(i, g[i - 1])]
    BY <1>5, Zenon DEF Passes, on
  <2>2. CASE k < m
    <3>1. k \in 0 .. m - 1 /\ (k # 0 => k - 1 \in 0 .. m /\ k - 1 < m)
      BY <1>4, <2>2
    <3>2. g[k] = IF k = 0 THEN input ELSE on(k, g[k - 1])
      BY <2>1, <3>1
    <3>3. f[k] = g[k] /\ (k # 0 => f[k - 1] = g[k - 1])
      BY <2>2, <3>1
    <3>4. QED
      BY <3>2, <3>3
  <2>3. CASE k = m
    <3>1. m - 1 \in 0 .. m /\ m - 1 < m
      BY <1>4
    <3>2. f[m - 1] = g[m - 1]
      BY <3>1
    <3>3. f[m] = on(m, g[m - 1])
      BY <1>4
    <3>4. QED
      BY <1>3, <2>3, <3>2, <3>3
  <2>4. QED
    BY <1>4, <2>2, <2>3
<1>7. f = [k \in 0 .. m |-> IF k = 0 THEN input ELSE on(k, f[k - 1])]
  <2> HIDE DEF on
  <2>1. \A k \in 0 .. m : f[k] = IF k = 0 THEN input ELSE on(k, f[k - 1])
    BY <1>6
  <2>2. f = [k \in 0 .. m |-> f[k]]
    OBVIOUS
  <2> HIDE DEF f
  <2>3. QED
    BY <2>1, <2>2
<1> HIDE DEF f
<1>8. Passes(f, made, input, m)
  BY <1>7, Zenon DEF Passes, on
<1>9. QED
  BY <1>2, <1>8

\* The first codec gets the input, and each of the others what the one before
\* it made.
Handed(made, input) ==
  /\ Passed(made, input)[0] = input
  /\ \A k \in 1 .. Len(made) :
       Passed(made, input)[k]
         = IF Passed(made, input)[k - 1] = Malformed THEN Malformed
           ELSE Meaning(made[k], Passed(made, input)[k - 1])

LEMMA PassedIs ==
  ASSUME NEW made, NEW input, Len(made) \in Nat
  PROVE  Handed(made, input)
<1> DEFINE n == Len(made)
           all == Passed(made, input)
<1>1. all = CHOOSE bytes : Passes(bytes, made, input, n)
  BY Zenon DEF Passed, Passes
<1>2. Passes(all, made, input, n)
  <2>1. n \in Nat
    OBVIOUS
  <2> HIDE DEF n, all
  <2>2. \E bytes : Passes(bytes, made, input, n)
    BY <2>1, PassesExist
  <2>3. QED
    BY <1>1, <2>2
<1> HIDE DEF all
<1>3. all[0] = input
  <2>1. 0 \in 0 .. n
    OBVIOUS
  <2>2. QED
    BY <1>2, <2>1 DEF Passes
<1>4. ASSUME NEW k \in 1 .. n
      PROVE  all[k] = IF all[k - 1] = Malformed THEN Malformed ELSE Meaning(made[k], all[k - 1])
  <2>1. k \in 0 .. n /\ k # 0
    OBVIOUS
  <2>2. QED
    BY <1>2, <2>1 DEF Passes
<1>5. QED
  BY <1>3, <1>4 DEF Handed, all, n

\* Every codec of `there' makes something that the one at the same place from
\* the end of `back' undoes.
Undoing(there, back, input) ==
  \A k \in 1 .. Len(there) :
    /\ Passed(there, input)[k] # Malformed
    /\ Meaning(back[Len(there) + 1 - k], Passed(there, input)[k]) = Passed(there, input)[k - 1]

\* Then the one chain undoes the other.
LEMMA BackAgain ==
  ASSUME NEW there, NEW back, Len(there) \in Nat, Len(back) = Len(there), NEW input,
         Undoing(there, back, input)
  PROVE  Composed(back, Composed(there, input)) = input
<1> DEFINE n == Len(there)
           a == Passed(there, input)
           b == Passed(back, a[n])
           bad == {k \in 0 .. n : b[k] # a[n - k]}
<1>1. n \in Nat
  OBVIOUS
<1>2. a[0] = input
  BY PassedIs DEF Handed
<1>3. Handed(back, a[n])
  BY PassedIs
<1>4. /\ b[0] = a[n]
      /\ \A k \in 1 .. n :
           b[k] = IF b[k - 1] = Malformed THEN Malformed ELSE Meaning(back[k], b[k - 1])
  BY <1>3 DEF Handed
<1>5. \A k \in 1 .. n : a[k] # Malformed /\ Meaning(back[n + 1 - k], a[k]) = a[k - 1]
  BY DEF Undoing
<1>6. Composed(back, Composed(there, input)) = b[n]
  BY DEF Composed
<1> HIDE DEF n, a, b
<1>7. ASSUME bad # {} PROVE FALSE
  <2>1. bad \in SUBSET Nat
    BY <1>1
  <2>2. PICK k \in bad : \A i \in bad : k <= i
    BY <1>7, <2>1, HasLeast
  <2>3. k \in 0 .. n /\ b[k] # a[n - k]
    BY <2>2
  <2>4. k # 0
    BY <1>1, <1>4, <2>3
  <2>5. k \in 1 .. n /\ k - 1 \in 0 .. n /\ k - 1 \notin bad /\ n - (k - 1) = n + 1 - k
        /\ n + 1 - k \in 1 .. n /\ n + 1 - (n + 1 - k) = k /\ n + 1 - k - 1 = n - k
    BY <1>1, <2>2, <2>3, <2>4
  <2>6. b[k - 1] = a[n + 1 - k]
    BY <2>5
  <2>7. a[n + 1 - k] # Malformed /\ Meaning(back[k], a[n + 1 - k]) = a[n - k]
    <3> DEFINE j == n + 1 - k
    <3>1. j \in 1 .. n /\ n + 1 - j = k /\ j - 1 = n - k
      BY <1>1, <2>5
    <3> HIDE DEF j
    <3>2. a[j] # Malformed /\ Meaning(back[n + 1 - j], a[j]) = a[j - 1]
      BY <1>5, <3>1
    <3>3. QED
      BY <3>1, <3>2 DEF j
  <2>8. b[k] = a[n - k]
    BY <1>4, <2>5, <2>6, <2>7
  <2>9. QED
    BY <2>3, <2>8
<1>8. n \in 0 .. n /\ n - n = 0
  BY <1>1
<1>9. b[n] = a[0]
  BY <1>7, <1>8
<1>10. QED
  BY <1>2, <1>6, <1>9

\* The step of a decoder for what a step made.
Turned(step) == [name |-> step.name, args |-> step.args, dir |-> "reverse"]

\* A unit that encodes decodes with --reverse.
LEMMA UnitTurned ==
  ASSUME NEW unit, ParseUnit(unit, "forward").dir = "forward"
  PROVE  ParseUnit(unit, "reverse") = Turned(ParseUnit(unit, "forward"))
<1>1. UnitDirection(unit, "forward") = "forward"
  BY DEF ParseUnit
<1>2. UnitDirection(unit, "reverse") = "reverse"
  BY <1>1 DEF UnitDirection, Invert
<1>3. QED
  BY <1>2 DEF ParseUnit, Turned

\* With --reverse the steps come from the last to the first, and what encoded
\* decodes.
LEMMA StepsTurned ==
  ASSUME NEW text \in Seq(Characters)
  PROVE  LET forth == Parse(text, "forward")
             back == Parse(text, "reverse")
         IN  /\ IsSequence(forth) /\ IsSequence(back) /\ Len(back) = Len(forth)
             /\ \A k \in 1 .. Len(forth) :
                  forth[k].dir = "forward" => back[Len(forth) + 1 - k] = Turned(forth[k])
<1> DEFINE units == Split(text, ":")
           forth == Parse(text, "forward")
           back == Parse(text, "reverse")
           n == Len(units)
<1>1. IsSequence(units)
  BY SplitIsSequence
<1>2. n \in Nat /\ DOMAIN units = 1 .. n
  BY <1>1 DEF IsSequence
<1>3. forth = [k \in 1 .. n |-> ParseUnit(units[k], "forward")]
  BY <1>2 DEF Parse, Units, StepsOf
<1>4. back = [k \in 1 .. n |-> ParseUnit(units[n + 1 - k], "reverse")]
  <2>1. Reverse(units) = [k \in 1 .. n |-> units[(n - k) + 1]]
    BY DEF Reverse
  <2>2. \A k \in 1 .. n : (n - k) + 1 = n + 1 - k
    BY <1>2
  <2>3. Reverse(units) = [k \in 1 .. n |-> units[n + 1 - k]]
    BY <2>1, <2>2
  <2>4. back = StepsOf(Reverse(units), "reverse")
    BY DEF Parse, Units
  <2> HIDE DEF units, n, back
  <2>5. QED
    BY <2>3, <2>4 DEF StepsOf
<1> HIDE DEF forth, back
<1>5. IsSequence(forth) /\ IsSequence(back) /\ Len(back) = n /\ Len(forth) = n
  BY <1>2, <1>3, <1>4 DEF IsSequence
<1>6. ASSUME NEW k \in 1 .. n, forth[k].dir = "forward" PROVE back[n + 1 - k] = Turned(forth[k])
  <2>1. n + 1 - k \in 1 .. n /\ n + 1 - (n + 1 - k) = k
    BY <1>2
  <2>2. forth[k] = ParseUnit(units[k], "forward") /\ back[n + 1 - k] = ParseUnit(units[k], "reverse")
    BY <1>3, <1>4, <2>1
  <2> HIDE DEF units, n
  <2>3. QED
    BY <1>6, <2>1, <2>2, UnitTurned
<1>7. QED
  BY <1>5, <1>6 DEF forth, back

\* A codec that can be made one way can be made the other way, too.
LEMMA MadeBothWays ==
  ASSUME NEW name, NEW args, CreateError(name, args, "forward") = "none",
         name[1] \notin ForwardOnly \cup {"wrap"}
  PROVE  CreateError(name, args, "reverse") = "none"
<1> DEFINE x == name[1]
<1>1. Registered(name) /\ Refusal(x, args, "forward") = "none"
  BY DEF CreateError
<1> HIDE DEF x
<1>2. x \notin ForwardOnly /\ x # "wrap"
  BY DEF x
<1>3. Refusal(x, args, "reverse") = "none"
  <2>1. x \notin {"swab", "hash", "checksum"}
    BY <1>2 DEF ForwardOnly
  <2>2. CASE x \in Padded
    <3>1. Refusal(x, args, "forward") = PadError(args)
      BY <1>2, <2>2 DEF Refusal, Padded
    <3>2. Refusal(x, args, "reverse") = PadError(args)
      BY <1>2, <2>2 DEF Refusal, Padded
    <3>3. QED
      BY <1>1, <3>1, <3>2
  <2>3. CASE x \notin Padded /\ x = "quotedprintable"
    <3>1. Refusal(x, args, "forward") = LengthError(args, 4)
      BY <1>2, <2>1, <2>3 DEF Refusal
    <3>2. Refusal(x, args, "reverse") = LengthError(args, 4)
      BY <1>2, <2>1, <2>3 DEF Refusal
    <3>3. QED
      BY <1>1, <3>1, <3>2
  <2>4. CASE x \notin Padded /\ x # "quotedprintable"
    BY <1>2, <2>1, <2>4 DEF Refusal
  <2>5. QED
    BY <2>2, <2>3, <2>4
<1>4. QED
  BY <1>1, <1>3 DEF CreateError, x

\* Each codec of a chain that --reverse could undo is undone alone, on what it
\* made of this input; and without its parameters, too, if it does not pad.
Alone(step, strict, given, made) ==
  /\ made # Malformed
  /\ Meaning(Codec(Turned(step), strict), made) = given
  /\ step.name[1] \notin Padded =>
       Meaning(Codec([Turned(step) EXCEPT !.args = <<>>], strict), made) = given

Undoable(l) ==
  LET forth == Parse(l.chain, "forward")
  IN  /\ Parsed(l).error = "none"
      /\ Reversible(forth)
      /\ \A k \in DOMAIN forth : StepError(forth[k]) = "none"

EachUndone ==
  \A l \in Lines : Undoable(l) =>
    LET forth == Parse(l.chain, "forward")
        passed == Passed(Made(forth, l.strict), Input(l))
    IN  \A k \in DOMAIN forth : Alone(forth[k], l.strict, passed[k - 1], passed[k])

\* What codecs are made of a list of steps.
LEMMA MadeIs ==
  ASSUME NEW list, IsSequence(list), NEW strict
  PROVE  /\ IsSequence(Made(list, strict)) /\ Len(Made(list, strict)) = Len(list)
         /\ \A k \in 1 .. Len(list) : Made(list, strict)[k] = Codec(list[k], strict)
         /\ IsSequence(Bare(list)) /\ Len(Bare(list)) = Len(list)
         /\ \A k \in 1 .. Len(list) : Bare(list)[k] = [list[k] EXCEPT !.args = <<>>]
<1> DEFINE n == Len(list)
<1>1. n \in Nat /\ DOMAIN list = 1 .. n
  BY DEF IsSequence
<1>2. Made(list, strict) = [k \in 1 .. n |-> Codec(list[k], strict)]
  BY <1>1 DEF Made
<1>3. Bare(list) = [k \in 1 .. n |-> [list[k] EXCEPT !.args = <<>>]]
  BY <1>1 DEF Bare
<1> HIDE DEF n
<1>4. QED
  BY <1>1, <1>2, <1>3 DEF IsSequence, n

\* So the chain is undone.
LEMMA ChainUndone ==
  ASSUME EachUndone, line \in Lines, Parsed(line).error = "none"
  PROVE  LET forth == Parse(line.chain, "forward")
             back == Parse(line.chain, "reverse")
             undo(list) == Composed(Made(list, line.strict),
                                    Composed(Made(forth, line.strict), Input(line)))
             pads == \E k \in DOMAIN forth : forth[k].name[1] \in Padded
         IN  Reversible(forth) /\ (\A k \in DOMAIN forth : StepError(forth[k]) = "none") =>
               /\ \A k \in DOMAIN back : StepError(back[k]) = "none"
               /\ undo(back) = Input(line)
               /\ pads \/ undo(Bare(back)) = Input(line)
<1> DEFINE forth == Parse(line.chain, "forward")
           back == Parse(line.chain, "reverse")
           there == Made(forth, line.strict)
           again(list) == Made(list, line.strict)
           input == Input(line)
           n == Len(forth)
<1>1. SUFFICES ASSUME Reversible(forth), \A k \in DOMAIN forth : StepError(forth[k]) = "none"
      PROVE  /\ \A k \in DOMAIN back : StepError(back[k]) = "none"
             /\ Composed(again(back), Composed(there, input)) = input
             /\ \/ \E k \in DOMAIN forth : forth[k].name[1] \in Padded
                \/ Composed(again(Bare(back)), Composed(there, input)) = input
  BY Zenon
<1>2. /\ IsSequence(forth) /\ IsSequence(back) /\ Len(back) = n
      /\ \A k \in 1 .. n : forth[k].dir = "forward" => back[n + 1 - k] = Turned(forth[k])
  BY ChainIsText, StepsTurned
<1>3. n \in Nat /\ DOMAIN forth = 1 .. n /\ DOMAIN back = 1 .. n
  BY <1>2 DEF IsSequence
<1>4. \A k \in 1 .. n : /\ forth[k].dir = "forward"
                        /\ forth[k].name[1] \notin ForwardOnly \cup {"wrap"}
  BY <1>1, <1>3 DEF Reversible
<1>5. \A k \in 1 .. n : back[n + 1 - k] = Turned(forth[k])
  BY <1>2, <1>4
<1>6. \A k \in 1 .. n :
        Alone(forth[k], line.strict, Passed(there, input)[k - 1], Passed(there, input)[k])
  BY <1>1, <1>3 DEF EachUndone, Undoable
<1>7. /\ Len(there) = n /\ Len(again(back)) = n /\ Len(again(Bare(back))) = n
      /\ \A k \in 1 .. n : again(back)[k] = Codec(back[k], line.strict)
      /\ \A k \in 1 .. n :
           again(Bare(back))[k] = Codec([back[k] EXCEPT !.args = <<>>], line.strict)
  <2>1. IsSequence(Bare(back)) /\ Len(Bare(back)) = n
        /\ \A k \in 1 .. n : Bare(back)[k] = [back[k] EXCEPT !.args = <<>>]
    BY <1>2, MadeIs
  <2>2. ASSUME NEW list, IsSequence(list)
        PROVE  /\ Len(again(list)) = Len(list)
               /\ \A k \in 1 .. Len(list) : again(list)[k] = Codec(list[k], line.strict)
    BY <2>2, MadeIs
  <2>3. Len(there) = n
    BY <1>2, MadeIs
  <2> HIDE DEF forth, back, there, again, n
  <2>4. Len(again(back)) = n /\ \A k \in 1 .. n : again(back)[k] = Codec(back[k], line.strict)
    BY <1>2, <2>2
  <2>5. /\ Len(again(Bare(back))) = n
        /\ \A k \in 1 .. n : again(Bare(back))[k] = Codec(Bare(back)[k], line.strict)
    BY <2>1, <2>2
  <2>6. QED
    BY <2>1, <2>3, <2>4, <2>5
<1>8. \A k \in 1 .. n : StepError(forth[k]) = "none"
  BY <1>1, <1>3
<1> HIDE DEF forth, back, there, again, input, n
<1>9. \A k \in 1 .. n : n + 1 - k \in 1 .. n /\ n + 1 - (n + 1 - k) = k
  BY <1>3
<1>10. ASSUME NEW j \in DOMAIN back PROVE StepError(back[j]) = "none"
  <2> DEFINE k == n + 1 - j
  <2>1. k \in 1 .. n /\ n + 1 - k = j
    BY <1>3, <1>9
  <2> HIDE DEF k
  <2>2. back[j] = Turned(forth[k])
    BY <1>5, <2>1
  <2>3. CreateError(forth[k].name, forth[k].args, "forward") = "none"
    BY <1>4, <1>8, <2>1 DEF StepError
  <2>4. CreateError(forth[k].name, forth[k].args, "reverse") = "none"
    BY <1>4, <2>1, <2>3, MadeBothWays
  <2>5. QED
    BY <2>2, <2>4 DEF StepError, Turned
<1>11. Undoing(there, again(back), input)
  <2>1. ASSUME NEW k \in 1 .. n
        PROVE  /\ Passed(there, input)[k] # Malformed
               /\ Meaning(again(back)[n + 1 - k], Passed(there, input)[k])
                    = Passed(there, input)[k - 1]
    <3>1. again(back)[n + 1 - k] = Codec(Turned(forth[k]), line.strict)
      BY <1>5, <1>7, <1>9
    <3>2. QED
      BY <1>6, <3>1 DEF Alone
  <2>2. QED
    BY <1>7, <2>1 DEF Undoing
<1>12. ASSUME ~ \E k \in DOMAIN forth : forth[k].name[1] \in Padded
       PROVE  Undoing(there, again(Bare(back)), input)
  <2>1. ASSUME NEW k \in 1 .. n
        PROVE  /\ Passed(there, input)[k] # Malformed
               /\ Meaning(again(Bare(back))[n + 1 - k], Passed(there, input)[k])
                    = Passed(there, input)[k - 1]
    <3>1. again(Bare(back))[n + 1 - k]
            = Codec([Turned(forth[k]) EXCEPT !.args = <<>>], line.strict)
      BY <1>5, <1>7, <1>9
    <3>2. forth[k].name[1] \notin Padded
      BY <1>3, <1>12
    <3>3. QED
      BY <1>6, <3>1, <3>2 DEF Alone
  <2>2. QED
    BY <1>7, <2>1 DEF Undoing
<1>13. QED
  BY <1>3, <1>7, <1>10, <1>11, <1>12, BackAgain

\* So with --reverse a chain gives back what it was given, and without its
\* parameters, too (doc/man/muter.adoc:29, 64), for every command line: of the
\* codecs only what each does alone is asked.
THEOREM ReverseUndoesAll ==
  ASSUME EachUndone
  PROVE  Spec => []ReverseUndoes
<1>1. line \in Lines /\ parsed = Parsed(line) /\ Orderly => ReverseUndoes
  BY ChainUndone DEF ReverseUndoes, Orderly
<1>2. Init => parsed = Parsed(line)
  BY DEF Init
<1>3. parsed = Parsed(line) /\ [Next]_vars => (parsed = Parsed(line))'
  <2>1. [Next]_vars => line' = line /\ parsed' = parsed
    BY DEF vars, fixed, Next, Progress, ReadOptions, Refuse, Open, ParseChain, Create, CreateFail,
           StartCopy, Write, Succeed, CodecFail, OpenFail, WriteFail, Retry, ReadFail
  <2>2. QED
    BY <2>1
<1>4. QED
  BY <1>1, <1>2, <1>3, LineStays, OrderlyAlways, PTL DEF Spec
=============================================================================
