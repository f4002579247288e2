-------------------------- MODULE StreamingProofs --------------------------
(***************************************************************************)
(* What PipelineProofs assumes of the answers that are given while a chain *)
(* runs, KeepsContract and Streams, follows from what each codec does by   *)
(* itself.  A codec streams when a set of codecs with their windows        *)
(* contains it at its start, is never left, and answers well for each of   *)
(* its members, whatever comes next; and it is contained when the same is  *)
(* true for answers to malformed inputs, of which less is asked.  Neither  *)
(* speaks of chains or of variables: they can be shown of one codec after  *)
(* the other, and chains of any such codecs work.                          *)
(***************************************************************************)
EXTENDS PipelineProofs

\* The slice that stage k of a chain writes to: Room, of the constants.
Writes(c, size, k) == IF k = Len(c) /\ CopySize > size THEN CopySize ELSE size

\* A codec with what CodecReader keeps for it.
At(codec, win) == [codec |-> codec, win |-> win]

\* The answer to what is kept and something fresh, nothing of which is the end.
Answer(st, fresh, room) == Transform(st.codec, st.win \o fresh, room, fresh = <<>>)

\* The same codec remains, with what it left of its input.
Stays(C, answer, in) == At(answer.codec, Skip(in, answer.took)) \in C

\* When it is told the truth about the end, and what is shown, with all that
\* comes later, means something, the answer and the meaning of the rest are this
\* meaning; there is no complaint, and something of a full window is taken; and
\* an answer with nothing that is taken for the end is one.
Tells(C, size, room, st, fresh, later) ==
  LET in == st.win \o fresh
      due == Meaning(st.codec, in \o later)
      answer == Answer(st, fresh, room)
      rest == Meaning(answer.codec, Skip(in, answer.took) \o later)
  IN  Len(in) <= size /\ due # Malformed /\ (fresh = <<>> => later = <<>>) =>
        /\ answer.made \in Seq(Nat)
        /\ Contract(answer.kind, answer.took, Len(answer.made), Len(in), room, size, {},
                    fresh = <<>>)
        /\ ~(answer.kind = "SeqError" /\ answer.took = 0 /\ fresh = <<>>)
        /\ due = answer.made \o rest
        /\ rest \in Seq(Nat)
        /\ answer.made = <<>> /\ (fresh = <<>> \/ answer.kind = "StreamEnd") => rest = <<>>
        /\ Stays(C, answer, in)

Truthful(C, size, room) ==
  \A st \in C : \A fresh, later \in Seq(Nat) : Tells(C, size, room, st, fresh, later)

Ranged(C, room) ==
  \A st \in C :
    /\ st = At(st.codec, st.win)
    /\ BufferSize(st.codec) \in 0 .. room
    /\ \A in \in Seq(Nat) : Meaning(st.codec, in) \in Seq(Nat) \cup {Malformed}

StreamsAlone(st, size, room) ==
  \E C : st \in C /\ Ranged(C, room) /\ Truthful(C, size, room)

\* Whatever is shown, and whether it is told the truth about the end or not, the
\* codec answers within the slices.
HandlesAny(C, size, room, st, fresh) ==
  LET in == st.win \o fresh
      answer == Answer(st, fresh, room)
  IN  Len(in) <= size /\ answer.kind # "Err" =>
        /\ answer.made \in Seq(Nat)
        /\ Contract(answer.kind, answer.took, Len(answer.made), Len(in), room,
                    size + 1, {<<0, 0>>}, fresh = <<>>)
        /\ answer.kind # "BufError" => Stays(C, answer, in)

Contained(C, size, room) ==
  \A st \in C : \A fresh \in Seq(Nat) : HandlesAny(C, size, room, st, fresh)

ContainedAlone(st, size, room) == \E C : st \in C /\ Contained(C, size, room)

\* What a chain makes of an input.
Intends(c, in) ==
  Due(Len(c), [k \in 1 .. Len(c) |-> At(Start(c[k]), <<>>)],
      [k \in 0 .. Len(c) - 1 |-> <<>>], in)[Len(c)]

\* Every stage of every chain streams, in every buffer size, and is contained
\* when the chain may be given a malformed input.
AllReliable ==
  \A c \in Chains : \A size \in BufSizes : \A k \in 1 .. Len(c) :
    LET st == At(Start(c[k]), <<>>)
        room == Writes(c, size, k)
    IN  /\ StreamsAlone(st, size, room)
        /\ ContainedAlone(st, size, room) \/ \A in \in Sources(c) : Intends(c, in) # Malformed

-----------------------------------------------------------------------------
(***************************************************************************)
(* The inductive invariant: TypeOK, Balance and these.                     *)
(***************************************************************************)
StagesStream == \A k \in 1 .. Top : StreamsAlone(stage[k], bufsize, Room(k))
StagesContained == \A k \in 1 .. Top : ContainedAlone(stage[k], bufsize, Room(k))

StagesReliable == IF meaning = Malformed THEN StagesContained ELSE StagesStream

MeansSomething == meaning \in Seq(Nat) \cup {Malformed}

\* What is due of a stage is bytes, or nothing that could be.
LEMMA OwedRanged ==
  ASSUME TypeOK, StagesStream
  PROVE  \A k \in 0 .. Top : Owed[k] \in Seq(Nat) \cup {Malformed}
<1> DEFINE bad == {k \in 0 .. Top : Owed[k] \notin Seq(Nat) \cup {Malformed}}
<1>1. SUFFICES ASSUME bad # {} PROVE FALSE
  OBVIOUS
<1>2. bad \in SUBSET Nat /\ Top \in Nat
  BY Sizes
<1>3. PICK k \in bad : \A i \in bad : k <= i
  BY <1>1, <1>2, HasLeast
<1>4. k \in 1 .. Top /\ k - 1 \in 0 .. Top /\ k - 1 \in 0 .. Top - 1
  <2>1. Owed[0] \in Seq(Nat)
    BY OwedIs
  <2>2. QED
    BY <1>2, <1>3, <2>1
<1>5. k - 1 \notin bad
  BY <1>2, <1>3, <1>4
<1>6. Owed[k - 1] \in Seq(Nat) \cup {Malformed}
  BY <1>4, <1>5
<1>7. Owed[k] = IF Owed[k - 1] = Malformed THEN Malformed
                ELSE Meaning(stage[k].codec, stage[k].win \o spare[k - 1] \o Owed[k - 1])
  BY <1>4, OwedIs
<1>8. Owed[k - 1] \in Seq(Nat) /\ Owed[k - 1] # Malformed
  BY <1>3, <1>6, <1>7
<1>9. stage[k].win \o spare[k - 1] \o Owed[k - 1] \in Seq(Nat)
  <2>1. stage[k].win \in Seq(Nat) /\ spare[k - 1] \in Seq(Nat)
    BY <1>4 DEF TypeOK
  <2>2. stage[k].win \o spare[k - 1] \in Seq(Nat)
    BY <2>1, ConcatProperties
  <2>3. QED
    BY <1>8, <2>2, ConcatProperties
<1>10. Meaning(stage[k].codec, stage[k].win \o spare[k - 1] \o Owed[k - 1])
         \in Seq(Nat) \cup {Malformed}
  BY <1>4, <1>9 DEF StagesStream, StreamsAlone, Ranged
<1>11. QED
  BY <1>3, <1>7, <1>8, <1>10

\* Of a chain with a meaning every stage has one.
LEMMA OwedBytes ==
  ASSUME TypeOK, StagesStream, Owed[Top] # Malformed
  PROVE  \A k \in 0 .. Top : Owed[k] \in Seq(Nat) /\ Owed[k] # Malformed
<1>1. SUFFICES ASSUME NEW k \in 0 .. Top, Owed[k] = Malformed PROVE FALSE
  BY OwedRanged
<1> DEFINE good == {j \in k .. Top : Owed[j] # Malformed}
<1>2. good \in SUBSET Nat /\ Top \in good /\ Top \in Nat
  BY Sizes
<1>3. PICK j \in good : \A i \in good : j <= i
  BY <1>2, HasLeast
<1>4. j \in 1 .. Top /\ j - 1 \in k .. Top
  BY <1>1, <1>2, <1>3
<1>5. j - 1 \notin good
  BY <1>2, <1>3, <1>4
<1>6. Owed[j - 1] = Malformed
  BY <1>4, <1>5
<1>7. Owed[j] = Malformed
  BY <1>4, <1>6, OwedIs
<1>8. QED
  BY <1>3, <1>7

\* Nothing that was written can make up for it.
LEMMA MalformedLast ==
  ASSUME NEW s \in Seq(Nat)
  PROVE  s \o Malformed = Malformed \/ s \o Malformed \notin Seq(Nat)
<1>1. Malformed \in Seq(Int) /\ Len(Malformed) = 1 /\ Malformed[1] = -1
  BY DEF Malformed
<1>2. s \in Seq(Int) /\ Len(s) \in Nat
  BY SeqMonotonic, LenProperties
<1>3. (s \o Malformed)[Len(s) + 1] = -1 /\ Len(s \o Malformed) = Len(s) + 1
  <2>1. Len(s \o Malformed) = Len(s) + 1
    <3>1. Len(s \o Malformed) = Len(s) + Len(Malformed)
      BY <1>1, <1>2, ConcatProperties
    <3>2. QED
      BY <1>1, <3>1
  <2>2. Len(s) + 1 \in 1 .. Len(s) + Len(Malformed) /\ ~(Len(s) + 1 <= Len(s))
        /\ (Len(s) + 1) - Len(s) = 1
    BY <1>1, <1>2
  <2>3. (s \o Malformed)[Len(s) + 1] = Malformed[(Len(s) + 1) - Len(s)]
    BY <1>1, <1>2, <2>2, ConcatProperties
  <2>4. QED
    BY <1>1, <2>1, <2>2, <2>3
<1>4. ASSUME s \o Malformed \in Seq(Nat) PROVE FALSE
  <2>1. Len(s) + 1 \in 1 .. Len(s \o Malformed)
    BY <1>2, <1>3
  <2>2. (s \o Malformed)[Len(s) + 1] \in Nat
    BY <1>4, <2>1, ElementOfSeq
  <2>3. QED
    BY <1>3, <2>2
<1>5. QED
  BY <1>4

\* As long as the balance is kept, what is due is bytes.
LEMMA StillMeans ==
  ASSUME TypeOK, StagesReliable, MeansSomething, Balance, meaning # Malformed
  PROVE  \A k \in 0 .. Top : Owed[k] \in Seq(Nat) /\ Owed[k] # Malformed
<1>1. meaning \in Seq(Nat) /\ meaning = out \o Owed[Top] /\ out \in Seq(Nat)
  BY DEF MeansSomething, Balance, Paid, TypeOK
<1>2. Owed[Top] # Malformed
  BY <1>1, MalformedLast
<1>3. QED
  BY <1>2, OwedBytes DEF StagesReliable

-----------------------------------------------------------------------------
(***************************************************************************)
(* What the stages answer.                                                 *)
(***************************************************************************)
\* What a round shows is the window and something fresh.
LEMMA ShownFresh ==
  ASSUME TypeOK, NEW answer \in Answers
  PROVE  /\ Ready /\ active \in 1 .. Top
         /\ Fresh \in Seq(Nat)
         /\ Window = stage[active].win
         /\ answer = Answer(stage[active], Fresh, Room(active))
<1>1. Ready
  BY DEF Answers
<1>2. active \in 1 .. Top /\ active - 1 \in 0 .. Top - 1
  BY <1>1, Shown, Sizes
<1>3. Window \in Seq(Nat) /\ Len(Window) <= bufsize /\ Below \in Seq(Nat)
  BY <1>2 DEF TypeOK, Window, Below
<1>4. bufsize - Len(Window) \in Nat
  BY <1>3, Sizes, LenProperties
<1>5. Fresh \in Seq(Nat)
  BY <1>3, <1>4, FirstsIs DEF Fresh
<1>6. answer = Transform(stage[active].codec, Input, Room(active), AtEof)
  BY <1>1 DEF Answers
<1>7. QED
  BY <1>1, <1>2, <1>5, <1>6 DEF Answer, Input, Window, AtEof

\* What is due of the stage that runs: the meaning of all that it will see.
LEMMA DueOfInput ==
  ASSUME TypeOK, Ready, Owed[active - 1] \in Seq(Nat), Owed[active - 1] # Malformed
  PROVE  /\ Later \in Seq(Nat)
         /\ Owed[active] = Meaning(stage[active].codec, Input \o Later)
<1>1. /\ active \in 1 .. Top
      /\ Window \in Seq(Nat) /\ Below \in Seq(Nat) /\ Input \in Seq(Nat)
      /\ Skip(Below, Len(Fresh)) \in Seq(Nat)
      /\ Input \o Skip(Below, Len(Fresh)) = Window \o Below
  BY Shown
<1>2. Later \in Seq(Nat)
  BY <1>1, ConcatProperties DEF Later
<1>3. Owed[active] = Meaning(stage[active].codec, Window \o Below \o Owed[active - 1])
  BY <1>1, OwedIs DEF Window, Below
<1>4. (Input \o Skip(Below, Len(Fresh))) \o Owed[active - 1]
        = Input \o (Skip(Below, Len(Fresh)) \o Owed[active - 1])
  BY <1>1, Joined, Zenon
<1>5. QED
  BY <1>1, <1>2, <1>3, <1>4 DEF Later

\* Every answer of a stage is a good one.
LEMMA GoodAnswer ==
  ASSUME TypeOK, StagesReliable, MeansSomething, Balance, meaning # Malformed,
         NEW answer \in Answers
  PROVE  /\ answer.made \in Seq(Nat)
         /\ Contract(answer.kind, answer.took, Len(answer.made), Len(Input), Room(active),
                     bufsize, {}, AtEof)
         /\ ~(answer.kind = "SeqError" /\ answer.took = 0 /\ AtEof)
         /\ Owed[active] = answer.made \o Rest(answer)
         /\ Rest(answer) \in Seq(Nat)
         /\ answer.made = <<>> /\ (AtEof \/ answer.kind = "StreamEnd") => Rest(answer) = <<>>
         /\ \E C : /\ Ranged(C, Room(active)) /\ Truthful(C, bufsize, Room(active))
                   /\ Stays(C, answer, Input)
<1>1. /\ Ready /\ active \in 1 .. Top /\ Fresh \in Seq(Nat) /\ Window = stage[active].win
      /\ answer = Answer(stage[active], Fresh, Room(active))
  BY ShownFresh
<1>2. active \in 0 .. Top /\ active - 1 \in 0 .. Top
  BY <1>1, Sizes
<1>3. /\ Owed[active] \in Seq(Nat) /\ Owed[active] # Malformed
      /\ Owed[active - 1] \in Seq(Nat) /\ Owed[active - 1] # Malformed
  BY <1>2, StillMeans
<1>4. /\ Later \in Seq(Nat)
      /\ Owed[active] = Meaning(stage[active].codec, Input \o Later)
  BY <1>1, <1>3, DueOfInput
<1>5. AtEof => Later = <<>>
  BY <1>1, NothingLater DEF Balance
<1>6. PICK C : /\ stage[active] \in C
               /\ Ranged(C, Room(active)) /\ Truthful(C, bufsize, Room(active))
  BY <1>1 DEF StagesReliable, StagesStream, StreamsAlone
<1>7. Len(Input) <= bufsize
  BY <1>1, Shown
<1>8. Tells(C, bufsize, Room(active), stage[active], Fresh, Later)
  BY <1>1, <1>4, <1>6 DEF Truthful
<1>9. QED
  BY <1>1, <1>3, <1>4, <1>5, <1>6, <1>7, <1>8 DEF Tells, AtEof, Input, Rest

\* And it keeps the contract.
LEMMA ReliableKeeps ==
  ASSUME TypeOK, StagesReliable, MeansSomething, Balance
  PROVE  KeepsContract
<1> SUFFICES ASSUME NEW answer \in Answers, answer.kind # "Err"
             PROVE  /\ answer.made \in Seq(Nat)
                    /\ Contract(answer.kind, answer.took, Len(answer.made), Len(Input),
                                Room(active),
                                IF meaning = Malformed THEN bufsize + 1 ELSE bufsize,
                                {<<0, 0>>}, AtEof)
  BY DEF KeepsContract
<1>1. CASE meaning = Malformed
  <2>1. /\ Ready /\ active \in 1 .. Top /\ Fresh \in Seq(Nat) /\ Window = stage[active].win
        /\ answer = Answer(stage[active], Fresh, Room(active))
    BY ShownFresh
  <2>2. Len(Input) <= bufsize
    BY <2>1, Shown
  <2>3. PICK C : stage[active] \in C /\ Contained(C, bufsize, Room(active))
    BY <1>1, <2>1 DEF StagesReliable, StagesContained, ContainedAlone
  <2>4. HandlesAny(C, bufsize, Room(active), stage[active], Fresh)
    BY <2>1, <2>3 DEF Contained
  <2>5. QED
    BY <1>1, <2>1, <2>2, <2>4 DEF HandlesAny, Input, AtEof
<1>2. CASE meaning # Malformed
  <2>1. /\ answer.made \in Seq(Nat)
        /\ Contract(answer.kind, answer.took, Len(answer.made), Len(Input), Room(active),
                    bufsize, {}, AtEof)
    BY <1>2, GoodAnswer
  <2>2. QED
    BY <1>2, <2>1 DEF Contract
<1>3. QED
  BY <1>1, <1>2

\* And it streams.
LEMMA ReliableStreams ==
  ASSUME TypeOK, StagesReliable, MeansSomething, Balance
  PROVE  Streams
<1> SUFFICES ASSUME meaning # Malformed
             PROVE
    /\ \A k \in 1 .. Top : BufferSize(stage[k].codec) \in 0 .. Room(k)
    /\ \A k \in 0 .. Top : Owed[k] \in Seq(Nat)
    /\ \A answer \in Answers : (AtEof => Later = <<>>) =>
         LET rest == Meaning(answer.codec, Skip(Input, answer.took) \o Later)
         IN  /\ Failure(answer) = "none"
             /\ Owed[active] = answer.made \o rest
             /\ rest \in Seq(Nat)
             /\ answer.made = <<>> /\ ~AsksAgain(answer) => rest = <<>>
  BY DEF Streams
<1>1. \A k \in 1 .. Top : BufferSize(stage[k].codec) \in 0 .. Room(k)
  BY DEF StagesReliable, StagesStream, StreamsAlone, Ranged
<1>2. \A k \in 0 .. Top : Owed[k] \in Seq(Nat)
  BY StillMeans
<1>3. ASSUME NEW answer \in Answers
      PROVE  /\ Failure(answer) = "none"
             /\ Owed[active] = answer.made \o Rest(answer)
             /\ Rest(answer) \in Seq(Nat)
             /\ answer.made = <<>> /\ ~AsksAgain(answer) => Rest(answer) = <<>>
  <2>1. /\ answer.kind \in {"Ok", "SeqError", "StreamEnd"}
        /\ ~(answer.kind = "SeqError" /\ answer.took = 0 /\ AtEof)
        /\ Owed[active] = answer.made \o Rest(answer)
        /\ Rest(answer) \in Seq(Nat)
        /\ answer.made = <<>> /\ (AtEof \/ answer.kind = "StreamEnd") => Rest(answer) = <<>>
    BY GoodAnswer DEF Contract, Kinds
  <2>2. Failure(answer) = "none"
    BY <2>1 DEF Failure
  <2>3. answer.made = <<>> /\ ~AsksAgain(answer) => AtEof \/ answer.kind = "StreamEnd"
    BY <2>1 DEF AsksAgain
  <2>4. QED
    BY <2>1, <2>2, <2>3
<1>4. QED
  BY <1>1, <1>2, <1>3 DEF Rest

-----------------------------------------------------------------------------
(***************************************************************************)
(* The stages stay reliable.                                               *)
(***************************************************************************)
\* A step that leaves the chain and its stages.
LEMMA ReliableStays ==
  ASSUME StagesReliable, UNCHANGED <<fixed, stage>>
  PROVE  StagesReliable'
BY DEF StagesReliable, StagesStream, StagesContained, fixed, Top, Room

\* A codec that has answered is still reliable, with what it left of the input.
LEMMA SettledReliable ==
  ASSUME TypeOK, KeepsContract, StagesReliable, MeansSomething, Balance,
         NEW answer \in Answers,
         answer.kind # "Err", answer.kind # "BufError", Settle(answer)
  PROVE  StagesReliable'
<1>1. /\ Ready /\ active \in 1 .. Top /\ Fresh \in Seq(Nat) /\ Window = stage[active].win
      /\ answer = Answer(stage[active], Fresh, Room(active))
  BY ShownFresh
<1>2. stage' = [stage EXCEPT ![active] = At(answer.codec, Skip(Input, answer.took))]
  BY DEF Settle, At
<1>3. /\ DOMAIN stage = 1 .. Top /\ UNCHANGED fixed
      /\ Top' = Top /\ \A k : Room(k)' = Room(k)
  BY DEF TypeOK, Settle, fixed, Top, Room
<1>4. /\ stage'[active] = At(answer.codec, Skip(Input, answer.took))
      /\ \A k \in 1 .. Top : k # active => stage'[k] = stage[k]
  BY <1>1, <1>2, <1>3
<1>5. CASE meaning = Malformed
  <2>1. PICK C : stage[active] \in C /\ Contained(C, bufsize, Room(active))
    BY <1>1, <1>5 DEF StagesReliable, StagesContained, ContainedAlone
  <2>2. HandlesAny(C, bufsize, Room(active), stage[active], Fresh)
    BY <1>1, <2>1 DEF Contained
  <2>3. Len(Input) <= bufsize
    BY <1>1, Shown
  <2>4. stage'[active] \in C
    BY <1>1, <1>4, <2>2, <2>3 DEF HandlesAny, Input, Stays
  <2>5. \A k \in 1 .. Top : ContainedAlone(stage'[k], bufsize, Room(k))
    BY <1>4, <1>5, <2>1, <2>4 DEF StagesReliable, StagesContained, ContainedAlone
  <2>6. QED
    BY <1>3, <1>5, <2>5 DEF StagesReliable, StagesContained, fixed
<1>6. CASE meaning # Malformed
  <2>1. PICK C : /\ Ranged(C, Room(active)) /\ Truthful(C, bufsize, Room(active))
                 /\ Stays(C, answer, Input)
    BY <1>6, GoodAnswer
  <2>2. stage'[active] \in C
    BY <1>4, <2>1 DEF Stays
  <2>3. \A k \in 1 .. Top : StreamsAlone(stage'[k], bufsize, Room(k))
    BY <1>4, <1>6, <2>1, <2>2 DEF StagesReliable, StagesStream, StreamsAlone
  <2>4. QED
    BY <1>3, <1>6, <2>3 DEF StagesReliable, StagesStream, fixed
<1>7. QED
  BY <1>5, <1>6

\* Every step leaves them reliable.
LEMMA NextReliable ==
  TypeOK /\ KeepsContract /\ StagesReliable /\ MeansSomething /\ Balance /\ [Next]_vars
    => StagesReliable' /\ MeansSomething'
<1> SUFFICES ASSUME TypeOK, KeepsContract, StagesReliable, MeansSomething, Balance, [Next]_vars
             PROVE  StagesReliable' /\ MeansSomething'
  OBVIOUS
<1>1. CASE Copy
  BY <1>1, ReliableStays DEF Copy, fixed, MeansSomething
<1>2. CASE Ask
  BY <1>2, ReliableStays DEF Ask, fixed, MeansSomething
<1>3. ASSUME NEW n \in 0 .. bufsize, Read(n) PROVE StagesReliable' /\ MeansSomething'
  BY <1>3, ReliableStays DEF Read, fixed, MeansSomething
<1>4. ASSUME NEW r \in {"Interrupted", "IO"}, ReadFail(r)
      PROVE StagesReliable' /\ MeansSomething'
  BY <1>4, ReliableStays DEF ReadFail, fixed, MeansSomething
<1>5. ASSUME NEW answer \in Answers, Continue(answer) PROVE StagesReliable' /\ MeansSomething'
  <2>1. answer.kind # "Err" /\ answer.kind # "BufError" /\ Settle(answer)
    BY <1>5 DEF Continue, AsksAgain
  <2>2. QED
    BY <2>1, SettledReliable DEF Settle, fixed, MeansSomething
<1>6. ASSUME NEW answer \in Answers, Return(answer) PROVE StagesReliable' /\ MeansSomething'
  <2>1. answer.kind # "Err" /\ Settle(answer)
    BY <1>6, NoFailure DEF Return
  <2>2. answer.kind # "BufError"
    BY <1>6, <2>1, NoFailure, Answered DEF Return
  <2>3. QED
    BY <2>1, <2>2, SettledReliable DEF Settle, fixed, MeansSomething
<1>7. ASSUME NEW answer \in Answers, Fail(answer) PROVE StagesReliable' /\ MeansSomething'
  BY <1>7, ReliableStays DEF Fail, fixed, MeansSomething
<1>8. CASE UNCHANGED vars
  BY <1>8, ReliableStays DEF vars, fixed, MeansSomething
<1>9. QED
  BY <1>1, <1>2, <1>3, <1>4, <1>5, <1>6, <1>7, <1>8 DEF Next, Round

\* The meaning is what the chain intends, and what is due.
LEMMA InitMeaning ==
  Init => meaning = Owed[Top] /\ meaning = Intends(chain, src)
<1> SUFFICES ASSUME Init PROVE meaning = Owed[Top] /\ meaning = Intends(chain, src)
  OBVIOUS
<1>1. Top \in Nat \ {0} /\ src \in Seq(Nat)
  BY InitType, Sizes
<1>2. Skip(src, pos) = src
  BY <1>1, SkipIs, LenProperties DEF Init
<1>3. QED
  BY <1>2 DEF Init, Owed, Intends, At, Top

\* At first every stage streams.
LEMMA InitStreaming ==
  ASSUME AllReliable
  PROVE  Init => StagesStream
<1> SUFFICES ASSUME Init, NEW k \in 1 .. Top
             PROVE  StreamsAlone(stage[k], bufsize, Room(k))
  BY DEF StagesStream
<1>1. chain \in Chains /\ bufsize \in BufSizes /\ k \in 1 .. Len(chain)
  BY DEF Init, Top
<1>2. StreamsAlone(At(Start(chain[k]), <<>>), bufsize, Writes(chain, bufsize, k))
  BY <1>1 DEF AllReliable
<1>3. stage[k] = At(Start(chain[k]), <<>>)
  BY DEF Init, At
<1>4. Room(k) = Writes(chain, bufsize, k)
  BY DEF Room, Writes, Top
<1>5. QED
  BY <1>2, <1>3, <1>4

\* And is contained where it must.
LEMMA InitReliable ==
  ASSUME AllReliable
  PROVE  Init => StagesReliable /\ MeansSomething
<1> SUFFICES ASSUME Init PROVE StagesReliable /\ MeansSomething
  OBVIOUS
<1>1. TypeOK /\ StagesStream
  BY InitType, InitStreaming
<1>2. MeansSomething
  <2>1. Top \in 0 .. Top
    BY <1>1, Sizes
  <2>2. QED
    BY <1>1, <2>1, InitMeaning, OwedRanged DEF MeansSomething
<1>3. ASSUME meaning = Malformed PROVE StagesContained
  <2>1. SUFFICES ASSUME NEW k \in 1 .. Top
                 PROVE  ContainedAlone(stage[k], bufsize, Room(k))
    BY DEF StagesContained
  <2>2. chain \in Chains /\ bufsize \in BufSizes /\ k \in 1 .. Len(chain)
        /\ src \in Sources(chain) /\ Intends(chain, src) = Malformed
    BY <1>3, InitMeaning DEF Init, Top
  <2>3. ContainedAlone(At(Start(chain[k]), <<>>), bufsize, Writes(chain, bufsize, k))
    BY <2>2 DEF AllReliable
  <2>4. stage[k] = At(Start(chain[k]), <<>>)
    BY DEF Init, At
  <2>5. Room(k) = Writes(chain, bufsize, k)
    BY DEF Room, Writes, Top
  <2>6. QED
    BY <2>3, <2>4, <2>5
<1>4. QED
  BY <1>1, <1>2, <1>3 DEF StagesReliable

\* And nothing has been asked yet, so that Streams holds.
LEMMA InitStreams ==
  ASSUME AllReliable
  PROVE  Init => Streams
<1> SUFFICES ASSUME Init, meaning # Malformed PROVE Streams
  BY DEF Streams
<1>1. TypeOK /\ StagesStream
  BY InitType, InitStreaming
<1>2. \A k \in 1 .. Top : BufferSize(stage[k].codec) \in 0 .. Room(k)
  BY <1>1 DEF StagesStream, StreamsAlone, Ranged
<1>3. \A k \in 0 .. Top : Owed[k] \in Seq(Nat)
  BY <1>1, InitMeaning, OwedBytes
<1>4. Answers = {}
  BY DEF Init, Answers, Ready
<1>5. QED
  BY <1>2, <1>3, <1>4 DEF Streams

-----------------------------------------------------------------------------
(***************************************************************************)
(* Chains of reliable codecs.                                              *)
(***************************************************************************)
Sound == TypeOK /\ StagesReliable /\ MeansSomething /\ Balance

\* The inductive invariant.
LEMMA SoundAlways ==
  ASSUME AllReliable
  PROVE  Spec => []Sound
<1>1. Init => Sound
  BY InitType, InitReliable, InitStreams, InitBalance DEF Sound
<1>2. Sound /\ [Next]_vars => Sound'
  <2>1. Sound => KeepsContract /\ Streams
    BY ReliableKeeps, ReliableStreams DEF Sound
  <2>2. QED
    BY <2>1, NextType, NextBalance, NextReliable DEF Sound
<1>3. QED
  BY <1>1, <1>2, PTL DEF Spec

\* In every chain of reliable codecs, every answer that is given keeps the
\* contract (mod.rs:199-208, 289): within the slices, and something of a full
\* window consumed.
THEOREM ContractKept ==
  ASSUME AllReliable
  PROVE  Spec => []KeepsContract
<1>1. Sound => KeepsContract
  BY ReliableKeeps DEF Sound
<1>2. QED
  BY <1>1, SoundAlways, PTL

\* And what is answered and what is still made of the rest is what was due of
\* the stage, without a complaint about a well-formed input (mod.rs:111-208,
\* 304-321).
THEOREM AlwaysStreams ==
  ASSUME AllReliable
  PROVE  Spec => []Streams
<1>1. Sound => Streams
  BY ReliableStreams DEF Sound
<1>2. QED
  BY <1>1, SoundAlways, PTL

\* So that the chain writes what its codecs make of the whole input, one after
\* the other, and nothing else before; complains of malformed inputs only; and
\* is one stream for whoever reads it (mod.rs:272-353).
THEOREM ReliableChains ==
  ASSUME AllReliable
  PROVE  Spec => []WritesTheMeaning /\ []NoFalseAlarm /\ ImplementsDelivery
BY ContractKept, AlwaysStreams, WholeMeaning, OnlyMalformed, Refinement, PTL

-----------------------------------------------------------------------------
(***************************************************************************)
(* Codecs that keep nothing back, and chains without malformed inputs.     *)
(***************************************************************************)
\* A codec without a state takes all that it is shown and makes of it what it
\* means.
TakesWhole(s, in, room, fin) ==
  LET answer == Transform(s, in, room, fin)
  IN  /\ answer.codec = s
      /\ answer.kind \in {"Ok", "StreamEnd"} /\ (answer.kind = "StreamEnd" => fin)
      /\ answer.took = Len(in)
      /\ answer.made = Meaning(s, in) /\ Len(answer.made) <= room

\* So it does with whatever fits its window, and what comes next means the same
\* without it.
TakesAll(s, size, room) ==
  /\ BufferSize(s) \in 0 .. room
  /\ \A a, b \in Seq(Nat) : /\ Meaning(s, a) \in Seq(Nat)
                            /\ Meaning(s, a \o b) = Meaning(s, a) \o Meaning(s, b)
  /\ Meaning(s, <<>>) = <<>>
  /\ \A in \in Seq(Nat) : \A fin \in BOOLEAN : Len(in) <= size => TakesWhole(s, in, room, fin)

\* Such a codec streams.
LEMMA TakerStreams ==
  ASSUME NEW s, NEW size \in Nat, NEW room \in Nat, TakesAll(s, size, room)
  PROVE  StreamsAlone(At(s, <<>>), size, room)
<1> DEFINE C == {At(s, <<>>)}
<1>1. Ranged(C, room)
  BY DEF Ranged, TakesAll, At
<1>2. ASSUME NEW fresh \in Seq(Nat), NEW later \in Seq(Nat)
      PROVE  Tells(C, size, room, At(s, <<>>), fresh, later)
  <2> DEFINE answer == Answer(At(s, <<>>), fresh, room)
             rest == Meaning(answer.codec, Skip(fresh, answer.took) \o later)
  <2>1. At(s, <<>>).win = <<>> /\ At(s, <<>>).codec = s /\ <<>> \o fresh = fresh
    BY ConcatEmptySeq DEF At
  <2>2. SUFFICES ASSUME Len(fresh) <= size, fresh = <<>> => later = <<>>
        PROVE  /\ answer.made \in Seq(Nat)
               /\ Contract(answer.kind, answer.took, Len(answer.made), Len(fresh), room, size, {},
                           fresh = <<>>)
               /\ ~(answer.kind = "SeqError" /\ answer.took = 0 /\ fresh = <<>>)
               /\ Meaning(s, fresh \o later) = answer.made \o rest
               /\ rest \in Seq(Nat)
               /\ answer.made = <<>> /\ (fresh = <<>> \/ answer.kind = "StreamEnd") => rest = <<>>
               /\ Stays(C, answer, fresh)
    BY <2>1 DEF Tells
  <2>3. answer = Transform(s, fresh, room, fresh = <<>>)
    BY <2>1 DEF Answer
  <2>4. /\ answer.codec = s
        /\ answer.kind \in {"Ok", "StreamEnd"} /\ (answer.kind = "StreamEnd" => fresh = <<>>)
        /\ answer.took = Len(fresh)
        /\ answer.made = Meaning(s, fresh) /\ Len(answer.made) <= room
    <3>1. (fresh = <<>>) \in BOOLEAN
      OBVIOUS
    <3>2. TakesWhole(s, fresh, room, fresh = <<>>)
      BY <2>2, <3>1 DEF TakesAll
    <3> HIDE DEF answer
    <3>3. QED
      BY <2>3, <3>2 DEF TakesWhole
  <2>5. Len(fresh) \in Nat /\ (fresh # <<>> => Len(fresh) > 0)
    BY EmptySeq, LenProperties
  <2>6. Skip(fresh, Len(fresh)) = <<>> /\ <<>> \o later = later
    BY <2>5, SkipIs, ConcatEmptySeq
  <2>7. rest = Meaning(s, later)
    BY <2>4, <2>6
  <2> HIDE DEF answer, rest
  <2>8. /\ Meaning(s, fresh) \in Seq(Nat) /\ Meaning(s, later) \in Seq(Nat)
        /\ Meaning(s, fresh \o later) = Meaning(s, fresh) \o Meaning(s, later)
        /\ Meaning(s, <<>>) = <<>>
    BY DEF TakesAll
  <2>9. Len(answer.made) \in Nat
    BY <2>4, <2>8, LenProperties
  <2>10. Contract(answer.kind, answer.took, Len(answer.made), Len(fresh), room, size, {},
                  fresh = <<>>)
    BY <2>4, <2>5, <2>9 DEF Contract, Kinds
  <2>11. Stays(C, answer, fresh)
    BY <2>4, <2>6 DEF Stays
  <2>12. QED
    BY <2>2, <2>4, <2>7, <2>8, <2>10, <2>11
<1>3. Truthful(C, size, room)
  BY <1>2 DEF Truthful
<1>4. At(s, <<>>) \in C
  OBVIOUS
<1> HIDE DEF C
<1>5. QED
  BY <1>1, <1>3, <1>4 DEF StreamsAlone

\* A chain of codecs that make something of every input does so, too.
LEMMA IntendsBytes ==
  ASSUME NEW c \in Chains, NEW in \in Sources(c),
         \A k \in 1 .. Len(c) : \A any \in Seq(Nat) : Meaning(Start(c[k]), any) \in Seq(Nat)
  PROVE  Intends(c, in) # Malformed
<1> DEFINE n == Len(c)
           stages == [k \in 1 .. n |-> At(Start(c[k]), <<>>)]
           spares == [k \in 0 .. n - 1 |-> <<>>]
           due == Due(n, stages, spares, in)
           bad == {k \in 0 .. n : due[k] \notin Seq(Nat)}
<1>1. n \in Nat \ {0} /\ in \in Seq(Nat)
  BY PipelineAssumption
<1>2. ASSUME NEW k \in 1 .. n
      PROVE  stages[k].codec = Start(c[k]) /\ stages[k].win = <<>> /\ spares[k - 1] = <<>>
  <2>1. k - 1 \in 0 .. n - 1
    BY <1>1
  <2>2. QED
    BY <2>1 DEF At
<1> HIDE DEF stages, spares, n
<1>3. /\ due[0] = in
      /\ \A k \in 1 .. n :
           due[k] = IF due[k - 1] = Malformed THEN Malformed
                    ELSE Meaning(stages[k].codec, stages[k].win \o spares[k - 1] \o due[k - 1])
  BY <1>1, DueIs
<1> HIDE DEF due
<1>4. ASSUME bad # {} PROVE FALSE
  <2>1. bad \in SUBSET Nat
    BY <1>1
  <2>2. PICK k \in bad : \A i \in bad : k <= i
    BY <1>4, <2>1, HasLeast
  <2>3. k \in 1 .. n /\ k - 1 \in 0 .. n /\ k - 1 \notin bad
    BY <1>1, <1>3, <2>2
  <2>4. due[k - 1] \in Seq(Nat) /\ due[k - 1] # Malformed
    BY <2>3, NotMalformed
  <2>5. <<>> \o <<>> \o due[k - 1] = due[k - 1]
    BY <2>4, ConcatEmptySeq
  <2>6. due[k] = Meaning(Start(c[k]), due[k - 1])
    BY <1>2, <1>3, <2>3, <2>4, <2>5
  <2>7. QED
    BY <2>2, <2>3, <2>4, <2>6 DEF n
<1>5. due[n] \in Seq(Nat)
  BY <1>1, <1>4 DEF n
<1>6. Intends(c, in) = due[n]
  BY DEF Intends, due, stages, spares, n
<1>7. QED
  BY <1>5, <1>6, NotMalformed
=============================================================================
