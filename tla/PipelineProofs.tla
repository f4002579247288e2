--------------------------- MODULE PipelineProofs ---------------------------
(***************************************************************************)
(* Proofs about chains of codecs, for every chain, buffer size, input and  *)
(* way in which the input arrives.  Of the codecs they assume what each    *)
(* answer must satisfy: KeepsContract, and Streams.                        *)
(*                                                                         *)
(* The inductive invariant is TypeOK and Balance.  What was written and    *)
(* what is due of the last stage are the meaning (Paid); a step changes    *)
(* what is due of one stage at most, and by Streams only by the answer it  *)
(* hands on.  That needs the codec to be told of the end truthfully, which *)
(* is what Told and Open say of the two ways in which a read of nothing    *)
(* comes about; and a window can only fill up at the end because codecs    *)
(* consume something of a full one (KeepsContract).                        *)
(***************************************************************************)
EXTENDS Pipeline, Inductions, SequenceTheorems, TLAPS

(***************************************************************************)
(* What is due.                                                            *)
(***************************************************************************)

\* What is due of a stage, from what is due of the stage below.
Step(due, stages, spares, rest, k) ==
  IF k = 0 THEN rest
  ELSE IF due[k - 1] = Malformed THEN Malformed
  ELSE Meaning(stages[k].codec, stages[k].win \o spares[k - 1] \o due[k - 1])

\* A function that satisfies the recursion of Due.
Solves(due, n, stages, spares, rest) ==
  due = [k \in 0 .. n |-> Step(due, stages, spares, rest, k)]

\* The recursion of Due has a solution.
LEMMA DueExists ==
  ASSUME NEW n \in Nat, NEW stages, NEW spares, NEW rest
  PROVE  \E due : Solves(due, n, stages, spares, rest)
<1> DEFINE bad == {m \in Nat : ~ \E due : Solves(due, m, stages, spares, rest)}
<1>1. SUFFICES ASSUME bad # {} PROVE FALSE
  OBVIOUS
<1>2. PICK m \in bad : \A i \in bad : m <= i
  BY <1>1, HasLeast
<1>3. CASE m = 0
  <2> DEFINE due == [k \in 0 .. 0 |-> rest]
  <2>1. due = [k \in 0 .. 0 |-> Step(due, stages, spares, rest, k)]
    BY DEF Step
  <2>2. QED
    BY <2>1, <1>2, <1>3 DEF Solves
<1>4. CASE m # 0
  <2>1. m \in Nat /\ m - 1 \in Nat /\ m - 1 \notin bad
    BY <1>2, <1>4
  <2>2. PICK below : Solves(below, m - 1, stages, spares, rest)
    BY <2>1
  <2> DEFINE due == [k \in 0 .. m |-> IF k < m THEN below[k]
                                      ELSE Step(below, stages, spares, rest, m)]
  <2>3. ASSUME NEW k \in 0 .. m PROVE due[k] = Step(due, stages, spares, rest, k)
    <3>1. CASE k = 0
      <4>1. 0 \in 0 .. m - 1 /\ 0 \in 0 .. m /\ 0 < m
        BY <2>1
      <4>2. below[0] = Step(below, stages, spares, rest, 0)
        BY <2>2, <4>1 DEF Solves
      <4>3. due[0] = below[0]
        BY <4>1
      <4>4. QED
        BY <3>1, <4>2, <4>3 DEF Step
    <3>2. CASE k # 0 /\ k < m
      <4>1. k \in 0 .. m - 1 /\ k - 1 \in 0 .. m /\ k - 1 < m
        BY <2>1, <3>2
      <4>2. below[k] = Step(below, stages, spares, rest, k)
        BY <2>2, <4>1 DEF Solves
      <4>3. due[k] = below[k] /\ due[k - 1] = below[k - 1]
        BY <3>2, <4>1
      <4>4. QED
        BY <3>2, <4>2, <4>3 DEF Step
    <3>3. CASE k = m
      <4>1. m - 1 \in 0 .. m /\ m - 1 < m
        BY <2>1
      <4>2. due[m - 1] = below[m - 1] /\ due[m] = Step(below, stages, spares, rest, m)
        BY <2>1, <4>1
      <4>3. QED
        BY <1>4, <3>3, <4>2 DEF Step
    <3>4. QED
      BY <2>1, <3>1, <3>2, <3>3
  <2>4. Solves(due, m, stages, spares, rest)
    <3>1. due = [k \in 0 .. m |-> due[k]]
      OBVIOUS
    <3> HIDE DEF due
    <3>2. QED
      BY <2>3, <3>1 DEF Solves
  <2>5. QED
    BY <2>4, <1>2
<1>5. QED
  BY <1>3, <1>4

\* Due is what its recursion says.
LEMMA DueIs ==
  ASSUME NEW n \in Nat, NEW stages, NEW spares, NEW rest, NEW due,
         due = Due(n, stages, spares, rest)
  PROVE  /\ DOMAIN due = 0 .. n
         /\ due[0] = rest
         /\ \A k \in 1 .. n :
              due[k] = IF due[k - 1] = Malformed THEN Malformed
                       ELSE Meaning(stages[k].codec,
                                    stages[k].win \o spares[k - 1] \o due[k - 1])
<1>1. due = [k \in 0 .. n |-> Step(due, stages, spares, rest, k)]
  <2>1. due = CHOOSE d : Solves(d, n, stages, spares, rest)
    BY DEF Due, Step, Solves
  <2>2. Solves(due, n, stages, spares, rest)
    BY <2>1, DueExists
  <2>3. QED
    BY <2>2 DEF Solves
<1>2. QED
  BY <1>1 DEF Step

-----------------------------------------------------------------------------
(***************************************************************************)
(* Sequences of bytes.                                                     *)
(***************************************************************************)
\* What is left of a sequence.
LEMMA SkipIs ==
  ASSUME NEW s \in Seq(Nat), NEW n \in 0 .. Len(s)
  PROVE  /\ Skip(s, n) \in Seq(Nat)
         /\ Len(Skip(s, n)) = Len(s) - n
         /\ n = Len(s) => Skip(s, n) = <<>>
         /\ n = 0 => Skip(s, n) = s
<1>1. Len(s) \in Nat /\ \A i \in n + 1 .. Len(s) : s[i] \in Nat
  BY ElementOfSeq, LenProperties
<1>2. Skip(s, n) \in Seq(Nat) /\ Len(Skip(s, n)) = IF n + 1 <= Len(s) THEN Len(s) - (n + 1) + 1 ELSE 0
  BY <1>1, SubSeqProperties DEF Skip
<1>3. n = Len(s) => Skip(s, n) = <<>>
  BY <1>1, SubSeqEmpty DEF Skip
<1>4. n = 0 => Skip(s, n) = s
  BY SubSeqFull DEF Skip
<1>5. QED
  BY <1>1, <1>2, <1>3, <1>4

\* A piece out of a sequence, and what comes after it.
LEMMA Piece ==
  ASSUME NEW s \in Seq(Nat), NEW p \in Nat, NEW n \in Nat, p + n <= Len(s)
  PROVE  /\ SubSeq(s, p + 1, p + n) \in Seq(Nat)
         /\ Len(SubSeq(s, p + 1, p + n)) = n
         /\ SubSeq(s, p + 1, p + n) \o Skip(s, p + n) = Skip(s, p)
<1>1. Len(s) \in Nat
  BY LenProperties
<1>2. \A i \in p + 1 .. p + n : s[i] \in Nat
  BY <1>1, ElementOfSeq
<1>3. SubSeq(s, p + 1, p + n) \in Seq(Nat)
      /\ Len(SubSeq(s, p + 1, p + n)) = IF p + 1 <= p + n THEN p + n - (p + 1) + 1 ELSE 0
  BY <1>1, <1>2, SubSeqProperties
<1>4. p + 1 \in 1 .. Len(s) + 1 /\ p + n \in (p + 1) - 1 .. Len(s) /\ Len(s) \in p + n .. Len(s)
  BY <1>1
<1>5. SubSeq(s, p + 1, p + n) \o SubSeq(s, p + n + 1, Len(s)) = SubSeq(s, p + 1, Len(s))
  BY <1>4, ConcatAdjacentSubSeq
<1>6. Len(SubSeq(s, p + 1, p + n)) = n
  BY <1>3
<1>7. QED
  BY <1>3, <1>5, <1>6 DEF Skip

\* The beginning of a sequence, and the rest.
LEMMA FirstsIs ==
  ASSUME NEW s \in Seq(Nat), NEW n \in Nat
  PROVE  /\ Firsts(s, n) \in Seq(Nat)
         /\ Len(Firsts(s, n)) \in 0 .. Len(s)
         /\ Len(Firsts(s, n)) <= n
         /\ Firsts(s, n) = <<>> => n = 0 \/ s = <<>>
         /\ Firsts(s, n) \o Skip(s, Len(Firsts(s, n))) = s
<1> DEFINE m == Smaller(n, Len(s))
<1>1. Len(s) \in Nat /\ (s # <<>> => Len(s) # 0)
  BY LenProperties, EmptySeq
<1>2. m \in 0 .. Len(s) /\ m <= n /\ (m = 0 => n = 0 \/ Len(s) = 0)
  BY <1>1 DEF Smaller
<1>3. \A i \in 1 .. m : s[i] \in Nat
  BY <1>1, <1>2, ElementOfSeq
<1> HIDE DEF m
<1>4. SubSeq(s, 1, m) \in Seq(Nat) /\ Len(SubSeq(s, 1, m)) = IF 1 <= m THEN m - 1 + 1 ELSE 0
  BY <1>1, <1>2, <1>3, SubSeqProperties
<1>5. Firsts(s, n) = SubSeq(s, 1, m)
  BY DEF Firsts, m
<1>6. Len(Firsts(s, n)) = m /\ Firsts(s, n) \in Seq(Nat)
  BY <1>2, <1>4, <1>5
<1>7. Firsts(s, n) \o Skip(s, m) = s
  <2>1. 1 \in 1 .. Len(s) + 1 /\ m \in 1 - 1 .. Len(s) /\ Len(s) \in m .. Len(s)
    BY <1>1, <1>2
  <2>2. SubSeq(s, 1, m) \o SubSeq(s, m + 1, Len(s)) = SubSeq(s, 1, Len(s))
    BY <2>1, ConcatAdjacentSubSeq
  <2>3. QED
    BY <1>5, <2>2, SubSeqFull DEF Skip
<1>8. Firsts(s, n) = <<>> => m = 0
  BY <1>6, EmptySeq
<1>9. QED
  BY <1>1, <1>2, <1>6, <1>7, <1>8

\* Windows, BufReaders and what is due of the stage below in one line.
LEMMA Joined ==
  ASSUME NEW s \in Seq(Nat), NEW t \in Seq(Nat), NEW u \in Seq(Nat)
  PROVE  (s \o t) \o u = s \o (t \o u)
BY ConcatAssociative, SMTT(30)

\* Nothing is made of nothing.
LEMMA BothEmpty ==
  ASSUME NEW s \in Seq(Nat), NEW t \in Seq(Nat), s \o t = <<>>
  PROVE  s = <<>> /\ t = <<>>
BY ConcatEqualIffEmpty

\* Arithmetic of Enter.
LEMMA Fits ==
  ASSUME NEW room \in Nat, NEW size \in 0 .. room
  PROVE  ~(room < size)
OBVIOUS

\* What was written is a prefix of what will be.
LEMMA PrefixOfConcat ==
  ASSUME NEW s \in Seq(Nat), NEW t \in Seq(Nat)
  PROVE  IsPrefix(s, s \o t) /\ Skip(s \o t, Len(s)) = t
<1>1. Len(s) \in Nat /\ Len(t) \in Nat /\ Len(s \o t) = Len(s) + Len(t) /\ s \o t \in Seq(Nat)
  BY ConcatProperties, LenProperties
<1>2. SubSeq(s \o t, 1, Len(s)) = SubSeq(s, 1, Len(s))
  <2>1. CASE Len(s) = 0
    BY <2>1, SubSeqEmpty
  <2>2. CASE Len(s) # 0
    BY <1>1, <2>2, SubSeqOfConcat1
  <2>3. QED
    BY <2>1, <2>2
<1>3. Skip(s \o t, Len(s)) = t
  <2>1. CASE Len(t) = 0
    <3>1. t = <<>>
      BY <2>1, EmptySeq
    <3>2. QED
      BY <1>1, <2>1, <3>1, SubSeqEmpty DEF Skip
  <2>2. CASE Len(t) # 0
    <3>1. SubSeq(s \o t, Len(s) + 1, Len(s) + Len(t))
            = SubSeq(t, Len(s) + 1 - Len(s), Len(s) + Len(t) - Len(s))
      BY <1>1, <2>2, SubSeqOfConcat2
    <3>2. Len(s) + 1 - Len(s) = 1 /\ Len(s) + Len(t) - Len(s) = Len(t)
      BY <1>1
    <3>3. QED
      BY <1>1, <3>1, <3>2, SubSeqFull DEF Skip
  <2>3. QED
    BY <2>1, <2>2
<1>4. QED
  BY <1>1, <1>2, <1>3 DEF IsPrefix

-----------------------------------------------------------------------------
(***************************************************************************)
(* What a round sees and what it leaves.                                   *)
(***************************************************************************)
\* The sizes are numbers, and below the last stage all are bufsize.
LEMMA Sizes ==
  ASSUME TypeOK
  PROVE  /\ Top \in Nat \ {0}
         /\ bufsize \in Nat \ {0}
         /\ src \in Seq(Nat) /\ Len(src) \in Nat
         /\ \A k : Room(k) \in Nat /\ (k # Top => Room(k) = bufsize)
<1>1. Top \in Nat \ {0} /\ src \in Seq(Nat)
  BY PipelineAssumption DEF TypeOK, Top
<1>2. bufsize \in Nat \ {0} /\ CopySize \in Nat
  BY PipelineAssumption DEF TypeOK
<1>3. QED
  BY <1>1, <1>2, LenProperties DEF Room

\* What is put behind a window that it fits behind stays within the size.
LEMMA FitsIn ==
  ASSUME NEW w \in Nat, NEW f \in Nat, NEW b \in Nat, NEW size \in Nat,
         f <= size - w, f <= b, b <= size
  PROVE  /\ w <= w + f /\ w + f <= size
         /\ w + f \in Nat /\ b - f <= size
  OBVIOUS

\* A round shows its codec the window and what fits of the BufReader below.
LEMMA Shown ==
  ASSUME TypeOK, Ready
  PROVE  /\ active \in 1 .. Top
         /\ Window \in Seq(Nat) /\ Below \in Seq(Nat) /\ Input \in Seq(Nat)
         /\ Len(Window) <= Len(Input) /\ Len(Input) <= bufsize
         /\ Len(Input) \in Nat /\ Len(Window) \in Nat
         /\ Skip(Below, Len(Fresh)) \in Seq(Nat)
         /\ Len(Skip(Below, Len(Fresh))) <= bufsize
         /\ Input \o Skip(Below, Len(Fresh)) = Window \o Below
         /\ AtEof => Len(Window) = bufsize \/ Below = <<>>
         /\ AtEof => Input = Window /\ Skip(Below, Len(Fresh)) = Below
<1>1. active \in 1 .. Top /\ active - 1 \in 0 .. Top - 1
  BY Sizes DEF TypeOK, Ready
<1>2. /\ Window \in Seq(Nat) /\ Len(Window) <= bufsize /\ Len(Window) \in Nat
      /\ Below \in Seq(Nat) /\ Len(Below) <= bufsize /\ Len(Below) \in Nat
  BY <1>1, LenProperties DEF TypeOK, Window, Below
<1>3. bufsize - Len(Window) \in Nat /\ bufsize \in Nat
  BY <1>2, Sizes
<1>4. /\ Fresh \in Seq(Nat) /\ Len(Fresh) \in 0 .. Len(Below)
      /\ Len(Fresh) <= bufsize - Len(Window)
      /\ Fresh = <<>> => bufsize - Len(Window) = 0 \/ Below = <<>>
      /\ Fresh \o Skip(Below, Len(Fresh)) = Below
  BY <1>2, <1>3, FirstsIs DEF Fresh
<1>5. /\ Skip(Below, Len(Fresh)) \in Seq(Nat)
      /\ Len(Skip(Below, Len(Fresh))) = Len(Below) - Len(Fresh)
      /\ Len(Fresh) = 0 => Skip(Below, Len(Fresh)) = Below
  BY <1>2, <1>4, SkipIs
<1>6. Input \in Seq(Nat) /\ Len(Input) = Len(Window) + Len(Fresh)
  BY <1>2, <1>4, ConcatProperties DEF Input
<1>7. Input \o Skip(Below, Len(Fresh)) = Window \o Below
  <2>1. (Window \o Fresh) \o Skip(Below, Len(Fresh)) = Window \o (Fresh \o Skip(Below, Len(Fresh)))
    BY <1>2, <1>4, <1>5, Joined, Zenon
  <2>2. QED
    BY <1>4, <2>1 DEF Input
<1>8. AtEof => Len(Fresh) = 0 /\ Input = Window
  BY <1>2, EmptySeq, ConcatEmptySeq DEF AtEof, Input
<1>9. AtEof => Len(Window) = bufsize \/ Below = <<>>
  BY <1>2, <1>3, <1>4 DEF AtEof
<1>10. Len(Window) <= Len(Input) /\ Len(Input) <= bufsize /\ Len(Input) \in Nat
       /\ Len(Skip(Below, Len(Fresh))) <= bufsize
  <2>1. /\ Len(Window) \in Nat /\ Len(Fresh) \in Nat /\ Len(Below) \in Nat /\ bufsize \in Nat
        /\ Len(Fresh) <= bufsize - Len(Window) /\ Len(Fresh) <= Len(Below) /\ Len(Below) <= bufsize
    BY <1>2, <1>3, <1>4
  <2>2. /\ Len(Window) <= Len(Window) + Len(Fresh) /\ Len(Window) + Len(Fresh) <= bufsize
        /\ Len(Window) + Len(Fresh) \in Nat /\ Len(Below) - Len(Fresh) <= bufsize
    BY <2>1, FitsIn
  <2>3. QED
    BY <1>5, <1>6, <2>2
<1>11. AtEof => Input = Window /\ Skip(Below, Len(Fresh)) = Below
  BY <1>5, <1>8
<1>12. QED
  BY <1>1, <1>2, <1>5, <1>6, <1>7, <1>9, <1>10, <1>11

\* What the contract says of an answer that is no error.
LEMMA Answered ==
  ASSUME TypeOK, KeepsContract, NEW answer \in Answers, answer.kind # "Err"
  PROVE  /\ Ready
         /\ answer.made \in Seq(Nat) /\ Len(answer.made) \in 0 .. Room(active)
         /\ answer.took \in 0 .. Len(Input)
         /\ answer.kind \in Kinds
         /\ answer.kind = "BufError" => answer.made = <<>>
         /\ meaning # Malformed /\ answer.kind # "BufError" /\ ~AtEof /\ Len(Input) >= bufsize
              => answer.took > 0
<1>1. Ready
  BY DEF Answers
<1>2. /\ answer.made \in Seq(Nat)
      /\ Contract(answer.kind, answer.took, Len(answer.made), Len(Input), Room(active),
                  IF meaning = Malformed THEN bufsize + 1 ELSE bufsize, {<<0, 0>>}, AtEof)
  BY DEF KeepsContract
<1>3. answer.kind = "BufError" => <<answer.took, Len(answer.made)>> = <<0, 0>>
  BY <1>2 DEF Contract
<1>4. answer.kind = "BufError" => answer.made = <<>>
  BY <1>2, <1>3, EmptySeq
<1>5. QED
  BY <1>1, <1>2, <1>4 DEF Contract

\* An answer that read does not turn into an error.
LEMMA NoFailure ==
  ASSUME NEW answer, Failure(answer) = "none"
  PROVE  /\ answer.kind # "Err" /\ answer.kind # "Panic"
         /\ ~(answer.kind = "BufError" /\ answer.made = <<>>)
BY DEF Failure

\* The stage after a round whose answer was no error.
LEMMA Settled ==
  ASSUME TypeOK, KeepsContract, NEW answer \in Answers, answer.kind # "Err", Settle(answer)
  PROVE  /\ DOMAIN stage' = 1 .. Top
         /\ \A k \in 1 .. Top : k # active => stage'[k] = stage[k]
         /\ stage'[active].codec = answer.codec
         /\ answer.kind # "BufError" => stage'[active].win = Skip(Input, answer.took)
         /\ stage'[active].win \in Seq(Nat) /\ Len(stage'[active].win) <= bufsize
<1>1. Ready
  BY Answered
<1>2. active \in 1 .. Top /\ DOMAIN stage = 1 .. Top
  BY <1>1, Shown DEF TypeOK
<1> DEFINE win == IF answer.kind = "BufError" THEN Window ELSE Skip(Input, answer.took)
<1>3. win \in Seq(Nat) /\ Len(win) <= bufsize
  <2>1. /\ Window \in Seq(Nat) /\ Input \in Seq(Nat) /\ Len(Window) <= Len(Input)
        /\ Len(Input) <= bufsize /\ Len(Input) \in Nat /\ Len(Window) \in Nat
        /\ bufsize \in Nat
    BY <1>1, Shown, Sizes
  <2>2. Skip(Input, answer.took) \in Seq(Nat)
        /\ Len(Skip(Input, answer.took)) = Len(Input) - answer.took
        /\ answer.took \in 0 .. Len(Input)
    BY <2>1, Answered, SkipIs
  <2>3. QED
    BY <2>1, <2>2
<1>4. stage' = [stage EXCEPT ![active] = [codec |-> answer.codec, win |-> win]]
  BY DEF Settle
<1> HIDE DEF win
<1>5. stage'[active] = [codec |-> answer.codec, win |-> win]
  BY <1>2, <1>4
<1>6. QED
  BY <1>2, <1>3, <1>4, <1>5 DEF win

\* What the BufReaders hold after a round.
LEMMA Dropped ==
  ASSUME TypeOK, Ready
  PROVE  /\ DOMAIN DropFresh = 0 .. Top - 1
         /\ DropFresh[active - 1] = Skip(Below, Len(Fresh))
         /\ \A k \in 0 .. Top - 1 : k # active - 1 => DropFresh[k] = spare[k]
         /\ \A k \in 0 .. Top - 1 : DropFresh[k] \in Seq(Nat) /\ Len(DropFresh[k]) <= bufsize
<1>1. active \in 1 .. Top /\ active - 1 \in 0 .. Top - 1 /\ DOMAIN spare = 0 .. Top - 1
  BY Shown, Sizes DEF TypeOK
<1>2. DropFresh[active - 1] = Skip(Below, Len(Fresh)) /\ DOMAIN DropFresh = 0 .. Top - 1
  BY <1>1 DEF DropFresh
<1>3. \A k \in 0 .. Top - 1 : k # active - 1 => DropFresh[k] = spare[k]
  BY <1>1 DEF DropFresh
<1>4. Skip(Below, Len(Fresh)) \in Seq(Nat) /\ Len(Skip(Below, Len(Fresh))) <= bufsize
  BY Shown
<1>5. QED
  BY <1>1, <1>2, <1>3, <1>4 DEF TypeOK

\* Stop keeps the types of the variables it assigns.
LEMMA Stopped ==
  ASSUME TypeOK, NEW r \in Replies, Stop(r)
  PROVE  active' \in 0 .. Top /\ given' \in BOOLEAN /\ reply' \in Replies
<1>1. 0 \in 0 .. Top
  BY Sizes
<1>2. QED
  BY <1>1 DEF Stop

\* Every failure is a reply.
LEMMA FailureIsReply ==
  ASSUME NEW answer
  PROVE  Failure(answer) \in Replies
BY DEF Failure, Replies, Going, Fatal

\* A call of CodecReader::read keeps the types.
LEMMA EnterType ==
  ASSUME TypeOK, NEW k \in 1 .. Top, Enter(k), UNCHANGED <<fixed, pos, stage, spare, out>>
  PROVE  TypeOK'
<1>1. active' \in 0 .. Top /\ given' \in BOOLEAN /\ reply' \in Replies
  <2>1. CASE Room(k) < BufferSize(stage[k].codec)
    <3>1. Stop("SmallBuffer") /\ "SmallBuffer" \in Replies
      BY <2>1 DEF Enter, Replies, Going, Fatal
    <3>2. QED
      BY <3>1, Stopped
  <2>2. CASE ~(Room(k) < BufferSize(stage[k].codec))
    <3>1. active' = k /\ given' = FALSE /\ reply' = reply
      BY <2>2 DEF Enter
    <3>2. k \in 0 .. Top
      BY Sizes
    <3>3. QED
      BY <3>1, <3>2 DEF TypeOK
  <2>3. QED
    BY <2>1, <2>2
<1>2. QED
  BY <1>1 DEF TypeOK, fixed, Top

\* Every step keeps the types.
LEMMA NextType == TypeOK /\ KeepsContract /\ [Next]_vars => TypeOK'
<1> SUFFICES ASSUME TypeOK, KeepsContract, [Next]_vars PROVE TypeOK'
  OBVIOUS
<1>1. CASE Copy
  BY <1>1, Sizes, EnterType DEF Copy
<1>2. CASE Ask
  <2>1. active - 1 \in 1 .. Top
    BY <1>2, Sizes DEF Ask, TypeOK
  <2>2. QED
    BY <1>2, <2>1, EnterType DEF Ask
<1>3. ASSUME NEW n \in 0 .. bufsize, Read(n) PROVE TypeOK'
  <2>1. pos \in Nat /\ pos + n \in 0 .. Len(src) /\ n \in Nat /\ Len(src) \in Nat
    BY <1>3, Sizes DEF Read, TypeOK
  <2>2. 0 \in 0 .. Top - 1 /\ DOMAIN spare = 0 .. Top - 1
    BY Sizes DEF TypeOK
  <2>3. SubSeq(src, pos + 1, pos + n) \in Seq(Nat)
        /\ Len(SubSeq(src, pos + 1, pos + n)) <= bufsize
    BY <1>3, <2>1, Sizes, Piece, SMTT(30)
  <2>4. spare' = [spare EXCEPT ![0] = SubSeq(src, pos + 1, pos + n)]
    BY <1>3 DEF Read
  <2>5. DOMAIN spare' = 0 .. Top - 1
        /\ \A k \in 0 .. Top - 1 : spare'[k] \in Seq(Nat) /\ Len(spare'[k]) <= bufsize
    BY <2>2, <2>3, <2>4 DEF TypeOK
  <2>6. pos' \in 0 .. Len(src) /\ given' \in BOOLEAN
    BY <1>3, <2>1 DEF Read
  <2>7. QED
    BY <1>3, <2>5, <2>6 DEF Read, TypeOK, fixed, Top
<1>4. ASSUME NEW r \in {"Interrupted", "IO"}, ReadFail(r) PROVE TypeOK'
  <2>1. Stop(r) /\ r \in Replies
    BY <1>4 DEF ReadFail, Replies, Going, Fatal
  <2>2. active' \in 0 .. Top /\ given' \in BOOLEAN /\ reply' \in Replies
    BY <2>1, Stopped
  <2>3. QED
    BY <1>4, <2>2 DEF ReadFail, TypeOK, fixed, Top
<1>5. ASSUME NEW answer \in Answers, Continue(answer) PROVE TypeOK'
  <2>1. answer.kind # "Err" /\ Settle(answer) /\ spare' = DropFresh
    BY <1>5 DEF Continue, AsksAgain
  <2>2. Ready
    BY DEF Answers
  <2>3. DOMAIN stage' = 1 .. Top
        /\ \A k \in 1 .. Top : stage'[k].win \in Seq(Nat) /\ Len(stage'[k].win) <= bufsize
    BY <2>1, Settled DEF TypeOK
  <2>4. DOMAIN spare' = 0 .. Top - 1
        /\ \A k \in 0 .. Top - 1 : spare'[k] \in Seq(Nat) /\ Len(spare'[k]) <= bufsize
    BY <2>1, <2>2, Dropped
  <2>5. QED
    BY <1>5, <2>1, <2>3, <2>4 DEF Continue, Settle, TypeOK, fixed, Top
<1>6. ASSUME NEW answer \in Answers, Return(answer) PROVE TypeOK'
  <2>1. answer.kind # "Err" /\ Settle(answer)
    BY <1>6, NoFailure DEF Return
  <2>2. Ready /\ active \in 1 .. Top
    BY Shown DEF Answers
  <2>3. DOMAIN stage' = 1 .. Top
        /\ \A k \in 1 .. Top : stage'[k].win \in Seq(Nat) /\ Len(stage'[k].win) <= bufsize
    BY <2>1, Settled DEF TypeOK
  <2>4. answer.made \in Seq(Nat) /\ Len(answer.made) \in 0 .. Room(active)
    BY <2>1, Answered
  <2>5. CASE active < Top
    <3>1. spare' = [DropFresh EXCEPT ![active] = answer.made] /\ active' = active + 1
          /\ given' = TRUE /\ UNCHANGED <<out, reply>>
      BY <1>6, <2>5 DEF Return
    <3>2. active \in 0 .. Top - 1 /\ active + 1 \in 0 .. Top /\ Len(answer.made) <= bufsize
      BY <2>2, <2>4, <2>5, Sizes, SMTT(30)
    <3>3. DOMAIN spare' = 0 .. Top - 1
          /\ \A k \in 0 .. Top - 1 : spare'[k] \in Seq(Nat) /\ Len(spare'[k]) <= bufsize
      BY <2>2, <2>4, <3>1, <3>2, Dropped
    <3>4. QED
      BY <2>1, <2>3, <3>1, <3>2, <3>3 DEF Settle, TypeOK, fixed, Top
  <2>6. CASE ~(active < Top)
    <3>1. spare' = DropFresh /\ out' = out \o answer.made
          /\ Stop(IF answer.made = <<>> THEN "end" ELSE "data")
      BY <1>6, <2>6 DEF Return
    <3>2. out' \in Seq(Nat)
      BY <2>4, <3>1, ConcatProperties DEF TypeOK
    <3>3. DOMAIN spare' = 0 .. Top - 1
          /\ \A k \in 0 .. Top - 1 : spare'[k] \in Seq(Nat) /\ Len(spare'[k]) <= bufsize
      BY <2>2, <3>1, Dropped
    <3>4. active' \in 0 .. Top /\ given' \in BOOLEAN /\ reply' \in Replies
      <4>1. (IF answer.made = <<>> THEN "end" ELSE "data") \in Replies
        BY DEF Replies, Going
      <4>2. QED
        BY <3>1, <4>1, Stopped
    <3>5. QED
      BY <2>1, <2>3, <3>2, <3>3, <3>4 DEF Settle, TypeOK, fixed, Top
  <2>7. QED
    BY <2>5, <2>6
<1>7. ASSUME NEW answer \in Answers, Fail(answer) PROVE TypeOK'
  <2>1. Stop(Failure(answer)) /\ spare' = DropFresh /\ UNCHANGED <<fixed, pos, stage, out>>
    BY <1>7 DEF Fail
  <2>2. DOMAIN spare' = 0 .. Top - 1
        /\ \A k \in 0 .. Top - 1 : spare'[k] \in Seq(Nat) /\ Len(spare'[k]) <= bufsize
    BY <2>1, Dropped DEF Answers
  <2>3. active' \in 0 .. Top /\ given' \in BOOLEAN /\ reply' \in Replies
    BY <2>1, FailureIsReply, Stopped
  <2>4. QED
    BY <2>1, <2>2, <2>3 DEF TypeOK, fixed, Top
<1>8. CASE UNCHANGED vars
  BY <1>8 DEF vars, TypeOK, Top
<1>9. QED
  BY <1>1, <1>2, <1>3, <1>4, <1>5, <1>6, <1>7, <1>8 DEF Next, Round

\* And they hold at first.
LEMMA InitType == Init => TypeOK
<1> SUFFICES ASSUME Init PROVE TypeOK
  OBVIOUS
<1>1. Top \in Nat \ {0} /\ src \in Seq(Nat)
  BY PipelineAssumption DEF Init, Top
<1>2. bufsize \in Nat \ {0} /\ Len(src) \in Nat
  BY <1>1, PipelineAssumption, LenProperties DEF Init
<1>3. <<>> \in Seq(Nat) /\ Len(<<>>) = 0
  BY EmptySeq
<1>4. 0 \in 0 .. Len(src) /\ 0 \in 0 .. Top /\ 0 <= bufsize
  BY <1>1, <1>2
<1>5. DOMAIN stage = 1 .. Top /\ \A k \in 1 .. Top : stage[k].win = <<>>
  BY DEF Init
<1>6. DOMAIN spare = 0 .. Top - 1 /\ \A k \in 0 .. Top - 1 : spare[k] = <<>>
  BY DEF Init
<1>7. reply \in Replies
  BY DEF Init, Replies, Going
<1>8. QED
  BY <1>3, <1>4, <1>5, <1>6, <1>7 DEF Init, TypeOK

\* The types of the state: windows and BufReaders never hold more than their
\* size, of codecs that keep their contract (mod.rs:223-228).
THEOREM TypeCorrect == Spec /\ []KeepsContract => []TypeOK
BY InitType, NextType, PTL DEF Spec

-----------------------------------------------------------------------------
(***************************************************************************)
(* What is due before and after a step.                                    *)
(***************************************************************************)
\* Due, of the present state.
LEMMA OwedIs ==
  ASSUME TypeOK
  PROVE  /\ Owed[0] = Skip(src, pos) /\ Owed[0] \in Seq(Nat)
         /\ \A k \in 1 .. Top :
              Owed[k] = IF Owed[k - 1] = Malformed THEN Malformed
                        ELSE Meaning(stage[k].codec,
                                     stage[k].win \o spare[k - 1] \o Owed[k - 1])
<1>1. Top \in Nat /\ src \in Seq(Nat) /\ pos \in 0 .. Len(src)
  BY Sizes DEF TypeOK
<1>2. Skip(src, pos) \in Seq(Nat)
  BY <1>1, SkipIs
<1>3. Owed = Due(Top, stage, spare, Skip(src, pos))
  BY DEF Owed
<1>4. /\ Owed[0] = Skip(src, pos)
      /\ \A k \in 1 .. Top :
           Owed[k] = IF Owed[k - 1] = Malformed THEN Malformed
                     ELSE Meaning(stage[k].codec, stage[k].win \o spare[k - 1] \o Owed[k - 1])
  BY <1>1, <1>3, DueIs
<1>5. QED
  BY <1>2, <1>4

\* The same after a step that only reads or moves bytes.
LEMMA OwedThen ==
  ASSUME TypeOK, UNCHANGED fixed
  PROVE  /\ Owed' = Due(Top, stage', spare', Skip(src, pos'))
         /\ Owed'[0] = Skip(src, pos')
         /\ \A k \in 1 .. Top :
              Owed'[k] = IF Owed'[k - 1] = Malformed THEN Malformed
                         ELSE Meaning(stage'[k].codec,
                                      stage'[k].win \o spare'[k - 1] \o Owed'[k - 1])
<1>1. Owed' = Due(Top, stage', spare', Skip(src, pos'))
  BY DEF Owed, fixed, Top
<1>2. Top \in Nat
  BY Sizes
<1>3. QED
  BY <1>1, <1>2, DueIs

\* A step that leaves what is due of a stage, and all that lies above it up to
\* another, leaves what is due of those.
LEMMA OwedAgrees ==
  ASSUME TypeOK, UNCHANGED fixed,
         NEW m \in 0 .. Top, NEW l \in m .. Top, Owed'[m] = Owed[m],
         \A k \in m + 1 .. l : stage'[k] = stage[k] /\ spare'[k - 1] = spare[k - 1]
  PROVE  \A k \in m .. l : Owed'[k] = Owed[k]
<1> DEFINE bad == {k \in m .. l : Owed'[k] # Owed[k]}
<1>1. SUFFICES ASSUME bad # {} PROVE FALSE
  OBVIOUS
<1>2. bad \in SUBSET Nat /\ Top \in Nat
  BY Sizes
<1>3. PICK k \in bad : \A i \in bad : k <= i
  BY <1>1, <1>2, HasLeast
<1>4. k \in m + 1 .. l /\ k \in 1 .. Top /\ k - 1 \in m .. l
  BY <1>2, <1>3
<1>5. k - 1 \notin bad
  BY <1>2, <1>3, <1>4
<1>6. Owed'[k - 1] = Owed[k - 1]
  BY <1>4, <1>5
<1>7. /\ Owed[k] = IF Owed[k - 1] = Malformed THEN Malformed
                   ELSE Meaning(stage[k].codec, stage[k].win \o spare[k - 1] \o Owed[k - 1])
      /\ Owed'[k] = IF Owed'[k - 1] = Malformed THEN Malformed
                    ELSE Meaning(stage'[k].codec,
                                 stage'[k].win \o spare'[k - 1] \o Owed'[k - 1])
  BY <1>4, OwedIs, OwedThen
<1>8. stage'[k] = stage[k] /\ spare'[k - 1] = spare[k - 1]
  BY <1>4
<1>9. QED
  BY <1>3, <1>6, <1>7, <1>8

\* Malformed is no sequence of bytes.
LEMMA NotMalformed == \A s \in Seq(Nat) : s # Malformed
<1>1. SUFFICES ASSUME Malformed \in Seq(Nat) PROVE FALSE
  OBVIOUS
<1>2. Malformed[1] \in Nat
  <2>1. 1 \in 1 .. Len(Malformed)
    BY DEF Malformed
  <2>2. QED
    BY <1>1, <2>1, ElementOfSeq
<1>3. QED
  BY <1>2 DEF Malformed

\* A stage that finds nothing is at the end.
LEMMA NothingLater ==
  ASSUME TypeOK, Told, Open, Ready, AtEof
  PROVE  Later = <<>>
<1>1. /\ active \in 1 .. Top
      /\ Len(Window) = bufsize \/ Below = <<>>
      /\ Skip(Below, Len(Fresh)) = Below
  BY Shown
<1>2. Below = <<>> /\ Owed[active - 1] = <<>>
  <2>1. CASE Len(Window) = bufsize
    <3>1. ~(Len(Window) < bufsize)
      BY <2>1, Sizes
    <3>2. QED
      BY <1>1, <3>1 DEF Open, Window, Below
  <2>2. CASE Below = <<>>
    BY <1>1, <2>2 DEF Ready, Told, Below
  <2>3. QED
    BY <1>1, <2>1, <2>2
<1>3. QED
  BY <1>1, <1>2, EmptySeq, ConcatEmptySeq DEF Later

\* What is due of a stage after an answer.
Rest(answer) == Meaning(answer.codec, Skip(Input, answer.took) \o Later)

\* What a streaming codec answers and what it still makes is what was due.
LEMMA Streamed ==
  ASSUME TypeOK, KeepsContract, Streams, meaning # Malformed, Told, Open,
         NEW answer \in Answers
  PROVE  /\ Failure(answer) = "none"
         /\ answer.kind # "Err" /\ answer.kind # "BufError"
         /\ Owed[active] = answer.made \o Rest(answer)
         /\ Rest(answer) \in Seq(Nat)
         /\ answer.made = <<>> /\ ~AsksAgain(answer) => Rest(answer) = <<>>
<1>1. Ready /\ (AtEof => Later = <<>>)
  BY NothingLater DEF Answers
<1>2. /\ Failure(answer) = "none"
      /\ Owed[active] = answer.made \o Rest(answer)
      /\ Rest(answer) \in Seq(Nat)
      /\ answer.made = <<>> /\ ~AsksAgain(answer) => Rest(answer) = <<>>
  BY <1>1 DEF Streams, Rest
<1>3. answer.kind # "Err" /\ answer.kind # "BufError"
  BY <1>2, NoFailure, Answered
<1>4. QED
  BY <1>2, <1>3

\* A round leaves what is due of the stages below, and of the stage itself the
\* rest, wherever its answer goes.
LEMMA RoundOwes ==
  ASSUME TypeOK, KeepsContract, Streams, meaning # Malformed, Told, Open,
         NEW answer \in Answers, Settle(answer),
         spare'[active - 1] = Skip(Below, Len(Fresh)),
         \A k \in 0 .. active - 2 : spare'[k] = spare[k]
  PROVE  /\ \A k \in 0 .. active - 1 : Owed'[k] = Owed[k]
         /\ Owed'[active] = Rest(answer)
<1>1. Ready /\ active \in 1 .. Top /\ Top \in Nat
  BY Shown, Sizes DEF Answers
<1>2. UNCHANGED fixed /\ pos' = pos
  BY DEF Settle
<1>3. answer.kind # "Err" /\ answer.kind # "BufError" /\ answer.took \in 0 .. Len(Input)
  BY Streamed, Answered
<1>4. \A k \in 0 .. active - 1 : Owed'[k] = Owed[k]
  <2>1. Owed'[0] = Owed[0]
    BY <1>2, OwedIs, OwedThen
  <2>2. ASSUME NEW k \in 0 + 1 .. active - 1
        PROVE stage'[k] = stage[k] /\ spare'[k - 1] = spare[k - 1]
    <3>1. k \in 1 .. Top /\ k # active /\ k - 1 \in 0 .. active - 2
      BY <1>1
    <3>2. QED
      BY <1>3, <3>1, Settled
  <2>3. 0 \in 0 .. Top /\ active - 1 \in 0 .. Top
    BY <1>1
  <2>4. QED
    BY <1>2, <2>1, <2>2, <2>3, OwedAgrees
<1>5. Owed'[active] = Rest(answer)
  <2>1. active - 1 \in 0 .. active - 1 /\ active - 1 \in 0 .. Top
    BY <1>1
  <2>2. Owed'[active - 1] = Owed[active - 1] /\ Owed[active - 1] \in Seq(Nat)
    BY <1>4, <2>1 DEF Streams
  <2>3. Owed'[active - 1] # Malformed
    BY <2>2, NotMalformed
  <2>4. stage'[active].codec = answer.codec /\ stage'[active].win = Skip(Input, answer.took)
    BY <1>3, Settled
  <2>5. Owed'[active] = Meaning(stage'[active].codec,
                                stage'[active].win \o spare'[active - 1] \o Owed'[active - 1])
    BY <1>1, <1>2, <2>3, OwedThen
  <2>6. Skip(Input, answer.took) \in Seq(Nat) /\ Skip(Below, Len(Fresh)) \in Seq(Nat)
    BY <1>1, <1>3, Shown, SkipIs
  <2>7. (Skip(Input, answer.took) \o Skip(Below, Len(Fresh))) \o Owed[active - 1]
          = Skip(Input, answer.took) \o (Skip(Below, Len(Fresh)) \o Owed[active - 1])
    BY <2>2, <2>6, Joined, Zenon
  <2>8. QED
    BY <2>2, <2>4, <2>5, <2>7 DEF Rest, Later
<1>6. QED
  BY <1>4, <1>5

-----------------------------------------------------------------------------
(***************************************************************************)
(* Every step keeps the balance.                                           *)
(***************************************************************************)
\* What is due depends on nothing else.
LEMMA OwedStays ==
  ASSUME UNCHANGED <<fixed, pos, stage, spare>>
  PROVE  Owed' = Owed /\ Top' = Top
BY DEF fixed, Owed, Top

\* Nor does Open.
LEMMA OpenStays ==
  ASSUME Open, UNCHANGED <<fixed, pos, stage, spare>>
  PROVE  Open'
<1>1. Owed' = Owed /\ Top' = Top
  BY OwedStays
<1>2. QED
  BY <1>1 DEF Open, fixed

\* A read begins: the buffer is large enough for a chain whose codecs stream.
LEMMA EnterBalance ==
  ASSUME TypeOK, Streams, Balance, NEW k \in 1 .. Top, Enter(k), reply \in Going,
         \A i \in k .. Top - 1 : spare[i] = <<>>,
         UNCHANGED <<fixed, pos, stage, spare, out>>
  PROVE  Balance'
<1>1. Owed' = Owed /\ Top' = Top
  BY OwedStays
<1>2. Quiet'
  <2>1. CASE Room(k) < BufferSize(stage[k].codec)
    BY <2>1 DEF Enter, Stop, Quiet
  <2>2. CASE ~(Room(k) < BufferSize(stage[k].codec))
    BY <1>1, <2>2 DEF Enter, Quiet
  <2>3. QED
    BY <2>1, <2>2
<1>3. ASSUME meaning # Malformed PROVE (Told /\ Open /\ Paid)'
  <2>1. BufferSize(stage[k].codec) \in 0 .. Room(k)
    BY <1>3 DEF Streams
  <2>2. given' = FALSE
    BY DEF Enter, Stop
  <2>3. reply' = reply
    <3>1. ~(Room(k) < BufferSize(stage[k].codec))
      BY <2>1, Sizes, Fits
    <3>2. QED
      BY <3>1 DEF Enter
  <2>4. Paid'
    BY <1>1, <1>3, <2>3 DEF Balance, Paid, fixed, Going
  <2>5. QED
    BY <1>3, <2>2, <2>4, OpenStays DEF Balance, Told
<1>4. QED
  BY <1>2, <1>3 DEF Balance, fixed

\* The source's bytes move from what is unread to its BufReader.
LEMMA ReadBalance ==
  ASSUME TypeOK, Streams, Balance, NEW n \in 0 .. bufsize, Read(n)
  PROVE  Balance'
<1> DEFINE piece == SubSeq(src, pos + 1, pos + n)
<1>1. /\ active = 1 /\ active' = 1 /\ given' = TRUE /\ UNCHANGED <<fixed, stage, out, reply>>
      /\ pos' = pos + n /\ spare' = [spare EXCEPT ![0] = piece] /\ spare[0] = <<>>
      /\ pos + n <= Len(src) /\ (n = 0 => pos = Len(src))
  BY DEF Read, Ready
<1>2. Top \in Nat \ {0} /\ n \in Nat /\ pos \in Nat /\ src \in Seq(Nat) /\ Len(src) \in Nat
      /\ Top' = Top /\ pos + n \in 0 .. Len(src)
  BY <1>1, Sizes DEF TypeOK, fixed, Top
<1>3. /\ piece \in Seq(Nat) /\ Len(piece) = n
      /\ piece \o Skip(src, pos + n) = Skip(src, pos)
  BY <1>1, <1>2, Piece, ZenonT(60)
<1> HIDE DEF piece
<1>4. spare'[0] = piece /\ \A k \in 1 .. Top - 1 : spare'[k] = spare[k]
  BY <1>1, <1>2 DEF TypeOK
<1>5. Quiet'
  BY <1>1, <1>2, <1>4 DEF Balance, Quiet
<1>6. Owed'[0] = Skip(src, pos + n) /\ Owed'[0] \in Seq(Nat) /\ Owed[0] = Skip(src, pos)
      /\ Owed[0] \in Seq(Nat) /\ Owed[0] = piece \o Owed'[0]
  BY <1>1, <1>2, <1>3, OwedIs, OwedThen, SkipIs
<1>7. \A k \in 1 .. Top : Owed'[k] = Owed[k]
  <2>1. Owed'[1] = Owed[1]
    <3>1. Owed[0] # Malformed /\ Owed'[0] # Malformed
      BY <1>6, NotMalformed
    <3>2. 1 \in 1 .. Top /\ 1 - 1 = 0
      BY <1>2
    <3>3. Owed[1] = Meaning(stage[1].codec, stage[1].win \o spare[0] \o Owed[0])
      BY <3>1, <3>2, OwedIs
    <3>4. Owed'[1] = Meaning(stage[1].codec, stage[1].win \o piece \o Owed'[0])
      BY <1>1, <1>4, <3>1, <3>2, OwedThen
    <3>5. stage[1].win \in Seq(Nat)
      BY <3>2 DEF TypeOK
    <3>6. stage[1].win \o spare[0] = stage[1].win
      BY <1>1, <3>5, ConcatEmptySeq
    <3>7. (stage[1].win \o piece) \o Owed'[0] = stage[1].win \o Owed[0]
      <4>1. (stage[1].win \o piece) \o Owed'[0] = stage[1].win \o (piece \o Owed'[0])
        BY <1>3, <1>6, <3>5, Joined, Zenon
      <4>2. QED
        BY <1>6, <4>1
    <3>8. QED
      BY <3>3, <3>4, <3>6, <3>7
  <2>2. ASSUME NEW k \in 1 + 1 .. Top PROVE stage'[k] = stage[k] /\ spare'[k - 1] = spare[k - 1]
    <3>1. k - 1 \in 1 .. Top - 1
      BY <1>2
    <3>2. QED
      BY <1>1, <1>4, <3>1
  <2>3. 1 \in 0 .. Top /\ Top \in 1 .. Top
    BY <1>2
  <2>4. QED
    BY <1>1, <2>1, <2>2, <2>3, OwedAgrees
<1>8. piece = <<>> => Owed'[0] = <<>>
  BY <1>1, <1>3, <1>6, <1>2, EmptySeq, SkipIs
<1>9. ASSUME meaning # Malformed PROVE (Told /\ Open /\ Paid)'
  <2>1. Told'
    BY <1>1, <1>4, <1>8 DEF Told
  <2>2. ASSUME NEW k \in 1 .. Top
        PROVE Len(stage[k].win) < bufsize \/ (spare'[k - 1] = <<>> /\ Owed'[k - 1] = <<>>)
    <3>1. Len(stage[k].win) < bufsize \/ (spare[k - 1] = <<>> /\ Owed[k - 1] = <<>>)
      BY <1>9 DEF Balance, Open
    <3>2. CASE k = 1
      <4>1. Owed[0] = <<>> => piece = <<>> /\ Owed'[0] = <<>>
        BY <1>3, <1>6, BothEmpty, Zenon
      <4>2. QED
        BY <1>4, <3>1, <3>2, <4>1
    <3>3. CASE k # 1
      <4>1. k - 1 \in 1 .. Top - 1 /\ k - 1 \in 1 .. Top
        BY <1>2, <3>3
      <4>2. QED
        BY <1>4, <1>7, <3>1, <4>1
    <3>4. QED
      BY <3>2, <3>3
  <2>3. Open'
    BY <1>1, <1>2, <2>2 DEF Open, fixed
  <2>4. Owed'[Top] = Owed[Top]
    BY <1>2, <1>7
  <2>5. Paid'
    BY <1>1, <1>2, <1>9, <2>4 DEF Balance, Paid, fixed
  <2>6. QED
    BY <2>1, <2>3, <2>5
<1>10. QED
  BY <1>1, <1>5, <1>9 DEF Balance, fixed

\* An error of the source stops every read and leaves the windows.
LEMMA ReadFailBalance ==
  ASSUME Balance, NEW r \in {"Interrupted", "IO"}, ReadFail(r)
  PROVE  Balance'
<1>1. Owed' = Owed /\ Top' = Top
  BY OwedStays DEF ReadFail
<1>2. active' = 0 /\ given' = FALSE /\ reply' = r /\ r # "end" /\ r \in Going \cup {"IO"}
      /\ UNCHANGED <<fixed, out>>
  BY DEF ReadFail, Stop, Going
<1>3. Quiet' /\ Told'
  BY <1>2 DEF Quiet, Told
<1>4. ASSUME meaning # Malformed PROVE Open' /\ Paid'
  BY <1>1, <1>2, <1>4, OpenStays DEF Balance, Paid, ReadFail, fixed
<1>5. QED
  BY <1>2, <1>3, <1>4 DEF Balance, fixed

\* A round fills a window at the end only.
LEMMA WindowAfter ==
  ASSUME TypeOK, KeepsContract, Streams, meaning # Malformed, Told, Open,
         NEW answer \in Answers, Settle(answer)
  PROVE  \/ Len(stage'[active].win) < bufsize
         \/ Skip(Below, Len(Fresh)) = <<>> /\ Owed[active - 1] = <<>>
<1>1. Ready
  BY DEF Answers
<1>2. /\ Input \in Seq(Nat) /\ Len(Input) \in Nat /\ Len(Input) <= bufsize
      /\ Skip(Below, Len(Fresh)) \in Seq(Nat) /\ active \in 1 .. Top /\ bufsize \in Nat
      /\ Top \in Nat
  BY <1>1, Shown, Sizes
<1>3. answer.kind # "Err" /\ answer.kind # "BufError" /\ answer.took \in 0 .. Len(Input)
  BY Streamed, Answered
<1>4. CASE AtEof
  <2>1. active - 1 \in 0 .. Top
    BY <1>2
  <2>2. Owed[active - 1] \in Seq(Nat)
    BY <2>1 DEF Streams
  <2>3. Skip(Below, Len(Fresh)) \o Owed[active - 1] = <<>>
    BY <1>1, <1>4, NothingLater DEF Later
  <2>4. QED
    BY <1>2, <2>2, <2>3, BothEmpty, Zenon
<1>5. CASE ~AtEof
  <2>1. Len(Input) >= bufsize => answer.took > 0
    BY <1>3, <1>5, Answered
  <2>2. Len(Skip(Input, answer.took)) = Len(Input) - answer.took
    BY <1>2, <1>3, SkipIs
  <2>3. Len(Skip(Input, answer.took)) < bufsize
    BY <1>2, <1>3, <2>1, <2>2
  <2>4. stage'[active].win = Skip(Input, answer.took)
    BY <1>3, Settled
  <2>5. QED
    BY <2>3, <2>4
<1>6. QED
  BY <1>4, <1>5

\* The stage asks for more and what it has consumed is in its codec.
LEMMA ContinueBalance ==
  ASSUME TypeOK, KeepsContract, Streams, Balance, NEW answer \in Answers, Continue(answer)
  PROVE  Balance'
<1>1. /\ Ready /\ active \in 1 .. Top /\ Top \in Nat /\ AsksAgain(answer) /\ Settle(answer)
      /\ spare' = DropFresh /\ given' = FALSE /\ UNCHANGED <<fixed, active, out, reply>>
      /\ Top' = Top
  BY Shown, Sizes DEF Answers, Continue, Settle, fixed, Top
<1>2. /\ spare'[active - 1] = Skip(Below, Len(Fresh))
      /\ \A k \in 0 .. Top - 1 : k # active - 1 => spare'[k] = spare[k]
  BY <1>1, Dropped
<1>3. Quiet'
  <2>1. \A k \in active .. Top - 1 : spare'[k] = spare[k]
    BY <1>1, <1>2
  <2>2. QED
    BY <1>1, <2>1 DEF Balance, Quiet
<1>4. ASSUME meaning # Malformed PROVE (Told /\ Open /\ Paid)'
  <2>1. Told /\ Open /\ Paid
    BY <1>4 DEF Balance
  <2>2. answer.kind # "Err" /\ answer.made = <<>>
    BY <1>1 DEF AsksAgain
  <2>3. \A k \in 0 .. active - 2 : spare'[k] = spare[k]
    BY <1>1, <1>2
  <2>4. (\A k \in 0 .. active - 1 : Owed'[k] = Owed[k]) /\ Owed'[active] = Rest(answer)
    BY <1>1, <1>2, <1>4, <2>1, <2>3, RoundOwes
  <2>5. Owed'[active] = Owed[active]
    <3>1. Owed[active] = answer.made \o Rest(answer) /\ Rest(answer) \in Seq(Nat)
      BY <1>4, <2>1, Streamed
    <3>2. QED
      BY <2>2, <2>4, <3>1, ConcatEmptySeq
  <2>6. \A k \in active .. Top : Owed'[k] = Owed[k]
    <3>1. ASSUME NEW k \in active + 1 .. Top
          PROVE stage'[k] = stage[k] /\ spare'[k - 1] = spare[k - 1]
      <4>1. k \in 1 .. Top /\ k # active /\ k - 1 \in 0 .. Top - 1 /\ k - 1 # active - 1
        BY <1>1
      <4>2. QED
        BY <1>1, <1>2, <2>2, <4>1, Settled
    <3>2. active \in 0 .. Top /\ Top \in active .. Top
      BY <1>1
    <3>3. QED
      BY <1>1, <2>5, <3>1, <3>2, OwedAgrees
  <2>7. Open'
    <3>1. ASSUME NEW k \in 1 .. Top
          PROVE Len(stage'[k].win) < bufsize \/ (spare'[k - 1] = <<>> /\ Owed'[k - 1] = <<>>)
      <4>1. CASE k = active
        <5>1. active - 1 \in 0 .. active - 1
          BY <1>1
        <5>2. QED
          BY <1>1, <1>2, <1>4, <2>1, <2>4, <4>1, <5>1, WindowAfter
      <4>2. CASE k # active
        <5>1. k - 1 \in 0 .. Top - 1 /\ k - 1 # active - 1
              /\ (k - 1 \in 0 .. active - 1 \/ k - 1 \in active .. Top)
          BY <1>1, <4>2
        <5>2. stage'[k] = stage[k] /\ spare'[k - 1] = spare[k - 1] /\ Owed'[k - 1] = Owed[k - 1]
          BY <1>1, <1>2, <2>2, <2>4, <2>6, <4>2, <5>1, Settled
        <5>3. QED
          BY <2>1, <5>2 DEF Open
      <4>3. QED
        BY <4>1, <4>2
    <3>2. QED
      BY <1>1, <3>1 DEF Open, fixed
  <2>8. Owed'[Top] = Owed[Top]
    BY <1>1, <2>6
  <2>9. QED
    BY <1>1, <2>1, <2>7, <2>8 DEF Told, Paid, fixed
<1>5. QED
  BY <1>1, <1>3, <1>4 DEF Balance, fixed

\* An answer to the stage above.
LEMMA PassBalance ==
  ASSUME TypeOK, KeepsContract, Streams, Balance, NEW answer \in Answers, Return(answer),
         active < Top
  PROVE  Balance'
<1>1. /\ Ready /\ active \in 1 .. Top /\ Top \in Nat /\ Settle(answer) /\ ~AsksAgain(answer)
      /\ spare' = [DropFresh EXCEPT ![active] = answer.made]
      /\ active' = active + 1 /\ given' = TRUE /\ UNCHANGED <<fixed, out, reply>>
      /\ Top' = Top
  BY Shown, Sizes DEF Answers, Return, Settle, fixed, Top
<1>2. /\ spare'[active - 1] = Skip(Below, Len(Fresh))
      /\ spare'[active] = answer.made
      /\ \A k \in 0 .. Top - 1 : k # active - 1 /\ k # active => spare'[k] = spare[k]
  <2>1. active \in 0 .. Top - 1 /\ active - 1 \in 0 .. Top - 1 /\ active # active - 1
    BY <1>1
  <2>2. QED
    BY <1>1, <2>1, Dropped
<1>3. spare[active] = <<>> /\ reply \in Going
  <2>1. active > 0 /\ active \in active .. Top - 1
    BY <1>1
  <2>2. QED
    BY <2>1 DEF Balance, Quiet
<1>4. Quiet'
  <2>1. \A k \in active + 1 .. Top - 1 : spare'[k] = spare[k] /\ k \in active .. Top - 1
    BY <1>1, <1>2
  <2>2. active > 0
    BY <1>1
  <2>3. \A k \in active + 1 .. Top - 1 : spare'[k] = <<>>
    BY <2>1, <2>2 DEF Balance, Quiet
  <2>4. QED
    BY <1>1, <1>3, <2>3 DEF Quiet
<1>5. ASSUME meaning # Malformed PROVE (Told /\ Open /\ Paid)'
  <2>1. Told /\ Open /\ Paid
    BY <1>5 DEF Balance
  <2>2. /\ answer.kind # "Err" /\ answer.kind # "BufError"
        /\ Owed[active] = answer.made \o Rest(answer)
        /\ Rest(answer) \in Seq(Nat) /\ answer.made \in Seq(Nat)
        /\ answer.made = <<>> => Rest(answer) = <<>>
    BY <1>1, <1>5, <2>1, Streamed, Answered
  <2>3. \A k \in 0 .. active - 2 : spare'[k] = spare[k]
    BY <1>1, <1>2
  <2>4. (\A k \in 0 .. active - 1 : Owed'[k] = Owed[k]) /\ Owed'[active] = Rest(answer)
    BY <1>1, <1>2, <1>5, <2>1, <2>3, RoundOwes
  <2>5. active + 1 \in 1 .. Top /\ active + 1 # active /\ active + 1 - 1 = active
    BY <1>1
  <2>6. stage'[active + 1] = stage[active + 1]
    BY <1>1, <2>2, <2>5, Settled
  <2>7. Owed'[active + 1] = Owed[active + 1]
    <3>1. Owed[active] # Malformed /\ Owed'[active] # Malformed
      <4>1. active \in 0 .. Top
        BY <1>1
      <4>2. QED
        BY <1>5, <2>2, <2>4, <4>1, NotMalformed DEF Streams
    <3> DEFINE above == stage[active + 1]
    <3>2. above.win \in Seq(Nat)
      BY <2>5 DEF TypeOK
    <3>3. PICK k \in 1 .. Top : k = active + 1 /\ k - 1 = active
      BY <1>1, <2>5
    <3>4. Owed[k] = Meaning(above.codec, above.win \o spare[active] \o Owed[active])
      BY <3>3, <3>1, OwedIs
    <3>5. Owed'[k] = Meaning(above.codec, above.win \o spare'[active] \o Owed'[active])
      BY <1>1, <2>6, <3>3, <3>1, OwedThen
    <3> HIDE DEF above
    <3>6. above.win \o spare[active] = above.win
      BY <1>3, <3>2, ConcatEmptySeq
    <3>7. (above.win \o answer.made) \o Rest(answer) = above.win \o (answer.made \o Rest(answer))
      BY <2>2, <3>2, Joined, Zenon
    <3>8. QED
      BY <1>2, <2>2, <2>4, <3>3, <3>4, <3>5, <3>6, <3>7
  <2>8. \A k \in active + 1 .. Top : Owed'[k] = Owed[k]
    <3>1. ASSUME NEW k \in (active + 1) + 1 .. Top
          PROVE stage'[k] = stage[k] /\ spare'[k - 1] = spare[k - 1]
      <4>1. k \in 1 .. Top /\ k # active /\ k - 1 \in 0 .. Top - 1 /\ k - 1 # active - 1
            /\ k - 1 # active
        BY <1>1
      <4>2. QED
        BY <1>1, <1>2, <2>2, <4>1, Settled
    <3>2. active + 1 \in 0 .. Top /\ Top \in active + 1 .. Top
      BY <1>1
    <3>3. QED
      BY <1>1, <2>7, <3>1, <3>2, OwedAgrees
  <2>9. Told'
    BY <1>1, <1>2, <2>2, <2>4, <2>5 DEF Told
  <2>10. Open'
    <3>1. ASSUME NEW k \in 1 .. Top
          PROVE Len(stage'[k].win) < bufsize \/ (spare'[k - 1] = <<>> /\ Owed'[k - 1] = <<>>)
      <4>1. CASE k = active
        <5>1. active - 1 \in 0 .. active - 1
          BY <1>1
        <5>2. QED
          BY <1>1, <1>2, <1>5, <2>1, <2>4, <4>1, <5>1, WindowAfter
      <4>2. CASE k = active + 1
        <5>1. k - 1 = active
          BY <1>1, <4>2
        <5>2. Len(stage[k].win) < bufsize \/ Owed[active] = <<>>
          BY <2>1, <5>1 DEF Open
        <5>3. Owed[active] = <<>> => answer.made = <<>> /\ Rest(answer) = <<>>
          BY <2>2, BothEmpty, Zenon
        <5>4. QED
          BY <1>2, <2>4, <2>6, <4>2, <5>1, <5>2, <5>3
      <4>3. CASE k # active /\ k # active + 1
        <5>1. k - 1 \in 0 .. Top - 1 /\ k - 1 # active - 1 /\ k - 1 # active
              /\ (k - 1 \in 0 .. active - 1 \/ k - 1 \in active + 1 .. Top)
          BY <1>1, <4>3
        <5>2. stage'[k] = stage[k] /\ spare'[k - 1] = spare[k - 1] /\ Owed'[k - 1] = Owed[k - 1]
          BY <1>1, <1>2, <2>2, <2>4, <2>8, <4>3, <5>1, Settled
        <5>3. QED
          BY <2>1, <5>2 DEF Open
      <4>4. QED
        BY <4>1, <4>2, <4>3
    <3>2. QED
      BY <1>1, <3>1 DEF Open, fixed
  <2>11. Owed'[Top] = Owed[Top]
    BY <1>1, <2>5, <2>8
  <2>12. QED
    BY <1>1, <2>1, <2>9, <2>10, <2>11 DEF Paid, fixed
<1>6. QED
  BY <1>1, <1>4, <1>5 DEF Balance, fixed

\* An answer to io::copy.
LEMMA DeliverBalance ==
  ASSUME TypeOK, KeepsContract, Streams, Balance, NEW answer \in Answers, Return(answer),
         ~(active < Top)
  PROVE  Balance'
<1>1. /\ Ready /\ active = Top /\ Top \in Nat \ {0} /\ Settle(answer) /\ ~AsksAgain(answer)
      /\ spare' = DropFresh /\ out' = out \o answer.made /\ active' = 0
      /\ reply' = (IF answer.made = <<>> THEN "end" ELSE "data")
      /\ UNCHANGED fixed /\ Top' = Top
  <2>1. Ready /\ active \in 1 .. Top /\ Top \in Nat \ {0}
    BY Shown, Sizes DEF Answers
  <2>2. QED
    BY <2>1 DEF Return, Settle, Stop, fixed, Top
<1>2. /\ spare'[active - 1] = Skip(Below, Len(Fresh))
      /\ \A k \in 0 .. active - 2 : spare'[k] = spare[k]
  BY <1>1, Dropped
<1>3. ASSUME meaning # Malformed PROVE (Open /\ Paid)'
  <2>1. Told /\ Open /\ Paid
    BY <1>3 DEF Balance
  <2>2. /\ answer.kind # "Err" /\ Owed[active] = answer.made \o Rest(answer)
        /\ Rest(answer) \in Seq(Nat) /\ answer.made \in Seq(Nat)
        /\ answer.made = <<>> => Rest(answer) = <<>>
    BY <1>1, <1>3, <2>1, Streamed, Answered
  <2>3. (\A k \in 0 .. active - 1 : Owed'[k] = Owed[k]) /\ Owed'[active] = Rest(answer)
    BY <1>1, <1>2, <1>3, <2>1, RoundOwes
  <2>4. Open'
    <3>1. ASSUME NEW k \in 1 .. Top
          PROVE Len(stage'[k].win) < bufsize \/ (spare'[k - 1] = <<>> /\ Owed'[k - 1] = <<>>)
      <4>1. CASE k = active
        <5>1. active - 1 \in 0 .. active - 1
          BY <1>1
        <5>2. QED
          BY <1>1, <1>2, <1>3, <2>1, <2>3, <4>1, <5>1, WindowAfter
      <4>2. CASE k # active
        <5>1. k - 1 \in 0 .. active - 2 /\ k - 1 \in 0 .. active - 1
          BY <1>1, <4>2
        <5>2. stage'[k] = stage[k] /\ spare'[k - 1] = spare[k - 1] /\ Owed'[k - 1] = Owed[k - 1]
          BY <1>1, <1>2, <2>2, <2>3, <4>2, <5>1, Settled
        <5>3. QED
          BY <2>1, <5>2 DEF Open
      <4>3. QED
        BY <4>1, <4>2
    <3>2. QED
      BY <1>1, <3>1 DEF Open, fixed
  <2>5. meaning = out' \o Rest(answer)
    <3>1. out \in Seq(Nat) /\ meaning = out \o Owed[active]
      BY <1>1, <2>1 DEF TypeOK, Paid
    <3>2. (out \o answer.made) \o Rest(answer) = out \o (answer.made \o Rest(answer))
      BY <2>2, <3>1, Joined, Zenon
    <3>3. QED
      BY <1>1, <2>2, <3>1, <3>2
  <2>6. reply' = "end" => Rest(answer) = <<>>
    BY <1>1, <2>2
  <2>7. reply' \in Going \cup {"end", "IO"}
    BY <1>1 DEF Going
  <2>8. QED
    BY <1>1, <2>3, <2>4, <2>5, <2>6, <2>7 DEF Paid, fixed
<1>4. QED
  BY <1>1, <1>3 DEF Balance, Quiet, Told, fixed

\* The codecs make no error of a well-formed input.
LEMMA FailBalance ==
  ASSUME TypeOK, KeepsContract, Streams, Balance, NEW answer \in Answers, Fail(answer)
  PROVE  Balance' /\ meaning = Malformed
<1>1. meaning = Malformed
  BY Streamed DEF Balance, Fail
<1>2. QED
  BY <1>1 DEF Fail, Stop, Balance, Quiet, fixed

\* All of them.
LEMMA NextBalance ==
  TypeOK /\ KeepsContract /\ Streams /\ Balance /\ [Next]_vars => Balance'
<1> SUFFICES ASSUME TypeOK, KeepsContract, Streams, Balance, [Next]_vars PROVE Balance'
  OBVIOUS
<1>1. CASE Copy
  <2>1. Top \in 1 .. Top /\ \A i \in Top .. Top - 1 : spare[i] = <<>>
    BY Sizes
  <2>2. QED
    BY <1>1, <2>1, EnterBalance DEF Copy
<1>2. CASE Ask
  <2>1. active > 1 /\ active \in 0 .. Top /\ Top \in Nat /\ spare[active - 1] = <<>>
    BY <1>2, Sizes DEF Ask, Ready, TypeOK
  <2>2. active > 0 /\ active - 1 \in 1 .. Top
    BY <2>1
  <2>3. reply \in Going /\ \A i \in active .. Top - 1 : spare[i] = <<>>
    BY <2>2 DEF Balance, Quiet
  <2>4. \A i \in active - 1 .. Top - 1 : i = active - 1 \/ i \in active .. Top - 1
    BY <2>1
  <2>5. \A i \in active - 1 .. Top - 1 : spare[i] = <<>>
    BY <2>1, <2>3, <2>4
  <2>6. QED
    BY <1>2, <2>2, <2>3, <2>5, EnterBalance DEF Ask
<1>3. ASSUME NEW n \in 0 .. bufsize, Read(n) PROVE Balance'
  BY <1>3, ReadBalance
<1>4. ASSUME NEW r \in {"Interrupted", "IO"}, ReadFail(r) PROVE Balance'
  BY <1>4, ReadFailBalance
<1>5. ASSUME NEW answer \in Answers, Continue(answer) PROVE Balance'
  BY <1>5, ContinueBalance
<1>6. ASSUME NEW answer \in Answers, Return(answer) PROVE Balance'
  BY <1>6, PassBalance, DeliverBalance
<1>7. ASSUME NEW answer \in Answers, Fail(answer) PROVE Balance'
  BY <1>7, FailBalance
<1>8. CASE UNCHANGED vars
  <2>1. Owed' = Owed /\ Top' = Top
    BY <1>8, OwedStays DEF vars, fixed
  <2>2. QED
    BY <1>8, <2>1 DEF vars, Balance, Quiet, Told, Open, Paid
<1>9. QED
  BY <1>1, <1>2, <1>3, <1>4, <1>5, <1>6, <1>7, <1>8 DEF Next, Round

\* At first everything is due.
LEMMA InitBalance == Init /\ Streams => Balance
<1> SUFFICES ASSUME Init, Streams PROVE Balance
  OBVIOUS
<1>1. TypeOK
  BY InitType
<1>2. Top \in Nat \ {0} /\ bufsize \in Nat \ {0} /\ src \in Seq(Nat) /\ Len(src) \in Nat
  BY <1>1, Sizes
<1>3. active = 0 /\ reply = "none" /\ out = <<>> /\ pos = 0 /\ Len(<<>>) = 0
  BY EmptySeq DEF Init
<1>4. Quiet /\ Told
  BY <1>3 DEF Quiet, Told
<1>5. Open
  <2>1. \A k \in 1 .. Top : stage[k].win = <<>>
    BY DEF Init
  <2>2. 0 < bufsize
    BY <1>2
  <2>3. QED
    BY <1>3, <2>1, <2>2 DEF Open
<1>6. ASSUME meaning # Malformed PROVE Paid
  <2>1. Skip(src, 0) = src
    BY <1>2, SkipIs
  <2>2. meaning = Owed[Top]
    BY <1>3, <2>1 DEF Init, Owed
  <2>3. Owed[Top] \in Seq(Nat)
    BY <1>2, <1>6 DEF Streams
  <2>4. QED
    BY <1>3, <2>2, <2>3, ConcatEmptySeq DEF Paid, Going
<1>7. QED
  BY <1>4, <1>5, <1>6 DEF Balance

\* Of codecs that keep their contract and stream, no byte is lost or doubled
\* between the stages of a chain, whatever the pieces the source arrives in
\* (mod.rs:272-324).
THEOREM NothingIsLost == Spec /\ []KeepsContract /\ []Streams => []Balance
<1>1. Init /\ Streams => TypeOK /\ Balance
  BY InitType, InitBalance
<1>2. TypeOK /\ Balance /\ KeepsContract /\ Streams /\ [Next]_vars => TypeOK' /\ Balance'
  BY NextType, NextBalance
<1>3. QED
  BY <1>1, <1>2, PTL DEF Spec

\* What is written is a prefix of the meaning, and at the end all of it.
LEMMA BalanceWrites == TypeOK /\ Streams /\ Balance => WritesTheMeaning
<1> SUFFICES ASSUME TypeOK, Streams, Balance, meaning # Malformed
             PROVE  IsPrefix(out, meaning) /\ (reply = "end" => out = meaning)
  BY DEF WritesTheMeaning
<1>1. Top \in 0 .. Top
  BY Sizes
<1>2. out \in Seq(Nat) /\ Owed[Top] \in Seq(Nat) /\ meaning = out \o Owed[Top]
  BY <1>1 DEF TypeOK, Streams, Balance, Paid
<1>3. IsPrefix(out, meaning)
  BY <1>2, PrefixOfConcat
<1>4. reply = "end" => out = meaning
  BY <1>2, ConcatEmptySeq DEF Balance, Paid
<1>5. QED
  BY <1>3, <1>4

\* A chain of such codecs writes what they make of the whole input, one after
\* the other, for every chain, buffer size, input and way in which the input
\* arrives (mod.rs:272-324).
THEOREM WholeMeaning == Spec /\ []KeepsContract /\ []Streams => []WritesTheMeaning
BY TypeCorrect, NothingIsLost, BalanceWrites, PTL

\* No codec has complained.
LEMMA BalanceQuiets == Balance => NoFalseAlarm
BY DEF Balance, Paid, NoFalseAlarm, Going

\* It complains about malformed inputs only (mod.rs:304-322).
THEOREM OnlyMalformed == Spec /\ []KeepsContract /\ []Streams => []NoFalseAlarm
BY NothingIsLost, BalanceQuiets, PTL

-----------------------------------------------------------------------------
(***************************************************************************)
(* A chain is one stream.                                                  *)
(***************************************************************************)
Stream == <<meaning, out, reply>>

\* An error of a chain is one the stream may answer.
LEMMA StopIsFail ==
  ASSUME NoFalseAlarm', reply \in Going, NEW r \in Fatal, Stop(r), UNCHANGED <<meaning, out>>
  PROVE  Promise!Next
<1>1. reply' = r /\ r \in Promise!CodecErrors \cup {"IO"}
  BY DEF Stop, Fatal, Promise!CodecErrors
<1>2. r \in Promise!CodecErrors => ~Promise!Promised
  BY <1>1 DEF NoFalseAlarm, Promise!CodecErrors, Promise!Promised, Promise!Malformed, Malformed
<1>3. Promise!Fail(r)
  BY <1>1, <1>2 DEF Promise!Fail, Promise!Going, Going
<1>4. QED
  BY <1>1, <1>3 DEF Promise!Next

\* A read that begins is invisible, or finds the buffer too small.
LEMMA EnterStreams ==
  ASSUME NoFalseAlarm', reply \in Going, NEW k, Enter(k), UNCHANGED <<meaning, out>>
  PROVE  Promise!Next \/ UNCHANGED Stream
<1>1. CASE Room(k) < BufferSize(stage[k].codec)
  BY <1>1, StopIsFail DEF Enter, Fatal
<1>2. CASE ~(Room(k) < BufferSize(stage[k].codec))
  BY <1>2 DEF Enter, Stream
<1>3. QED
  BY <1>1, <1>2

\* An answer of the last stage is a piece of the stream or its end.
LEMMA DeliverStreams ==
  ASSUME TypeOK, KeepsContract, Balance, WritesTheMeaning', NEW answer \in Answers,
         Return(answer), ~(active < Top)
  PROVE  Promise!Next
<1>1. /\ out' = out \o answer.made /\ UNCHANGED meaning
      /\ reply' = (IF answer.made = <<>> THEN "end" ELSE "data")
  BY DEF Return, Settle, Stop, fixed
<1>2. Ready /\ active > 0
  BY Shown, Sizes DEF Answers, Ready
<1>3. reply \in Promise!Going
  BY <1>2 DEF Balance, Quiet, Going, Promise!Going
<1>4. answer.made \in Seq(Nat) /\ out \in Seq(Nat)
  BY NoFailure, Answered DEF Return, TypeOK
<1>5. CASE answer.made = <<>>
  <2>1. out' = out
    BY <1>1, <1>4, <1>5, ConcatEmptySeq
  <2>2. Promise!Promised => out = meaning
    BY <1>1, <1>5, <2>1 DEF WritesTheMeaning, Promise!Promised, Promise!Malformed, Malformed
  <2>3. QED
    BY <1>1, <1>3, <1>5, <2>1, <2>2 DEF Promise!Next, Promise!Finish
<1>6. CASE answer.made # <<>>
  <2>1. Promise!Skip(out', Len(out)) = answer.made
    BY <1>1, <1>4, PrefixOfConcat DEF Promise!Skip, Skip
  <2>2. Promise!Promised => IsPrefix(out \o answer.made, meaning)
    BY <1>1 DEF WritesTheMeaning, Promise!Promised, Promise!Malformed, Malformed
  <2>3. Promise!Deliver(answer.made)
    BY <1>1, <1>3, <1>6, <2>2 DEF Promise!Deliver, Promise!IsPrefix, IsPrefix
  <2>4. QED
    BY <2>1, <2>3 DEF Promise!Next
<1>7. QED
  BY <1>5, <1>6

\* Every step is one of the stream, or invisible.
LEMMA NextStreams ==
  TypeOK /\ KeepsContract /\ Balance /\ WritesTheMeaning' /\ NoFalseAlarm' /\ [Next]_vars
    => [Promise!Next]_Stream
<1> SUFFICES ASSUME TypeOK, KeepsContract, Balance, WritesTheMeaning', NoFalseAlarm', [Next]_vars
             PROVE  Promise!Next \/ UNCHANGED Stream
  OBVIOUS
<1>1. CASE Copy
  BY <1>1, EnterStreams DEF Copy, fixed
<1>2. CASE Ask
  <2>1. active > 0
    BY <1>2, Sizes DEF Ask, TypeOK
  <2>2. reply \in Going
    BY <2>1 DEF Balance, Quiet
  <2>3. QED
    BY <1>2, <2>2, EnterStreams DEF Ask, fixed
<1>3. ASSUME NEW n \in 0 .. bufsize, Read(n) PROVE UNCHANGED Stream
  BY <1>3 DEF Read, Stream, fixed
<1>4. ASSUME NEW r \in {"Interrupted", "IO"}, ReadFail(r) PROVE Promise!Next
  <2>1. active > 0 /\ Stop(r) /\ UNCHANGED <<meaning, out>>
    BY <1>4 DEF ReadFail, fixed
  <2>2. reply \in Going
    BY <2>1 DEF Balance, Quiet
  <2>3. CASE r = "IO"
    BY <2>1, <2>2, <2>3, StopIsFail DEF Fatal
  <2>4. CASE r = "Interrupted"
    BY <2>1, <2>2, <2>4 DEF Stop, Promise!Next, Promise!Interrupt, Promise!Going, Going
  <2>5. QED
    BY <2>3, <2>4
<1>5. ASSUME NEW answer \in Answers, Continue(answer) PROVE UNCHANGED Stream
  BY <1>5 DEF Continue, Settle, Stream, fixed
<1>6. ASSUME NEW answer \in Answers, Return(answer) PROVE Promise!Next \/ UNCHANGED Stream
  <2>1. CASE active < Top
    BY <1>6, <2>1 DEF Return, Settle, Stream, fixed
  <2>2. CASE ~(active < Top)
    BY <1>6, <2>2, DeliverStreams
  <2>3. QED
    BY <2>1, <2>2
<1>7. ASSUME NEW answer \in Answers, Fail(answer) PROVE Promise!Next
  <2>1. Stop(Failure(answer)) /\ UNCHANGED <<meaning, out>> /\ Failure(answer) # "none"
    BY <1>7 DEF Fail, fixed
  <2>2. Failure(answer) \in Fatal
    BY <2>1 DEF Failure, Fatal
  <2>3. Ready /\ active > 0
    BY Shown, Sizes DEF Answers, Ready
  <2>4. reply \in Going
    BY <2>3 DEF Balance, Quiet
  <2>5. QED
    BY <2>1, <2>2, <2>4, StopIsFail
<1>8. CASE UNCHANGED vars
  BY <1>8 DEF vars, Stream
<1>9. QED
  BY <1>1, <1>2, <1>3, <1>4, <1>5, <1>6, <1>7, <1>8 DEF Next, Round

\* For whoever reads it, such a chain is one stream: pieces of the meaning, in
\* order, and the end only after all of it (mod.rs:327-353).
THEOREM Refinement == Spec /\ []KeepsContract /\ []Streams => ImplementsDelivery
<1>1. Init => Promise!Init
  BY DEF Init, Promise!Init
<1>2. TypeOK /\ KeepsContract /\ Balance /\ WritesTheMeaning' /\ NoFalseAlarm' /\ [Next]_vars
        => [Promise!Next]_<<meaning, out, reply>>
  BY NextStreams DEF Stream
<1>3. QED
  BY <1>1, <1>2, TypeCorrect, NothingIsLost, WholeMeaning, OnlyMalformed, PTL
     DEF Spec, ImplementsDelivery, Promise!Spec
=============================================================================
