------------------------- MODULE CodecReaderProofs -------------------------
(***************************************************************************)
(* Proofs about CodecReader for every buffer size, source length, caller   *)
(* and codec within the Contract of module Codec.                          *)
(*                                                                         *)
(* The inductive invariant has four parts.  TypeOK holds always.  Window   *)
(* says that outside a failed call the window holds the next unread bytes  *)
(* of the source, which is what ShownInOrder states at the one moment the  *)
(* codec looks; it needs the codec's refusals to be empty.  RoomToRead     *)
(* says that obj.read is never offered an empty slice before the end,      *)
(* which is what makes a read of 0 bytes mean the end; it needs a buffer   *)
(* that holds what the codec must see.  Calling says that transform is     *)
(* only reached with room for output, and that Ok(0) is the last reply.    *)
(***************************************************************************)
EXTENDS CodecReader, TLAPS

\* What the proofs need of the constants, without the shape of Refusals.
LEMMA Sizes == BufSize \in Nat /\ SourceLen \in Nat /\ OutLimit \in Nat
BY ReaderAssumption

\* Settle keeps the types of the variables it assigns.
LEMMA SettleType ==
  ASSUME TypeOK, NEW kind \in Kinds, NEW c \in Nat, NEW p \in Nat,
         Settle(kind, c, p)
  PROVE  /\ buf' \in [Cells -> 0 .. SourceLen]
         /\ off' \in 0 .. BufSize
         /\ got' \in 0 .. Room'
         /\ eaten' \in Nat
         /\ made' \in 0 .. OutLimit
         /\ told' \in BOOLEAN
         /\ ended' \in BOOLEAN
         /\ dst' \in Nat
         /\ pos' \in 0 .. SourceLen
<1>1. off \in Nat /\ got \in Nat /\ Visible = off + got /\ Visible \in 0 .. BufSize
  BY Sizes DEF TypeOK, Visible, Room
<1>2. c \in 0 .. Visible /\ made + p \in 0 .. OutLimit
  BY Sizes DEF Settle, MayAnswer, Contract, TypeOK
<1>3. off' \in 0 .. BufSize
  BY <1>1, <1>2, Sizes DEF Settle, TypeOK
<1>4. buf' \in [Cells -> 0 .. SourceLen]
  <2>1. CASE kind = "BufError"
    BY <2>1 DEF Settle, TypeOK
  <2>2. CASE kind # "BufError"
    <3>1. buf' = [i \in Cells |-> IF i + c < Visible THEN buf[i + c] ELSE buf[i]]
      BY <2>2 DEF Settle
    <3>2. \A i \in Cells : i + c < Visible => i + c \in Cells
      BY <1>1, <1>2, Sizes DEF Cells
    <3>3. QED
      BY <3>1, <3>2 DEF TypeOK
  <2>3. QED
    BY <2>1, <2>2
<1>5. got' \in 0 .. Room'
  <2>1. CASE kind = "BufError"
    BY <2>1, <1>1, Sizes DEF Settle, TypeOK, Room
  <2>2. CASE kind # "BufError"
    BY <2>2, <1>1, <1>2, Sizes DEF Settle, Room
  <2>3. QED
    BY <2>1, <2>2
<1>6. eaten' \in Nat /\ made' \in 0 .. OutLimit
  BY <1>2 DEF Settle, TypeOK
<1>7. QED
  BY <1>3, <1>4, <1>5, <1>6 DEF Settle, TypeOK

\* The types of the state (mod.rs:223-228 and the locals of read).
THEOREM TypeCorrect == Spec => []TypeOK
<1>1. Init => TypeOK
  <2> SUFFICES ASSUME Init PROVE TypeOK
    OBVIOUS
  <2>1. buf \in [Cells -> 0 .. SourceLen]
    BY Sizes DEF Init
  <2>2. off \in 0 .. BufSize /\ got \in 0 .. Room /\ pos \in 0 .. SourceLen
        /\ made \in 0 .. OutLimit
    BY Sizes DEF Init, Room
  <2>3. QED
    BY <2>1, <2>2 DEF Init, TypeOK, Replies
<1>2. TypeOK /\ [Next]_vars => TypeOK'
  <2> SUFFICES ASSUME TypeOK, [Next]_vars PROVE TypeOK'
    OBVIOUS
  <2>1. ASSUME NEW d \in DstSizes, Call(d) PROVE TypeOK'
    BY <2>1, ReaderAssumption DEF TypeOK, Call, Room
  <2>2. ASSUME NEW d \in DstSizes, CallTooSmall(d) PROVE TypeOK'
    BY <2>2, ReaderAssumption DEF TypeOK, CallTooSmall, ReturnWith, Room, Replies, Fatal
  <2>3. ASSUME NEW n \in Amounts, Fill(n) PROVE TypeOK'
    <3>1. n \in Nat /\ n <= Room /\ pos + n <= SourceLen
      BY <2>3, Sizes DEF Fill, Amounts
    <3>2. buf' \in [Cells -> 0 .. SourceLen]
      <4>1. \A i \in Cells : off <= i /\ i < off + n => pos + (i - off) + 1 \in 0 .. SourceLen
        BY <3>1, Sizes DEF TypeOK, Cells
      <4>2. QED
        BY <2>3, <4>1 DEF Fill, TypeOK
    <3>3. QED
      BY <2>3, <3>1, <3>2, Sizes DEF Fill, TypeOK, Room
  <2>4. ASSUME NEW r \in {"Interrupted", "IO"}, FillFail(r) PROVE TypeOK'
    BY <2>4, Sizes DEF TypeOK, FillFail, ReturnWith, Room, Replies, Fatal
  <2>5. ASSUME NEW kind \in Kinds, NEW c \in Amounts, Continue(kind, c) PROVE TypeOK'
    <3>1. Settle(kind, c, 0) /\ pc' = "fill" /\ reply' = reply
      BY <2>5 DEF Continue
    <3>2. QED
      BY <3>1, Sizes, SettleType DEF TypeOK, Amounts
  <2>6. ASSUME NEW c \in Amounts, Refuse(c) PROVE TypeOK'
    <3>1. Settle("BufError", c, 0) /\ ReturnWith("SmallBuffer")
      BY <2>6 DEF Refuse
    <3>2. QED
      BY <3>1, Sizes, SettleType DEF TypeOK, Amounts, Kinds, ReturnWith, Replies, Fatal
  <2>7. ASSUME NEW p \in Outputs, Truncate(p) PROVE TypeOK'
    <3>1. Settle("SeqError", 0, p) /\ ReturnWith("TruncatedData")
      BY <2>7 DEF Truncate
    <3>2. QED
      BY <3>1, Sizes, SettleType DEF TypeOK, Outputs, Kinds, ReturnWith, Replies, Fatal
  <2>8. ASSUME NEW kind \in Kinds, NEW c \in Amounts, NEW p \in Outputs,
               Deliver(kind, c, p)
        PROVE TypeOK'
    <3>1. Settle(kind, c, p) /\ ReturnWith(IF p = 0 THEN "end" ELSE "data")
      BY <2>8 DEF Deliver
    <3>2. QED
      BY <3>1, Sizes, SettleType DEF TypeOK, Amounts, Outputs, ReturnWith, Replies
  <2>9. ASSUME CodecFail PROVE TypeOK'
    BY <2>9, Sizes DEF TypeOK, CodecFail, ReturnWith, Room, Replies, Fatal
  <2>10. CASE UNCHANGED vars
    BY <2>10 DEF TypeOK, vars, Room
  <2>11. QED
    BY <2>1, <2>2, <2>3, <2>4, <2>5, <2>6, <2>7, <2>8, <2>9, <2>10
       DEF Next, Transform
<1>3. QED
  BY <1>1, <1>2, PTL DEF Spec
-----------------------------------------------------------------------------
\* memmove keeps the window: what is left after the codec consumed c bytes is
\* what follows them in the source (mod.rs:294-302).
LEMMA SettleWindow ==
  ASSUME TypeOK, Window, pc = "transform",
         NEW kind \in Kinds \ {"BufError"}, NEW c \in Nat, NEW p \in Nat,
         Settle(kind, c, p)
  PROVE  Window'
<1>1. off \in Nat /\ got \in Nat /\ Visible = off + got /\ Visible <= BufSize
  BY Sizes DEF TypeOK, Visible, Room
<1>2. c <= Visible /\ off' = Visible - c /\ got' = 0 /\ pos' = pos /\ eaten' = eaten + c
  BY <1>1 DEF Settle, MayAnswer, Contract
<1>3. eaten + Visible = pos /\ \A i \in 0 .. Visible - 1 : buf[i] = eaten + i + 1
  BY DEF Window
<1>4. Visible' = Visible - c
  BY <1>1, <1>2 DEF Visible
<1>5. eaten' + Visible' = pos'
  BY <1>1, <1>2, <1>3, <1>4 DEF TypeOK
<1>6. ASSUME NEW i \in 0 .. Visible - c - 1 PROVE buf'[i] = eaten' + i + 1
  <2>1. i \in Cells /\ i + c < Visible /\ i + c \in 0 .. Visible - 1
    BY <1>1, <1>2, Sizes DEF Cells
  <2>2. buf'[i] = buf[i + c]
    BY <2>1 DEF Settle
  <2>3. buf[i + c] = eaten + (i + c) + 1
    BY <2>1, <1>3
  <2>4. QED
    BY <2>2, <2>3, <1>1, <1>2 DEF TypeOK
<1>7. QED
  BY <1>2, <1>4, <1>5, <1>6 DEF Window

\* Outside a failed call the window holds the next unread bytes of the source,
\* in order and each once (mod.rs:281-302).
THEOREM WindowHolds == ASSUME RefusalsAreEmpty PROVE Spec => []Window
<1>1. Init => Window
  BY Sizes DEF Init, Window, Visible
<1>2. TypeOK /\ Window /\ [Next]_vars => Window'
  <2> SUFFICES ASSUME TypeOK, Window, [Next]_vars PROVE Window'
    OBVIOUS
  <2>1. ASSUME NEW d \in DstSizes, Call(d) PROVE Window'
    BY <2>1 DEF Window, Visible, Call
  <2>2. ASSUME NEW d \in DstSizes, CallTooSmall(d) PROVE Window'
    BY <2>2 DEF Window, CallTooSmall, ReturnWith
  <2>3. ASSUME NEW n \in Amounts, Fill(n) PROVE Window'
    <3>1. /\ got = 0 /\ off \in Nat /\ eaten + off = pos /\ n \in Nat /\ off + n <= BufSize
          /\ \A i \in 0 .. off - 1 : buf[i] = eaten + i + 1
      BY <2>3, Sizes DEF Fill, Window, Visible, TypeOK, Amounts, Room
    <3>2. /\ pc' = "transform" /\ off' = off /\ got' = n /\ eaten' = eaten /\ pos' = pos + n
          /\ buf' = [i \in Cells |-> IF off <= i /\ i < off + n
                                     THEN pos + (i - off) + 1 ELSE buf[i]]
      BY <2>3 DEF Fill
    <3>3. Visible' = off + n
      BY <3>2 DEF Visible
    <3>4. eaten' + Visible' = pos'
      BY <3>1, <3>2, <3>3 DEF TypeOK
    <3>5. ASSUME NEW i \in 0 .. (off + n) - 1 PROVE buf'[i] = eaten' + i + 1
      <4>1. i \in Cells
        BY <3>1, Sizes DEF Cells
      <4>2. CASE i < off
        BY <4>1, <4>2, <3>1, <3>2 DEF TypeOK
      <4>3. CASE off <= i
        BY <4>1, <4>3, <3>1, <3>2 DEF TypeOK
      <4>4. QED
        BY <4>2, <4>3, <3>1
    <3>6. QED
      BY <3>2, <3>3, <3>4, <3>5 DEF Window
  <2>4. ASSUME NEW r \in {"Interrupted", "IO"}, FillFail(r) PROVE Window'
    BY <2>4 DEF Window, Visible, FillFail, ReturnWith
  <2>5. ASSUME NEW kind \in Kinds, NEW c \in Amounts, Continue(kind, c) PROVE Window'
    <3>1. /\ kind \in Kinds \ {"BufError"} /\ c \in Nat /\ pc = "transform"
          /\ Settle(kind, c, 0)
      BY <2>5, Sizes DEF Continue, Amounts, Settle
    <3>2. QED
      BY <3>1, SettleWindow
  <2>6. ASSUME NEW c \in Amounts, Refuse(c) PROVE Window'
    BY <2>6 DEF Window, Refuse, ReturnWith
  <2>7. ASSUME NEW p \in Outputs, Truncate(p) PROVE Window'
    BY <2>7 DEF Window, Truncate, ReturnWith
  <2>8. ASSUME NEW kind \in Kinds, NEW c \in Amounts, NEW p \in Outputs,
               Deliver(kind, c, p)
        PROVE Window'
    <3>1. /\ c \in Nat /\ p \in Nat /\ pc = "transform" /\ Settle(kind, c, p)
          /\ ~(kind = "BufError" /\ p = 0)
      BY <2>8, Sizes DEF Deliver, Amounts, Outputs, Settle
    <3>2. kind # "BufError"
      BY <3>1 DEF Settle, MayAnswer, Contract, RefusalsAreEmpty
    <3>3. QED
      BY <3>1, <3>2, SettleWindow
  <2>9. ASSUME CodecFail PROVE Window'
    BY <2>9 DEF Window, CodecFail, ReturnWith
  <2>10. CASE UNCHANGED vars
    BY <2>10 DEF Window, Visible, vars
  <2>11. QED
    BY <2>1, <2>2, <2>3, <2>4, <2>5, <2>6, <2>7, <2>8, <2>9, <2>10
       DEF Next, Transform
<1>3. QED
  BY <1>1, <1>2, TypeCorrect, PTL DEF Spec

\* The codec is shown the source in order, each byte once, whatever the sizes
\* of buffers, reads and slices (mod.rs:281-302).
THEOREM SourceShownInOrder == ASSUME RefusalsAreEmpty PROVE Spec => []ShownInOrder
<1>1. Window => ShownInOrder
  BY DEF Window, ShownInOrder
<1>2. QED
  BY <1>1, WindowHolds, PTL

-----------------------------------------------------------------------------
\* A codec that needs no more than the buffer holds leaves room in it each time
\* it answers FlushState::None, so that a read of 0 bytes means the end of the
\* source and nothing else (mod.rs:281-289).
LEMMA RoomHolds == ASSUME BufferHoldsNeed PROVE Spec => []RoomToRead
<1>1. Init => RoomToRead
  BY ReaderAssumption DEF Init, RoomToRead, Room, BufferHoldsNeed
<1>2. TypeOK /\ RoomToRead /\ [Next]_vars => RoomToRead'
  <2> SUFFICES ASSUME TypeOK, RoomToRead, [Next]_vars PROVE RoomToRead'
    OBVIOUS
  <2> USE DEF RoomToRead, Room, AtEof
  <2>1. ASSUME NEW d \in DstSizes, Call(d) PROVE RoomToRead'
    BY <2>1 DEF Call
  <2>2. ASSUME NEW d \in DstSizes, CallTooSmall(d) PROVE RoomToRead'
    BY <2>2 DEF CallTooSmall, ReturnWith
  <2>3. ASSUME NEW n \in Amounts, Fill(n) PROVE RoomToRead'
    BY <2>3, Sizes DEF Fill, TypeOK, Amounts
  <2>4. ASSUME NEW r \in {"Interrupted", "IO"}, FillFail(r) PROVE RoomToRead'
    BY <2>4 DEF FillFail, ReturnWith
  <2>5. ASSUME NEW kind \in Kinds, NEW c \in Nat, NEW p \in Nat, Settle(kind, c, p),
               pc' # "transform"
        PROVE RoomToRead'
    <3>1. CASE AtEof
      BY <2>5, <3>1 DEF Settle
    <3>2. CASE ~AtEof
      <4>1. /\ off \in Nat /\ got \in Nat \ {0} /\ off + got <= BufSize
            /\ c <= Visible /\ Visible = off + got
        BY <2>5, <3>2, Sizes DEF TypeOK, Settle, MayAnswer, Contract, Visible
      <4>2. CASE kind = "BufError"
        <5>1. off' = off /\ pos' = pos /\ told' = told
          BY <2>5, <3>2, <4>2 DEF Settle, TypeOK
        <5>2. BufSize - off' > 0
          BY <5>1, <4>1, Sizes
        <5>3. QED
          BY <2>5, <3>2, <5>1, <5>2
      <4>3. CASE kind # "BufError"
        <5>1. c > 0 \/ Visible < Need
          BY <2>5, <3>2, <4>1, <4>3, ReaderAssumption DEF Settle, MayAnswer, Contract
        <5>2. off' = Visible - c /\ pos' = pos /\ told' = told
          BY <2>5, <3>2, <4>3 DEF Settle, TypeOK
        <5>3. Visible - c < BufSize
          BY <5>1, <4>1, <2>5, ReaderAssumption DEF BufferHoldsNeed
        <5>4. BufSize - off' > 0
          BY <5>2, <5>3, <4>1, Sizes
        <5>5. QED
          BY <2>5, <3>2, <5>2, <5>4
      <4>4. QED
        BY <4>2, <4>3
    <3>3. QED
      BY <3>1, <3>2
  <2>6. ASSUME Transform, ~CodecFail PROVE RoomToRead'
    BY <2>6, <2>5, Sizes
       DEF Transform, Continue, Refuse, Truncate, Deliver, ReturnWith, Amounts, Outputs, Kinds
  <2>7. ASSUME CodecFail PROVE RoomToRead'
    BY <2>7 DEF CodecFail, ReturnWith
  <2>8. CASE UNCHANGED vars
    BY <2>8 DEF vars
  <2>9. QED
    BY <2>1, <2>2, <2>3, <2>4, <2>6, <2>7, <2>8 DEF Next
<1>3. QED
  BY <1>1, <1>2, TypeCorrect, PTL DEF Spec

\* Finish is told only when nothing is left upstream (mod.rs:283-289).
THEOREM FinishNeverEarly == ASSUME BufferHoldsNeed PROVE Spec => []FinishOnlyAtEnd
<1>1. RoomToRead => FinishOnlyAtEnd
  BY DEF RoomToRead, FinishOnlyAtEnd
<1>2. QED
  BY <1>1, RoomHolds, PTL

\* Once told to finish, the codec is never again shown a fresh byte: with the
\* source at its end obj.read has nothing more to deliver (mod.rs:283-290).
THEOREM FinishStaysFinished == ASSUME BufferHoldsNeed PROVE Spec => FinishIsSticky
<1>1. TypeOK /\ RoomToRead /\ [Next]_vars
      => [told /\ pc = "fill" /\ pc' = "transform" => got' = 0]_vars
  <2> SUFFICES ASSUME TypeOK, RoomToRead, [Next]_vars,
                      told, pc = "fill", pc' = "transform"
               PROVE  got' = 0
    BY DEF vars
  <2>1. PICK n \in Amounts : Fill(n)
    BY DEF Next, Call, CallTooSmall, FillFail, Transform, Continue, Refuse, Truncate,
           Deliver, CodecFail, Settle, ReturnWith, vars
  <2>2. pos = SourceLen /\ pos + n <= SourceLen /\ n \in Nat
    BY <2>1, Sizes DEF RoomToRead, Fill, Amounts
  <2>3. n = 0
    BY <2>2, Sizes
  <2>4. QED
    BY <2>1, <2>3 DEF Fill
<1>2. QED
  BY <1>1, TypeCorrect, RoomHolds, PTL DEF Spec, FinishIsSticky
-----------------------------------------------------------------------------
\* A call reaches the codec only with room for output, and a caller that was
\* told of the end does not read again (mod.rs:273-275, 310-317).
LEMMA CallingHolds == Spec => []Calling
<1>1. Init => Calling
  BY DEF Init, Calling
<1>2. Calling /\ [Next]_vars => Calling'
  <2> SUFFICES ASSUME Calling, [Next]_vars PROVE Calling'
    OBVIOUS
  <2> USE DEF Calling
  <2>1. ASSUME NEW d \in DstSizes, Call(d) PROVE Calling'
    <3>1. d \in Nat /\ CodecBufferSize \in Nat \ {0} /\ d >= CodecBufferSize
      BY <2>1, ReaderAssumption DEF Call
    <3>2. d > 0
      BY <3>1
    <3>3. QED
      BY <2>1, <3>2 DEF Call
  <2>2. ASSUME NEW d \in DstSizes, CallTooSmall(d) PROVE Calling'
    BY <2>2 DEF CallTooSmall, ReturnWith
  <2>3. ASSUME NEW n \in Amounts, Fill(n) PROVE Calling'
    BY <2>3 DEF Fill
  <2>4. ASSUME NEW r \in {"Interrupted", "IO"}, FillFail(r) PROVE Calling'
    BY <2>4 DEF FillFail, ReturnWith
  <2>5. CASE Transform
    BY <2>5 DEF Transform, Continue, Refuse, Truncate, Deliver, CodecFail, Settle, ReturnWith
  <2>6. CASE UNCHANGED vars
    BY <2>6 DEF vars
  <2>7. QED
    BY <2>1, <2>2, <2>3, <2>4, <2>5, <2>6 DEF Next
<1>3. QED
  BY <1>1, <1>2, PTL DEF Spec

\* Ok(0) from the last Ok arm: either the codec ended the stream, or everything
\* was delivered and consumed (mod.rs:310-322).
LEMMA EndIsComplete ==
  ASSUME TypeOK, Window, RoomToRead, Calling, pc = "transform",
         NEW kind \in Kinds, NEW c \in Nat, Deliver(kind, c, 0)
  PROVE  ended' \/ (AtEof /\ pos = SourceLen /\ eaten + c = SourceLen)
<1>1. MayAnswer(kind, c, 0) /\ ended' = (ended \/ kind = "StreamEnd") /\ dst > 0
  BY DEF Deliver, Settle, Calling
<1>2. CASE kind = "StreamEnd"
  BY <1>1, <1>2
<1>3. CASE kind \in {"Ok", "SeqError"}
  <2>1. AtEof
    BY <1>1, <1>3 DEF Deliver
  <2>2. pos = SourceLen /\ eaten + Visible = pos
    BY <2>1 DEF RoomToRead, Window
  <2>3. kind = "Ok"
    BY <1>1, <1>3, <2>1 DEF Deliver, MayAnswer, Contract
  <2>4. c = Visible
    BY <1>1, <2>1, <2>3 DEF MayAnswer, Contract
  <2>5. QED
    BY <2>1, <2>2, <2>4
<1>4. QED
  BY <1>2, <1>3 DEF Kinds, Deliver

\* A caller that saw Ok(0) has seen everything (mod.rs:304-322).
THEOREM EndIsTheEnd ==
  ASSUME RefusalsAreEmpty, BufferHoldsNeed PROVE Spec => []EndMeansEnd
<1>1. Init => EndMeansEnd
  BY DEF Init, EndMeansEnd
<1>2. TypeOK /\ Window /\ RoomToRead /\ Calling /\ EndMeansEnd /\ [Next]_vars
      => EndMeansEnd'
  <2> SUFFICES ASSUME TypeOK, Window, RoomToRead, Calling, EndMeansEnd, [Next]_vars
               PROVE  EndMeansEnd'
    OBVIOUS
  <2> USE DEF EndMeansEnd
  <2>1. ASSUME NEW d \in DstSizes, Call(d) \/ CallTooSmall(d) PROVE EndMeansEnd'
    BY <2>1 DEF Call, CallTooSmall, ReturnWith, Calling
  <2>2. ASSUME NEW n \in Amounts, Fill(n) PROVE EndMeansEnd'
    BY <2>2 DEF Fill, Calling
  <2>3. ASSUME NEW r \in {"Interrupted", "IO"}, FillFail(r) PROVE EndMeansEnd'
    BY <2>3 DEF FillFail, ReturnWith
  <2>4. ASSUME NEW kind \in Kinds, NEW c \in Amounts, Continue(kind, c) PROVE EndMeansEnd'
    BY <2>4 DEF Continue, Settle, Calling
  <2>5. ASSUME NEW c \in Amounts, Refuse(c) PROVE EndMeansEnd'
    BY <2>5 DEF Refuse, ReturnWith
  <2>6. ASSUME NEW p \in Outputs, Truncate(p) PROVE EndMeansEnd'
    BY <2>6 DEF Truncate, ReturnWith
  <2>7. ASSUME NEW kind \in Kinds, NEW c \in Amounts, NEW p \in Outputs,
               Deliver(kind, c, p)
        PROVE  EndMeansEnd'
    <3>1. CASE p = 0
      <4>1. c \in Nat /\ pc = "transform" /\ Deliver(kind, c, 0)
        BY <2>7, <3>1, Sizes DEF Amounts, Deliver, Settle
      <4>2. ended' \/ (AtEof /\ pos = SourceLen /\ eaten + c = SourceLen)
        BY <4>1, EndIsComplete
      <4>3. told' = (told \/ AtEof) /\ pos' = pos /\ eaten' = eaten + c
        BY <4>1 DEF Deliver, Settle
      <4>4. QED
        BY <4>2, <4>3
    <3>2. CASE p # 0
      BY <2>7, <3>2 DEF Deliver, ReturnWith
    <3>3. QED
      BY <3>1, <3>2
  <2>8. ASSUME CodecFail PROVE EndMeansEnd'
    BY <2>8 DEF CodecFail, ReturnWith
  <2>9. CASE UNCHANGED vars
    BY <2>9 DEF vars
  <2>10. QED
    BY <2>1, <2>2, <2>3, <2>4, <2>5, <2>6, <2>7, <2>8, <2>9 DEF Next, Transform
<1>3. QED
  BY <1>1, <1>2, TypeCorrect, WindowHolds, RoomHolds, CallingHolds, PTL DEF Spec
-----------------------------------------------------------------------------
\* A step that answers data or asks for more takes bytes in order, and closes
\* the stream exactly when the read delivered nothing (mod.rs:283-302).
LEMMA SettleTakes ==
  ASSUME TypeOK, Window, RoomToRead, pc = "transform",
         NEW kind \in Kinds, NEW c \in Nat, NEW p \in Nat, Settle(kind, c, p)
  PROVE  /\ Stream!TakeSome
         /\ pos' = pos
         /\ told' # told => pos = SourceLen
<1>1. eaten + Visible = pos /\ c \in 0 .. Visible /\ eaten \in Nat /\ Visible \in Nat
  BY Sizes DEF Window, Settle, MayAnswer, Contract, TypeOK, Visible, Room
<1>2. eaten' = eaten + c /\ pos' = pos /\ told' = (told \/ AtEof)
      /\ ended' = (ended \/ kind = "StreamEnd")
  BY DEF Settle
<1>3. eaten + c >= eaten /\ eaten + c <= pos
  BY <1>1
<1>4. Stream!TakeSome
  BY <1>2, <1>3 DEF Stream!TakeSome
<1>5. told' # told => pos = SourceLen
  BY <1>2 DEF RoomToRead, TypeOK
<1>6. QED
  BY <1>2, <1>4, <1>5

\* CodecReader::read implements ByteStream: in-order delivery, one close at the
\* end of the source, completion only when all was taken (mod.rs:272-324).
THEOREM ReaderImplementsStream ==
  ASSUME RefusalsAreEmpty, BufferHoldsNeed PROVE Spec => ImplementsByteStream
<1>1. Init => Stream!Init
  BY DEF Init, Stream!Init, Phase
<1>2. TypeOK /\ Window /\ RoomToRead /\ Calling /\ [Next]_vars
      => [Stream!Next]_Stream!streamVars
  <2> SUFFICES ASSUME TypeOK, Window, RoomToRead, Calling, [Next]_vars
               PROVE  [Stream!Next]_Stream!streamVars
    OBVIOUS
  <2>1. ASSUME NEW d \in DstSizes, Call(d) PROVE UNCHANGED Stream!streamVars
    BY <2>1 DEF Call, Phase, Stream!streamVars
  <2>2. ASSUME NEW d \in DstSizes, CallTooSmall(d) PROVE Stream!Fail
    BY <2>2 DEF CallTooSmall, ReturnWith, Phase, Stream!Fail, Stream!Running
  <2>3. ASSUME NEW n \in Amounts, Fill(n)
        PROVE  Stream!Deliver \/ UNCHANGED Stream!streamVars
    <3>1. n \in Nat /\ pos \in Nat /\ pos' = pos + n /\ pos + n <= SourceLen
      BY <2>3, Sizes DEF Fill, Amounts, TypeOK
    <3>2. CASE n = 0
      <4>1. pos' = pos
        BY <3>1, <3>2
      <4>2. QED
        BY <2>3, <4>1 DEF Fill, Phase, Stream!streamVars
    <3>3. CASE n > 0
      <4>1. pos' > pos /\ pos' <= SourceLen /\ pos # SourceLen
        BY <3>1, <3>3, Sizes
      <4>2. ~told
        BY <4>1 DEF RoomToRead
      <4>3. QED
        BY <2>3, <4>1, <4>2 DEF Fill, Phase, Stream!Deliver
    <3>4. QED
      BY <3>1, <3>2, <3>3
  <2>4. ASSUME NEW r \in {"Interrupted", "IO"}, FillFail(r)
        PROVE  Stream!Fail \/ UNCHANGED Stream!streamVars
    BY <2>4 DEF FillFail, ReturnWith, Phase, Stream!Fail, Stream!Running, Stream!streamVars
  <2>5. ASSUME NEW kind \in Kinds, NEW c \in Amounts, Continue(kind, c) PROVE Stream!Take
    <3>1. c \in Nat /\ pc = "transform" /\ Settle(kind, c, 0)
      BY <2>5, Sizes DEF Continue, Settle, Amounts
    <3>2. Stream!TakeSome /\ pos' = pos
      BY <3>1, SettleTakes
    <3>3. told' = told
      BY <2>5 DEF Continue, Settle, TypeOK
    <3>4. QED
      BY <2>5, <3>1, <3>2, <3>3 DEF Continue, Phase, Stream!Take, Stream!Running
  <2>6. ASSUME NEW c \in Amounts, Refuse(c) PROVE Stream!Fail
    <3>1. c = 0
      BY <2>6 DEF Refuse, Settle, MayAnswer, Contract, RefusalsAreEmpty
    <3>2. eaten' = eaten /\ ended' = ended /\ pos' = pos
      BY <2>6, <3>1 DEF Refuse, Settle, TypeOK
    <3>3. QED
      BY <2>6, <3>2 DEF Refuse, Settle, ReturnWith, Phase, Stream!Fail, Stream!Running
  <2>7. ASSUME NEW p \in Outputs, Truncate(p) PROVE Stream!Fail
    <3>1. eaten' = eaten /\ ended' = ended /\ pos' = pos
      BY <2>7 DEF Truncate, Settle, TypeOK
    <3>2. QED
      BY <2>7, <3>1 DEF Truncate, Settle, ReturnWith, Phase, Stream!Fail, Stream!Running
  <2>8. ASSUME NEW kind \in Kinds, NEW c \in Amounts, NEW p \in Outputs,
               Deliver(kind, c, p)
        PROVE  Stream!Take \/ Stream!Close \/ Stream!Complete
    <3>1. c \in Nat /\ p \in Nat /\ pc = "transform" /\ Settle(kind, c, p)
      BY <2>8, Sizes DEF Deliver, Settle, Amounts, Outputs
    <3>2. Stream!TakeSome /\ pos' = pos /\ (told' # told => pos = SourceLen)
      BY <3>1, SettleTakes
    <3>3. CASE p = 0
      <4>1. ended' \/ (AtEof /\ pos = SourceLen /\ eaten + c = SourceLen)
        BY <2>8, <3>1, <3>3, EndIsComplete
      <4>2. eaten' = eaten + c
        BY <3>1 DEF Settle
      <4>3. Phase' = "done" /\ Stream!Running
        BY <2>8, <3>1, <3>3 DEF Deliver, ReturnWith, Phase, Stream!Running
      <4>4. QED
        BY <3>2, <4>1, <4>2, <4>3 DEF Stream!Complete
    <3>4. CASE p # 0
      <4>1. pc' = "idle"
        BY <2>8, <3>4 DEF Deliver, ReturnWith
      <4>2. told' = (told \/ AtEof)
        BY <3>1 DEF Settle
      <4>3. QED
        BY <3>1, <3>2, <4>1, <4>2
           DEF Phase, Stream!Take, Stream!Close, Stream!Running, TypeOK
    <3>5. QED
      BY <3>3, <3>4
  <2>9. ASSUME CodecFail PROVE Stream!Fail
    BY <2>9 DEF CodecFail, ReturnWith, Phase, Stream!Fail, Stream!Running
  <2>10. CASE UNCHANGED vars
    BY <2>10 DEF vars, Phase, Stream!streamVars
  <2>11. QED
    BY <2>1, <2>2, <2>3, <2>4, <2>5, <2>6, <2>7, <2>8, <2>9, <2>10
       DEF Next, Transform, Stream!Next
<1>3. QED
  BY <1>1, <1>2, TypeCorrect, WindowHolds, RoomHolds, CallingHolds, PTL
     DEF Spec, ImplementsByteStream, Stream!Spec
-----------------------------------------------------------------------------
\* The invariant the theorems rest on, all of it together: whatever mix of short
\* reads, interruptions, memmoves and answers came before, each step of the loop
\* of read starts from what the next one relies on (mod.rs:272-324).
THEOREM ReaderInvariant ==
  ASSUME RefusalsAreEmpty, BufferHoldsNeed PROVE Spec => []Inductive
BY TypeCorrect, WindowHolds, RoomHolds, CallingHolds, PTL DEF Inductive
=============================================================================
