----------------------------- MODULE ByteStream -----------------------------
(***************************************************************************)
(* What a codec and its caller may rely on, whatever buffers lie between   *)
(* them: a source of SourceLen bytes is delivered and taken in order, the  *)
(* stream is closed only when all of it was delivered, it is never         *)
(* reopened, and it is complete only when every byte was taken, unless     *)
(* the codec itself declared an earlier end.                               *)
(***************************************************************************)
EXTENDS Integers

CONSTANT SourceLen

VARIABLES
  seen,     (* bytes delivered so far                                      *)
  taken,    (* bytes the codec has taken                                   *)
  ended,    (* the codec has declared the end of the stream                *)
  phase     (* open, closing (told to finish), done or failed              *)

streamVars == <<seen, taken, ended, phase>>

Init ==
  /\ seen = 0
  /\ taken = 0
  /\ ended = FALSE
  /\ phase = "open"

Running == phase \in {"open", "closing"}

TakeSome ==
  /\ taken' >= taken
  /\ taken' <= seen
  /\ ended => ended'

Deliver ==
  /\ phase = "open"
  /\ seen' > seen
  /\ seen' <= SourceLen
  /\ UNCHANGED <<taken, ended, phase>>

Take ==
  /\ Running
  /\ TakeSome
  /\ UNCHANGED <<seen, phase>>

Close ==
  /\ phase = "open"
  /\ seen = SourceLen
  /\ TakeSome
  /\ phase' = "closing"
  /\ UNCHANGED seen

Complete ==
  /\ Running
  /\ TakeSome
  /\ ended' \/ (seen = SourceLen /\ taken' = SourceLen)
  /\ phase' = "done"
  /\ UNCHANGED seen

Fail ==
  /\ Running
  /\ phase' = "failed"
  /\ UNCHANGED <<seen, taken, ended>>

Next == Deliver \/ Take \/ Close \/ Complete \/ Fail

Spec == Init /\ [][Next]_streamVars
=============================================================================
