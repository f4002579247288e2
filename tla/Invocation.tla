----------------------------- MODULE Invocation -----------------------------
(***************************************************************************)
(* What one invocation of muter is for its caller (src/src/main.rs): all   *)
(* of the command line is checked and every input file is open before a    *)
(* byte of output is made, and whether it was all well is in the exit      *)
(* status, which comes last.                                               *)
(***************************************************************************)
EXTENDS Integers, Sequences

VARIABLES
  phase,    (* "checking", "working", "over"                               *)
  wanted,   (* TRUE when all of the output that was asked for has been made *)
  out,      (* the output                                                  *)
  status    (* the exit status, -1 before                                  *)

Init ==
  /\ phase = "checking"
  /\ out = <<>>
  /\ status = -1

Check ==
  /\ phase = "checking"
  /\ phase' \in {"checking", "working"}
  /\ UNCHANGED <<out, status>>

Refuse ==
  /\ phase = "checking"
  /\ phase' = "over"
  /\ status' \in Nat \ {0}
  /\ UNCHANGED out

Work ==
  /\ phase = "working"
  /\ Len(out') >= Len(out)
  /\ SubSeq(out', 1, Len(out)) = out
  /\ UNCHANGED <<phase, status>>

Exit ==
  /\ phase = "working"
  /\ phase' = "over"
  /\ Len(out') >= Len(out)
  /\ SubSeq(out', 1, Len(out)) = out
  /\ status' \in Nat
  /\ status' = 0 => out' = out /\ wanted

Next == Check \/ Refuse \/ Work \/ Exit

Spec == Init /\ [][Next]_<<phase, wanted, out, status>>
=============================================================================
