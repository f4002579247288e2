------------------------------ MODULE Delivery ------------------------------
(***************************************************************************)
(* What a chain of codecs promises to whoever reads its last Transform     *)
(* (src/src/lib/codec/mod.rs): pieces of what its codecs make of the whole *)
(* input, in order, then the end or one error.  Of an input that is not    *)
(* well-formed nothing is promised.  Pipeline implements this, and Muter   *)
(* is built on it.                                                         *)
(***************************************************************************)
EXTENDS Codec, Sequences, SequencesExt

VARIABLES
  meaning,  (* what the codecs make of the whole input, or Malformed       *)
  out,      (* what was delivered                                          *)
  reply     (* what the last read returned                                 *)

Going == {"none", "data", "Interrupted"}
CodecErrors == {"SmallBuffer", "TruncatedData", "Codec", "panic"}
Promised == meaning # Malformed

Init == out = <<>> /\ reply = "none"

Deliver(piece) ==
  /\ reply \in Going
  /\ piece # <<>>
  /\ Promised => IsPrefix(out \o piece, meaning)
  /\ out' = out \o piece
  /\ reply' = "data"
  /\ UNCHANGED meaning

Interrupt ==
  /\ reply \in Going
  /\ reply' = "Interrupted"
  /\ UNCHANGED <<meaning, out>>

Finish ==
  /\ reply \in Going
  /\ Promised => out = meaning
  /\ reply' = "end"
  /\ UNCHANGED <<meaning, out>>

Fail(error) ==
  /\ reply \in Going
  /\ error \in CodecErrors => ~Promised
  /\ reply' = error
  /\ UNCHANGED <<meaning, out>>

Next ==
  \/ Deliver(Skip(out', Len(out)))
  \/ Interrupt
  \/ Finish
  \/ \E error \in CodecErrors \cup {"IO"} : Fail(error)

Spec == Init /\ [][Next]_<<meaning, out, reply>>
=============================================================================
