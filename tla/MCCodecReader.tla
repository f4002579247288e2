--------------------------- MODULE MCCodecReader ---------------------------
(***************************************************************************)
(* Constants for checking CodecReader with TLC.                            *)
(***************************************************************************)
EXTENDS CodecReader

\* Every codec of the repository refuses with BufError(0, 0) or not at all.
EmptyRefusal == {<<0, 0>>}
=============================================================================
