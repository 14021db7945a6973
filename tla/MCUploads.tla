----------------------------- MODULE MCUploads -----------------------------
(* Instances of Uploads for TLC. *)
EXTENDS Uploads, TLC

CONSTANTS doc, x, y

\* doc is there already, with one byte.
MCExisting == doc :> 1

Symmetry == Permutations(Byte) \cup Permutations(Channels)

=============================================================================
