----------------------------- MODULE MCRotation -----------------------------
(* The instance of Rotation that TLC checks; the cfg files give the constants. *)
EXTENDS Rotation
=============================================================================
