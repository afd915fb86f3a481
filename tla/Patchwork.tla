------------------------------ MODULE Patchwork ------------------------------
(***************************************************************************)
(* What requests of every kind refer to.                                   *)
(***************************************************************************)

CONSTANTS
  Patches,     \* the stored patches
  ProjectOf,   \* the project of a submission
  Users,       \* accounts
  Sessions,    \* API connections
  Null
=============================================================================
