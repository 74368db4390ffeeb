----------------------------- MODULE MCSHMVector -----------------------------
(***************************************************************************)
(* Small instances of SHMVector: a region of a few two-byte segments and   *)
(* one spare byte, so that the doubling of push_back both fits and fails.  *)
(***************************************************************************)
EXTENDS SHMVectorRefinement
=============================================================================
