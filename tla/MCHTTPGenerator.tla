--------------------------- MODULE MCHTTPGenerator ---------------------------
(***************************************************************************)
(* Headers of three, four and five bytes and bodies of up to four, so that *)
(* a write can take all, half, or an uneven part of what is left.          *)
(***************************************************************************)
EXTENDS HTTPGenerator, TLC

Symmetry == Permutations(HeaderID)
=============================================================================
