---------------------------- MODULE MCServerLoop ----------------------------
(***************************************************************************)
(* Small instances of ServerLoop: three connections on two descriptors and *)
(* one or two buffer segments, so that descriptors and segments are reused *)
(* while other clients are connected.                                      *)
(***************************************************************************)
EXTENDS ServerLoop, TLC

Symmetry == Permutations(Conn)
=============================================================================
