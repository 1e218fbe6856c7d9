------------------------------- MODULE MCWsHub -------------------------------
(***************************************************************************)
(* Model-checking instance of WsHub: emitters are interchangeable.         *)
(***************************************************************************)
EXTENDS WsHub, TLC

Alike == Permutations(Emitters)
=============================================================================
