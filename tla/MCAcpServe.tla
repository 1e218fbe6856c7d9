----------------------------- MODULE MCAcpServe -----------------------------
(* Model-checking instance of AcpServe: the requests of one method are     *)
(* interchangeable, and the properties are invariants.                     *)
EXTENDS AcpServe, TLC

Alike == Permutations(News) \cup Permutations(Prompts)
=============================================================================
