--------------------------- MODULE MCSkillRuntime ---------------------------
(* Model-checking instance of SkillRuntime: two skills that share a name of *)
(* a tool, one of them with a name that the gate does not admit.           *)
EXTENDS SkillRuntime, TLC

CONSTANTS Lint, Docs, Shared, Extra

Brought == Lint :> {Shared} @@ Docs :> {Shared, Extra}
=============================================================================
