----------------------------- MODULE MCToolExec -----------------------------
(* Model-checking instance of ToolExec: one kind for each way a call goes. *)
EXTENDS ToolExec

Read  == [safe |-> TRUE, shell |-> FALSE, verdict |-> "auto", parallel |-> TRUE, write |-> FALSE]
Edit  == [Read EXCEPT !.safe = FALSE, !.write = TRUE]
Query == [Read EXCEPT !.shell = TRUE]
Sole  == [Read EXCEPT !.parallel = FALSE]
Ask   == [Edit EXCEPT !.verdict = "ask"]
Deny  == [Edit EXCEPT !.verdict = "deny"]

MixedKinds == {Read, Edit, Query, Sole, Ask, Deny}
=============================================================================
