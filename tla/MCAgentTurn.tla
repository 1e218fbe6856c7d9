----------------------------- MODULE MCAgentTurn -----------------------------
(***************************************************************************)
(* Model-checking instances of AgentTurn: which replies the model may      *)
(* stream in each run.                                                     *)
(***************************************************************************)
EXTENDS AgentTurn

Reply(text, tools, stop) == [text |-> text, tools |-> tools, stop |-> stop]

Answer    == Reply(TRUE, <<>>, "end")
Cut       == Reply(TRUE, <<>>, "max_tokens")
Broken    == Reply(TRUE, <<"safe">>, "error")
Read      == Reply(TRUE, <<"safe">>, "end")
Quiet     == Reply(FALSE, <<"safe">>, "end")
Mixed     == Reply(FALSE, <<"safe", "ask", "safe">>, "end")
EditRead  == Reply(TRUE, <<"serial", "safe">>, "end")
Finishing == Reply(TRUE, <<"complete">>, "end")

FaultyReplies  == {Answer, Cut, Broken, Quiet, Finishing}
ToolReplies    == {Answer, Mixed, EditRead}
PlainReplies   == {Answer, Read}
=============================================================================
