----------------------------- MODULE MCCheckpoint -----------------------------
(***************************************************************************)
(* Model-checking instance of Checkpoint: two files, an absent, two small  *)
(* and a large content.                                                    *)
(***************************************************************************)
EXTENDS Checkpoint

MCFiles    == {"f", "g"}
MCContents == {"absent", "short", "long", "huge"}
MCSizeOf   == [c \in MCContents |-> CASE c = "absent" -> 0 [] c = "short" -> 1
                                      [] c = "long" -> 2 [] c = "huge" -> 4]
=============================================================================
