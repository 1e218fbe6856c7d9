------------------------------- MODULE UndoLog -------------------------------
(***************************************************************************)
(* What the checkpoints of a session promise, whatever memory they fill    *)
(* and whatever goes to disk: a log of the edits to a set of files, each   *)
(* with the file as it was before, that can be undone from the newest on.  *)
(***************************************************************************)
EXTENDS Naturals, Sequences

CONSTANTS Files, Contents, NoFile

VARIABLES
  fs,       \* [Files -> Contents]: the working tree ("absent" is a content)
  edits,    \* the log, oldest first: [file, before]
  pending,  \* the file a tool is about to write, or NoFile
  orig,     \* history: the working tree when the session began
  lost      \* history: files edited without an entry in the log

vars == <<fs, edits, pending, orig, lost>>

Edits == [file : Files, before : Contents]

Init ==
  /\ fs \in [Files -> Contents]
  /\ orig = fs
  /\ edits = <<>> /\ pending = NoFile /\ lost = {}

\* An edit is announced; the log may fail to note it, and the edit goes on.
Note(f) ==
  /\ pending = NoFile /\ pending' = f
  /\ \/ edits' = Append(edits, [file |-> f, before |-> fs[f]]) /\ UNCHANGED lost
     \/ lost' = lost \cup {f} /\ UNCHANGED edits
  /\ UNCHANGED <<fs, orig>>

Change(content) ==
  /\ pending # NoFile /\ pending' = NoFile
  /\ fs' = [fs EXCEPT ![pending] = content]
  /\ UNCHANGED <<edits, orig, lost>>

\* The oldest of the entries for f that follow the n-th.
FirstAfter(n, f, i) ==
  /\ i \in (n + 1)..Len(edits) /\ edits[i].file = f
  /\ \A j \in (n + 1)..(i - 1) : edits[j].file # f

Edited(n, f) == \E i \in (n + 1)..Len(edits) : edits[i].file = f

\* What f was before the edits that follow the n-th.
Before(n, f) ==
  IF Edited(n, f)
  THEN edits[CHOOSE i \in (n + 1)..Len(edits) : FirstAfter(n, f, i)].before
  ELSE fs[f]

\* Undo of every edit but the first n.
UndoTo(n) ==
  /\ pending = NoFile
  /\ fs' = [f \in Files |-> Before(n, f)]
  /\ edits' = SubSeq(edits, 1, n)
  /\ UNCHANGED <<pending, orig, lost>>

\* It stops at the n-th edit, the entry of which stays; of its file nothing is
\* promised until it is undone.
UndoStops(n, content) ==
  /\ pending = NoFile
  /\ fs' = [f \in Files |-> IF f = edits[n].file THEN content ELSE Before(n, f)]
  /\ edits' = SubSeq(edits, 1, n)
  /\ UNCHANGED <<pending, orig, lost>>

Next ==
  \/ \E f \in Files : Note(f)
  \/ \E c \in Contents : Change(c)
  \/ \E n \in 0..Len(edits) : UndoTo(n)
  \/ \E n \in 1..Len(edits), c \in Contents : UndoStops(n, c)

Spec == Init /\ [][Next]_vars

-----------------------------------------------------------------------------
TypeOK ==
  /\ fs \in [Files -> Contents] /\ orig \in [Files -> Contents]
  /\ edits \in Seq(Edits)
  /\ pending \in Files \cup {NoFile}
  /\ lost \subseteq Files

\* Every file all of whose edits were noted can be brought back to what it was
\* when the session began: its oldest entry holds that, or it is unchanged.
Restorable ==
  \A f \in Files \ lost : Before(0, f) = orig[f]
=============================================================================
