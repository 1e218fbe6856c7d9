------------------------------ MODULE Checkpoint ------------------------------
(***************************************************************************)
(* internal/checkpoint: the stack of file snapshots behind /undo and       *)
(* /rewind, with its memory budget and its spill files, and the middleware *)
(* of internal/toolexec that takes a snapshot before the file tool writes. *)
(*                                                                         *)
(* The file tool is a barrier of the tool executor, so one write is under  *)
(* way at a time; /undo and /rewind are read from the prompt, between      *)
(* turns.                                                                  *)
(***************************************************************************)
EXTENDS Integers, Sequences, FiniteSetsExt, Functions

CONSTANTS
  Files,           \* paths under rootDir
  Contents,        \* what a file may hold
  Absent,          \* the content of a file that does not exist
  NoFile,
  SizeOf,          \* [Contents -> Nat]
  SpillThreshold,  \* spillThreshold
  MemBudget,       \* Manager.memBudget
  MaxEdits,        \* bound of the model: writes of the file tool
  MaxTurns,        \* Agent.maxTurns: turn numbers are below it
  DiskFaults       \* whether reads and writes of the disk may fail

ASSUME CheckpointAssumption ==
  /\ Absent \in Contents /\ NoFile \notin Files
  /\ SizeOf \in [Contents -> Nat] /\ SizeOf[Absent] = 0
  /\ SpillThreshold \in Nat /\ MemBudget \in Nat /\ SpillThreshold <= MemBudget
  /\ MaxEdits \in Nat /\ MaxTurns \in Nat \ {0} /\ DiskFaults \in BOOLEAN

VARIABLES
  fs,        \* the working tree
  stack,     \* Manager.stack, oldest first
  memUsed,   \* Manager.memUsed
  spills,    \* [id -> content]: the .bak files of the spill directory
  manifest,  \* the ids manifest.json names
  turn,      \* Agent.turnNumber
  pending,   \* the file the tool is about to write, or NoFile
  edits,     \* writes so far
  orig,      \* history: the working tree when the session began
  lost,      \* history: files written without a checkpoint
  unevicted  \* history: whether there was no room because an eviction failed

vars == <<fs, stack, memUsed, spills, manifest, turn, pending, edits, orig,
          lost, unevicted>>

Checkpoints == [id : Nat, file : Files, turn : Nat, data : Contents,
                size : Nat, spilled : BOOLEAN]

\* The content a checkpoint restores; a spilled one reads its .bak file.
Data(cp) == IF ~cp.spilled THEN cp.data
            ELSE IF cp.id \in DOMAIN spills THEN spills[cp.id] ELSE Absent

Init ==
  /\ fs \in [Files -> Contents] /\ orig = fs
  /\ stack = <<>> /\ memUsed = 0 /\ spills = <<>> /\ manifest = {}
  /\ turn = 0 /\ pending = NoFile /\ edits = 0
  /\ lost = {} /\ unevicted = FALSE

\* runLoop stores its turn count at the head of every iteration ...
NextTurn ==
  /\ pending = NoFile /\ turn + 1 < MaxTurns
  /\ turn' = turn + 1
  /\ UNCHANGED <<fs, stack, memUsed, spills, manifest, pending, edits, orig,
                 lost, unevicted>>

\* ... and starts from 0 for every prompt.
NewPrompt ==
  /\ pending = NoFile /\ turn > 0
  /\ turn' = 0
  /\ UNCHANGED <<fs, stack, memUsed, spills, manifest, pending, edits, orig,
                 lost, unevicted>>

-----------------------------------------------------------------------------
(* Capture.                                                                 *)

SpilledIds(s) == {s[i].id : i \in {j \in DOMAIN s : s[j].spilled}}

\* writeManifest names the spilled checkpoints.
WriteManifest(s) == manifest' = SpilledIds(s)

InMemory   == {i \in DOMAIN stack : ~stack[i].spilled}
SizesOf(I) == MapThenSumSet(LAMBDA i : stack[i].size, I)

\* evictOldest skips what is spilled and what records that a file was absent.
Evictable == {i \in InMemory : stack[i].data # Absent}

\* The loop of Capture evicts one checkpoint per scan until "size" more fits the
\* budget or nothing can be evicted.  The mutant tests the budget without the
\* new checkpoint.
Fits_WithoutNew(size, I) == memUsed - SizesOf(I) <= MemBudget
Fits(size, I)            == memUsed - SizesOf(I) + size <= MemBudget

\* I is what it evicts: there was no room before the last of them.  A scan takes
\* the oldest, or one that it can write: the next scan tries them all again.
Evicts(size, I) ==
  /\ I # {} => \E last \in I :
                 /\ ~Fits(size, I \ {last})
                 /\ DiskFaults \/ I \ {last} = {i \in Evictable : i < last}
  /\ Fits(size, I) \/ I = Evictable \/ DiskFaults

\* A spill that fails to reach the disk, as a mutant; and the spill.
Spill_Unwritten(I) == spills
Spill(I) == [id \in DOMAIN spills \cup {stack[i].id : i \in I} |->
               IF id \in DOMAIN spills THEN spills[id]
               ELSE LET i == CHOOSE j \in I : stack[j].id = id IN stack[i].data]

Evicted(I) == [i \in DOMAIN stack |->
                 IF i \in I THEN [stack[i] EXCEPT !.spilled = TRUE, !.data = Absent]
                 ELSE stack[i]]

NewCheckpoint(f) ==
  [id |-> edits, file |-> f, turn |-> turn, data |-> fs[f],
   size |-> SizeOf[fs[f]], spilled |-> FALSE]

\* A large file goes to disk at once.
CaptureLarge(f) ==
  /\ SizeOf[fs[f]] > SpillThreshold
  /\ stack' = Append(stack, [NewCheckpoint(f) EXCEPT !.spilled = TRUE, !.data = Absent])
  /\ spills' = [id \in DOMAIN spills \cup {edits} |->
                  IF id = edits THEN fs[f] ELSE spills[id]]
  /\ WriteManifest(stack')
  /\ UNCHANGED <<memUsed, unevicted>>

\* Another one stays in memory, which may push older ones out.
CaptureSmall(f) ==
  LET size == SizeOf[fs[f]]
  IN  /\ size <= SpillThreshold
      /\ \E I \in SUBSET Evictable :
           /\ Evicts(size, I)
           /\ stack' = Append(Evicted(I), NewCheckpoint(f))
           /\ spills' = Spill(I)
           /\ memUsed' = memUsed - SizesOf(I) + size
           /\ IF I = {} THEN UNCHANGED manifest ELSE WriteManifest(stack')
           /\ unevicted' = (unevicted \/ (~Fits(size, I) /\ I # Evictable))

Capture(f) ==
  /\ pending = NoFile /\ edits < MaxEdits
  /\ CaptureLarge(f) \/ CaptureSmall(f)
  /\ pending' = f /\ edits' = edits + 1
  /\ UNCHANGED <<fs, turn, orig, lost>>

\* The middleware logs a failed capture and lets the tool write.
CaptureFails(f) ==
  /\ pending = NoFile /\ edits < MaxEdits /\ DiskFaults
  /\ pending' = f /\ edits' = edits + 1
  /\ lost' = lost \cup {f}
  /\ UNCHANGED <<fs, stack, memUsed, spills, manifest, turn, orig, unevicted>>

\* The file tool: the write, or an error, which leaves the file alone or, if it
\* is one of the disk, truncated.
Truncations(tree, f) == {[tree EXCEPT ![f] = c] : c \in Contents \ {Absent}}

Write(f, content) ==
  /\ pending = f /\ content # Absent
  /\ pending' = NoFile
  /\ fs' = [fs EXCEPT ![f] = content]
  /\ UNCHANGED <<stack, memUsed, spills, manifest, turn, edits, orig, lost,
                 unevicted>>

WriteFails(f) ==
  /\ pending = f
  /\ pending' = NoFile
  /\ fs' \in {fs} \cup (IF DiskFaults THEN Truncations(fs, f) ELSE {})
  /\ UNCHANGED <<stack, memUsed, spills, manifest, turn, edits, orig, lost,
                 unevicted>>

-----------------------------------------------------------------------------
(* Undo and RewindToTurn.                                                   *)

\* Checkpoints after the n-th, newest first: the oldest of a file's is restored
\* last.  The mutant restores the newest only.
RestoredBy_Newest(n, i) ==
  \A j \in (n + 1)..Len(stack) : stack[j].file = stack[i].file => j <= i
RestoredBy(n, i) ==
  \A j \in (n + 1)..Len(stack) : stack[j].file = stack[i].file => i <= j

\* The memory a restored checkpoint gives back; the mutant forgets that a
\* spilled one holds none.
Freed_Always(n) == SizesOf((n + 1)..Len(stack))
Freed(n)        == SizesOf({i \in (n + 1)..Len(stack) : ~stack[i].spilled})

\* The working tree without what was written after the n-th checkpoint.
Reverted(n) ==
  LET popped == (n + 1)..Len(stack)
  IN  [f \in Files |->
         IF \E i \in popped : stack[i].file = f
         THEN Data(stack[CHOOSE i \in popped :
                           stack[i].file = f /\ RestoredBy(n, i)])
         ELSE fs[f]]

\* The .bak file of a restored checkpoint is removed, if the disk allows.
Popped(n) ==
  LET popped == (n + 1)..Len(stack)
      read   == {stack[i].id : i \in {j \in popped : stack[j].spilled}}
  IN  /\ \E gone \in SUBSET read :
           /\ gone = read \/ DiskFaults
           /\ spills' = Restrict(spills, DOMAIN spills \ gone)
      /\ memUsed' = memUsed - Freed(n)
      /\ stack' = SubSeq(stack, 1, n)

Restore(n) == Popped(n) /\ fs' = Reverted(n)

\* The restore of the n-th fails, which keeps it on the stack; the file it was to
\* be written to may be truncated.
RestoreStops(n) ==
  /\ DiskFaults /\ Popped(n)
  /\ \/ fs' = Reverted(n)
     \/ Data(stack[n]) # Absent /\ fs' \in Truncations(Reverted(n), stack[n].file)

\* The manifest is not rewritten.
Undo ==
  /\ pending = NoFile /\ stack # <<>>
  /\ Restore(Len(stack) - 1) \/ RestoreStops(Len(stack))
  /\ UNCHANGED <<manifest, turn, pending, edits, orig, lost, unevicted>>

\* The last checkpoint of a turn up to t; what follows it is reverted, or a part
\* of it when a restore fails on the way.
Cutoff(t) == Max({0} \cup {i \in DOMAIN stack : stack[i].turn <= t})

RewindToTurn(t) ==
  /\ pending = NoFile
  /\ \/ Restore(Cutoff(t))
     \/ \E n \in (Cutoff(t) + 1)..Len(stack) : RestoreStops(n)
  /\ WriteManifest(stack')
  /\ UNCHANGED <<turn, pending, edits, orig, lost, unevicted>>

Next ==
  \/ NextTurn \/ NewPrompt \/ Undo
  \/ \E f \in Files : Capture(f) \/ CaptureFails(f) \/ WriteFails(f)
  \/ \E f \in Files, c \in Contents : Write(f, c)
  \/ \E t \in 0..MaxTurns : RewindToTurn(t)

Spec == Init /\ [][Next]_vars

-----------------------------------------------------------------------------
(* Properties.                                                              *)

\* Every variable has its type; memUsed never goes below zero.
TypeOK ==
  /\ fs \in [Files -> Contents] /\ orig \in [Files -> Contents]
  /\ stack \in Seq(Checkpoints)
  /\ memUsed \in Nat
  /\ DOMAIN spills \subseteq Nat /\ manifest \subseteq Nat
  /\ turn \in 0..(MaxTurns - 1) /\ edits \in 0..MaxEdits
  /\ pending \in Files \cup {NoFile} /\ lost \subseteq Files
  /\ unevicted \in BOOLEAN

\* memUsed is the size of what the stack holds in memory, through every
\* eviction, undo and rewind.  (Capture, evictOldest, Undo, rewindLocked)
MemAccounted == memUsed = SizesOf(InMemory)

\* The memory budget is kept, unless room could not be made because an eviction
\* failed.  (Capture)
BudgetKept == memUsed <= MemBudget \/ unevicted

\* What was evicted can still be read: every spilled checkpoint of the stack has
\* its .bak file, through evictions, undos and rewinds that stop half way.
\* (Capture, evictOldest, restore, rewindLocked)
SpillsKept == SpilledIds(stack) \subseteq DOMAIN spills

\* Eviction and spill files are invisible: seen through Data, the stack is the
\* log of edits of UndoLog, and every operation one of its steps.
Entries == [i \in DOMAIN stack |->
              [file |-> stack[i].file, before |-> Data(stack[i])]]
Log == INSTANCE UndoLog WITH edits <- Entries
RefinesUndoLog == Log!Spec

\* A file whose writes were all captured can be brought back to what it was
\* when the session began.  (restore: "stack-based reverse application which is
\* always correct")
EditsUndoable == Log!Restorable
=============================================================================
