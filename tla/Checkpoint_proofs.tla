--------------------------- MODULE Checkpoint_proofs ---------------------------
(***************************************************************************)
(* Proofs that the checkpoint manager, with its evictions and spill files, *)
(* implements the undo log of UndoLog, and so can undo every edit whose    *)
(* checkpoint it took; that its account of the memory is exact, and that   *)
(* the memory stays within its budget.                                     *)
(***************************************************************************)
EXTENDS Checkpoint, FiniteSetTheorems, SequenceTheorems, TLAPS

Undone == INSTANCE UndoLog_proofs WITH edits <- Entries

\* The part of the type invariant the storage of the checkpoints rests on.
StoreTypeOK ==
  /\ fs \in [Files -> Contents] /\ orig \in [Files -> Contents]
  /\ stack \in Seq(Checkpoints)
  /\ spills \in [DOMAIN spills -> Contents]
  /\ turn \in Nat /\ edits \in Nat
  /\ pending \in Files \cup {NoFile} /\ lost \subseteq Files

\* Ids are handed out once, and the stack has them in that order.
IdsGrow ==
  /\ \A i \in DOMAIN stack : stack[i].id < edits
  /\ \A i, j \in DOMAIN stack : i < j => stack[i].id < stack[j].id

\* A .bak file can only be that of a spilled checkpoint or of none.
MemoryUnspilled ==
  \A i \in DOMAIN stack : ~stack[i].spilled => stack[i].id \notin DOMAIN spills

\* Every .bak file was written for a checkpoint that was captured.
SpillsOld == \A id \in DOMAIN spills : id \in Nat /\ id < edits

IInv == /\ StoreTypeOK /\ IdsGrow /\ MemoryUnspilled /\ SpillsOld
        /\ SpillsKept

-----------------------------------------------------------------------------
(* The stack as a sequence, and the log it stands for.                      *)

LEMMA StackFacts ==
  ASSUME StoreTypeOK
  PROVE  /\ Len(stack) \in Nat /\ DOMAIN stack = 1..Len(stack)
         /\ \A i \in DOMAIN stack : stack[i] \in Checkpoints
BY ElementOfSeq, LenProperties DEF StoreTypeOK

EntriesOK ==
  /\ Entries \in Seq(Undone!Edits)
  /\ Len(Entries) = Len(stack) /\ DOMAIN Entries = DOMAIN stack
  /\ \A i \in DOMAIN stack :
       Entries[i] = [file |-> stack[i].file, before |-> Data(stack[i])]

LEMMA EntriesFacts == StoreTypeOK => EntriesOK
<1> SUFFICES ASSUME StoreTypeOK PROVE EntriesOK
  OBVIOUS
<1>1. \A i \in DOMAIN stack :
        /\ stack[i].file \in Files
        /\ Data(stack[i]) \in Contents
  BY StackFacts, CheckpointAssumption DEF Data, Checkpoints, StoreTypeOK
<1>2. Entries \in [1..Len(stack) -> Undone!Edits]
  BY <1>1, StackFacts DEF Entries, Undone!Edits
<1>3. Entries \in Seq(Undone!Edits) /\ Len(Entries) = Len(stack)
  BY <1>2, LenProperties, StackFacts
<1> QED
  BY <1>3, StackFacts DEF Entries, EntriesOK

\* A step that keeps the checkpoints' ids and files, adds one for f and leaves
\* readable what was readable, keeps the ids growing and notes an edit of f.
LEMMA CaptureIsNote ==
  ASSUME IInv, StoreTypeOK', NEW f \in Files, NEW n, n = Len(stack),
         pending = NoFile, pending' = f, edits' = edits + 1,
         UNCHANGED <<fs, turn, orig, lost>>,
         Len(stack') = n + 1,
         \A i \in 1..n :
           /\ stack'[i].id = stack[i].id /\ stack'[i].file = stack[i].file
           /\ Data(stack[i])' = Data(stack[i]),
         stack'[n + 1].id = edits, stack'[n + 1].file = f,
         Data(stack[n + 1])' = fs[f]
  PROVE  IdsGrow' /\ Undone!Note(f)
<1> DEFINE e == [file |-> f, before |-> fs[f]]
<1>1. /\ n \in Nat /\ DOMAIN stack = 1..n
      /\ \A i \in 1..n : stack[i].id \in Nat
      /\ edits \in Nat
  BY StackFacts DEF IInv, StoreTypeOK, Checkpoints
<1>2. DOMAIN stack' = 1..(n + 1)
  BY LenProperties DEF StoreTypeOK
<1>3. IdsGrow'
  BY <1>1, <1>2 DEF IInv, IdsGrow
<1>4. Entries' = Append(Entries, e)
  <2>1. e \in Undone!Edits
    BY DEF Undone!Edits, IInv, StoreTypeOK
  <2>2. EntriesOK
    BY EntriesFacts DEF IInv
  <2>3. EntriesOK'
    BY EntriesFacts, PTL
  <2>4. /\ Append(Entries, e) \in Seq(Undone!Edits)
        /\ Len(Append(Entries, e)) = n + 1
        /\ \A i \in 1..n : Append(Entries, e)[i] = Entries[i]
        /\ Append(Entries, e)[n + 1] = e
    BY <2>1, <2>2, AppendProperties DEF EntriesOK
  <2>5. Entries' \in Seq(Undone!Edits) /\ Len(Entries') = n + 1
    BY <2>3 DEF EntriesOK, Undone!Edits
  <2>6. \A i \in 1..(n + 1) : Entries'[i] = Append(Entries, e)[i]
    <3>1. \A i \in 1..(n + 1) :
            Entries'[i] = [file |-> stack'[i].file, before |-> Data(stack[i])']
      BY <1>2, <2>3 DEF EntriesOK
    <3>2. \A i \in 1..n :
            Entries[i] = [file |-> stack[i].file, before |-> Data(stack[i])]
      BY <1>1, <2>2 DEF EntriesOK
    <3> HIDE DEF e
    <3>3. ASSUME NEW i \in 1..n
          PROVE  Entries'[i] = Append(Entries, e)[i]
      <4>1. Entries'[i] = [file |-> stack'[i].file, before |-> Data(stack[i])']
        BY <1>1, <3>1
      <4>2. Entries'[i] = Entries[i]
        BY <3>2, <4>1
      <4> QED
        BY <2>4, <4>2
    <3>4. Entries'[n + 1] = e
      BY <1>1, <3>1 DEF e
    <3> QED
      BY <1>1, <2>4, <3>3, <3>4
  <2> QED
    BY <2>4, <2>5, <2>6, SeqEqual
<1> QED
  BY <1>3, <1>4 DEF Undone!Note

-----------------------------------------------------------------------------
(* Capture.                                                                 *)

LEMMA LargeIsNote ==
  ASSUME IInv, NEW f \in Files, Capture(f), CaptureLarge(f)
  PROVE  IInv' /\ Undone!Note(f)
<1> DEFINE new == [NewCheckpoint(f) EXCEPT !.spilled = TRUE, !.data = Absent]
<1>n. PICK n \in Nat : n = Len(stack)
  BY StackFacts DEF IInv
<1>1. /\ DOMAIN stack = 1..n
      /\ \A i \in 1..n : stack[i] \in Checkpoints
      /\ edits \in Nat /\ fs[f] \in Contents
  BY <1>n, StackFacts DEF IInv, StoreTypeOK
<1>2. /\ new \in Checkpoints /\ new.id = edits /\ new.file = f
      /\ new.spilled
  BY <1>1, CheckpointAssumption DEF NewCheckpoint, Checkpoints, IInv, StoreTypeOK
<1>3. /\ stack' = Append(stack, new)
      /\ spills' = [id \in DOMAIN spills \cup {edits} |->
                      IF id = edits THEN fs[f] ELSE spills[id]]
      /\ pending = NoFile /\ pending' = f /\ edits' = edits + 1
      /\ UNCHANGED <<fs, turn, orig, lost>>
  BY DEF Capture, CaptureLarge
<1>4. /\ stack' \in Seq(Checkpoints) /\ Len(stack') = n + 1
      /\ DOMAIN stack' = 1..(n + 1)
      /\ \A i \in 1..n : stack'[i] = stack[i]
      /\ stack'[n + 1] = new
  <2> HIDE DEF new
  <2> QED
    BY <1>n, <1>2, <1>3, AppendProperties, LenProperties DEF IInv, StoreTypeOK
<1> HIDE DEF new
<1>5. StoreTypeOK'
  BY <1>1, <1>3, <1>4 DEF IInv, StoreTypeOK
<1>6. \A i \in 1..n : Data(stack[i])' = Data(stack[i])
  BY <1>1, <1>3, <1>4 DEF Data, IInv, SpillsOld, SpillsKept, SpilledIds, IdsGrow
<1>7. Data(stack[n + 1])' = fs[f]
  BY <1>1, <1>2, <1>3, <1>4 DEF Data
<1>8. IdsGrow' /\ Undone!Note(f)
  BY <1>n, <1>2, <1>3, <1>4, <1>5, <1>6, <1>7, CaptureIsNote
<1>9. MemoryUnspilled' /\ SpillsOld'
  BY <1>1, <1>2, <1>3, <1>4 DEF IInv, MemoryUnspilled, SpillsOld, IdsGrow
<1>10. SpillsKept'
  BY <1>1, <1>2, <1>3, <1>4 DEF IInv, SpillsKept, SpilledIds
<1> QED
  BY <1>5, <1>8, <1>9, <1>10 DEF IInv

LEMMA SmallIsNote ==
  ASSUME IInv, NEW f \in Files, Capture(f), CaptureSmall(f)
  PROVE  IInv' /\ Undone!Note(f)
<1> DEFINE new == NewCheckpoint(f)
<1>n. PICK n \in Nat : n = Len(stack)
  BY StackFacts DEF IInv
<1>1. /\ DOMAIN stack = 1..n
      /\ \A i \in 1..n : stack[i] \in Checkpoints
      /\ edits \in Nat /\ fs[f] \in Contents
  BY <1>n, StackFacts DEF IInv, StoreTypeOK
<1>2. /\ new \in Checkpoints /\ new.id = edits /\ new.file = f
      /\ ~new.spilled /\ new.data = fs[f]
  BY <1>1, CheckpointAssumption DEF NewCheckpoint, Checkpoints, IInv, StoreTypeOK
<1>3. PICK I \in SUBSET Evictable :
        stack' = Append(Evicted(I), new) /\ spills' = Spill(I)
  BY DEF Capture, CaptureSmall
<1>4. /\ pending = NoFile /\ pending' = f /\ edits' = edits + 1
      /\ UNCHANGED <<fs, turn, orig, lost>>
  BY DEF Capture
<1>5. Evicted(I) \in Seq(Checkpoints) /\ Len(Evicted(I)) = n
  <2>1. Evicted(I) \in [1..n -> Checkpoints]
    BY <1>1, CheckpointAssumption DEF Evicted, Checkpoints
  <2>2. Evicted(I) \in Seq(Checkpoints)
    BY <2>1
  <2> QED
    BY <2>1, <2>2, LenProperties
<1>6. /\ stack' \in Seq(Checkpoints) /\ Len(stack') = n + 1
      /\ DOMAIN stack' = 1..(n + 1)
      /\ \A i \in 1..n : stack'[i] = Evicted(I)[i]
      /\ stack'[n + 1] = new
  <2> HIDE DEF new
  <2> DEFINE old == Evicted(I)
  <2>1. old \in Seq(Checkpoints) /\ Len(old) = n /\ stack' = Append(old, new)
    BY <1>3, <1>5
  <2> HIDE DEF old
  <2>2. /\ stack' \in Seq(Checkpoints) /\ Len(stack') = n + 1
        /\ \A i \in 1..n : stack'[i] = old[i]
        /\ stack'[n + 1] = new
    BY <1>2, <2>1, AppendProperties
  <2> QED
    BY <2>2, LenProperties DEF old
<1> HIDE DEF new
<1>7. /\ I \subseteq 1..n
      /\ \A i \in I : ~stack[i].spilled /\ stack[i].id \notin DOMAIN spills
      /\ \A i, j \in I : stack[i].id = stack[j].id => i = j
  <2>1. \A i \in 1..n : stack[i].id \in Nat
    BY <1>1 DEF Checkpoints
  <2> QED
    BY <1>1, <2>1 DEF Evictable, InMemory, IInv, MemoryUnspilled, IdsGrow
<1>8. /\ DOMAIN spills' = DOMAIN spills \cup {stack[i].id : i \in I}
      /\ \A id \in DOMAIN spills : spills'[id] = spills[id]
      /\ \A i \in I : spills'[stack[i].id] = stack[i].data
  BY <1>3, <1>7 DEF Spill
<1>9. StoreTypeOK'
  <2>1. \A id \in DOMAIN spills' : spills'[id] \in Contents
    BY <1>1, <1>7, <1>8 DEF Checkpoints, IInv, StoreTypeOK
  <2>2. spills' \in [DOMAIN spills' -> Contents]
    BY <1>3, <2>1 DEF Spill
  <2> QED
    BY <1>1, <1>4, <1>6, <2>2 DEF IInv, StoreTypeOK
<1>10. \A i \in 1..n : /\ stack'[i].id = stack[i].id /\ stack'[i].file = stack[i].file
                       /\ stack'[i].spilled = (stack[i].spilled \/ i \in I)
                       /\ i \notin I => stack'[i] = stack[i]
  <2> SUFFICES ASSUME NEW i \in 1..n
               PROVE  /\ Evicted(I)[i].id = stack[i].id
                      /\ Evicted(I)[i].file = stack[i].file
                      /\ Evicted(I)[i].spilled = (stack[i].spilled \/ i \in I)
                      /\ i \notin I => Evicted(I)[i] = stack[i]
    BY <1>6
  <2>1. stack[i] \in Checkpoints
    BY <1>1
  <2>2. CASE i \in I
    BY <1>1, <2>1, <2>2 DEF Evicted, Checkpoints
  <2>3. CASE i \notin I
    BY <1>1, <2>1, <2>3 DEF Evicted, Checkpoints
  <2> QED
    BY <2>2, <2>3
<1>11. ASSUME NEW i \in 1..n
       PROVE  Data(stack[i])' = Data(stack[i])
  <2>1. CASE i \in I
    <3>1. /\ ~stack[i].spilled /\ stack'[i].spilled
          /\ stack'[i].id = stack[i].id /\ stack[i].id \in DOMAIN spills'
          /\ spills'[stack[i].id] = stack[i].data
      BY <1>7, <1>8, <1>10, <2>1
    <3> QED
      BY <3>1 DEF Data
  <2>2. CASE i \notin I /\ stack[i].spilled
    <3>1. stack[i].id \in DOMAIN spills
      BY <1>1, <2>2 DEF IInv, SpillsKept, SpilledIds
    <3> QED
      BY <1>8, <1>10, <2>2, <3>1 DEF Data
  <2>3. CASE i \notin I /\ ~stack[i].spilled
    BY <1>10, <2>3 DEF Data
  <2> QED
    BY <2>1, <2>2, <2>3
<1>12. Data(stack[n + 1])' = fs[f]
  BY <1>2, <1>6 DEF Data
<1>13. IdsGrow' /\ Undone!Note(f)
  BY <1>n, <1>2, <1>4, <1>6, <1>9, <1>10, <1>11, <1>12, CaptureIsNote
<1>14. SpillsOld'
  <2>1. \A id \in DOMAIN spills : id \in Nat /\ id < edits
    BY DEF IInv, SpillsOld
  <2>2. \A i \in I : stack[i].id \in Nat /\ stack[i].id < edits
    BY <1>1, <1>7 DEF IInv, IdsGrow, Checkpoints
  <2>3. \A id \in DOMAIN spills' : id \in Nat /\ id < edits
    BY <1>8, <2>1, <2>2
  <2> QED
    BY <1>1, <1>4, <2>3 DEF SpillsOld
<1>15. MemoryUnspilled'
  <2> SUFFICES ASSUME NEW i \in 1..(n + 1), ~stack'[i].spilled
               PROVE  stack'[i].id \notin DOMAIN spills'
    BY <1>6 DEF MemoryUnspilled
  <2>1. CASE i = n + 1
    BY <1>1, <1>2, <1>6, <1>7, <1>8, <2>1 DEF IInv, SpillsOld, IdsGrow
  <2>2. CASE i \in 1..n
    <3>1. i \notin I /\ ~stack[i].spilled /\ stack'[i].id = stack[i].id
      BY <1>10, <2>2
    <3>2. ASSUME NEW j \in I
          PROVE  stack[j].id # stack[i].id
      <4>1. stack[j].id \in Nat /\ stack[i].id \in Nat /\ j # i /\ j \in 1..n
        BY <1>1, <1>7, <2>2, <3>1 DEF Checkpoints
      <4>2. (j < i => stack[j].id < stack[i].id) /\ (i < j => stack[i].id < stack[j].id)
        BY <1>1, <2>2, <4>1 DEF IInv, IdsGrow
      <4> QED
        BY <2>2, <4>1, <4>2
    <3> QED
      BY <1>1, <1>8, <2>2, <3>1, <3>2 DEF IInv, MemoryUnspilled
  <2> QED
    BY <1>1, <2>1, <2>2
<1>16. SpillsKept'
  BY <1>1, <1>2, <1>6, <1>8, <1>10 DEF IInv, SpillsKept, SpilledIds
<1> QED
  BY <1>9, <1>13, <1>14, <1>15, <1>16 DEF IInv

-----------------------------------------------------------------------------
(* Undo and RewindToTurn.                                                   *)

LEMMA LogTypeOK == IInv => Undone!TypeOK
BY EntriesFacts DEF IInv, StoreTypeOK, EntriesOK, Undone!TypeOK, Undone!Edits

\* Restoring the checkpoints after the n-th from the newest on leaves every file
\* as it was before the first of them.
LEMMA RestoredIsBefore ==
  ASSUME IInv, NEW n \in 0..Len(stack)
  PROVE  Reverted(n) = [f \in Files |-> Undone!Before(n, f)]
<1> DEFINE popped == (n + 1)..Len(stack)
           oldest(f) == CHOOSE i \in popped : stack[i].file = f /\ RestoredBy(n, i)
<1>1. /\ n \in Nat /\ Len(stack) \in Nat /\ DOMAIN stack = 1..Len(stack)
      /\ Len(Entries) = Len(stack)
      /\ \A i \in popped : /\ Entries[i].file = stack[i].file
                           /\ Entries[i].before = Data(stack[i])
  <2>1. n \in Nat /\ Len(stack) \in Nat /\ DOMAIN stack = 1..Len(stack)
    BY StackFacts DEF IInv
  <2>2. EntriesOK
    BY EntriesFacts DEF IInv
  <2>3. \A i \in popped : i \in DOMAIN stack
    BY <2>1
  <2> QED
    BY <2>1, <2>2, <2>3 DEF EntriesOK
<1> SUFFICES ASSUME NEW f \in Files
             PROVE  (IF \E i \in popped : stack[i].file = f
                     THEN Data(stack[oldest(f)]) ELSE fs[f]) = Undone!Before(n, f)
  BY DEF Reverted
<1>2. Undone!Edited(n, f) <=> \E i \in popped : stack[i].file = f
  BY <1>1 DEF Undone!Edited
<1>3. CASE Undone!Edited(n, f)
  <2>1. PICK i \in popped : Undone!FirstAfter(n, f, i)
    BY <1>1, <1>3, LogTypeOK, Undone!FirstExists
  <2>2. /\ stack[i].file = f
        /\ \A j \in (n + 1)..(i - 1) : stack[j].file # f
    BY <1>1, <2>1 DEF Undone!FirstAfter
  <2>3. RestoredBy(n, i)
    BY <1>1, <2>2 DEF RestoredBy
  <2>4. oldest(f) \in popped /\ stack[oldest(f)].file = f /\ RestoredBy(n, oldest(f))
    BY <2>2, <2>3
  <2>5. oldest(f) = i
    <3> HIDE DEF oldest
    <3> QED
      BY <1>1, <2>2, <2>3, <2>4 DEF RestoredBy
  <2>6. Undone!Before(n, f) = Entries[i].before
    BY <1>1, <2>1, LogTypeOK, Undone!BeforeFirst
  <2> QED
    BY <1>1, <1>2, <1>3, <2>5, <2>6
<1>4. CASE ~Undone!Edited(n, f)
  BY <1>2, <1>4 DEF Undone!Before
<1> QED
  BY <1>3, <1>4

\* The stack and the spill files after a restore, whatever became of the files.
LEMMA PoppedIsUndone ==
  ASSUME IInv, NEW n \in 0..Len(stack), Popped(n), fs' \in [Files -> Contents],
         UNCHANGED <<turn, pending, edits, orig, lost>>
  PROVE  IInv' /\ Entries' = SubSeq(Entries, 1, n)
<1>1. /\ n \in Nat /\ Len(stack) \in Nat /\ DOMAIN stack = 1..Len(stack)
      /\ \A i \in DOMAIN stack : stack[i] \in Checkpoints
  BY StackFacts DEF IInv
<1>2. /\ stack' \in Seq(Checkpoints) /\ Len(stack') = n /\ DOMAIN stack' = 1..n
      /\ \A i \in 1..n : stack'[i] = stack[i]
  BY <1>1, SubSeqProperties, LenProperties DEF Popped, IInv, StoreTypeOK
<1>3. PICK gone \in SUBSET {stack[i].id : i \in {j \in (n + 1)..Len(stack) :
                                                stack[j].spilled}} :
        spills' = Restrict(spills, DOMAIN spills \ gone)
  BY DEF Popped
<1>4. /\ DOMAIN spills' = DOMAIN spills \ gone
      /\ \A id \in DOMAIN spills' : spills'[id] = spills[id]
      /\ spills' \in [DOMAIN spills' -> Contents]
  BY <1>3 DEF Restrict, IInv, StoreTypeOK
<1>5. ASSUME NEW i \in 1..n
      PROVE  stack[i].id \notin gone
  <2> SUFFICES ASSUME NEW j \in (n + 1)..Len(stack)
               PROVE  stack[i].id # stack[j].id
    BY <1>3
  <2>1. i < j /\ i \in DOMAIN stack /\ j \in DOMAIN stack
    BY <1>1
  <2>2. stack[i].id \in Nat /\ stack[j].id \in Nat
    BY <1>1, <2>1 DEF Checkpoints
  <2> QED
    BY <2>1, <2>2 DEF IInv, IdsGrow
<1>7. EntriesOK
  BY EntriesFacts DEF IInv
<1>8. StoreTypeOK'
  BY <1>2, <1>4 DEF IInv, StoreTypeOK
<1>9. IdsGrow' /\ MemoryUnspilled' /\ SpillsOld'
  BY <1>1, <1>2, <1>4 DEF IInv, IdsGrow, MemoryUnspilled, SpillsOld
<1>10. SpillsKept'
  BY <1>1, <1>2, <1>4, <1>5 DEF IInv, SpillsKept, SpilledIds
<1>11. Entries' = SubSeq(Entries, 1, n)
  <2>1. EntriesOK'
    BY <1>8, EntriesFacts, PTL
  <2>2. Entries' \in Seq(Undone!Edits) /\ Len(Entries') = n
    BY <1>2, <2>1 DEF EntriesOK, Undone!Edits
  <2>3. /\ SubSeq(Entries, 1, n) \in Seq(Undone!Edits)
        /\ Len(SubSeq(Entries, 1, n)) = n
        /\ \A i \in 1..n : SubSeq(Entries, 1, n)[i] = Entries[i]
    BY <1>1, <1>7, SubSeqProperties DEF EntriesOK
  <2>4. ASSUME NEW i \in 1..n
        PROVE  Entries'[i] = Entries[i]
    <3>1. Data(stack[i])' = Data(stack[i])
      <4>1. CASE stack[i].spilled
        <5>1. stack[i].id \in DOMAIN spills'
          BY <1>1, <1>4, <1>5, <4>1 DEF IInv, SpillsKept, SpilledIds
        <5> QED
          BY <1>2, <1>4, <4>1, <5>1 DEF Data
      <4>2. CASE ~stack[i].spilled
        BY <1>2, <4>2 DEF Data
      <4> QED
        BY <4>1, <4>2
    <3>2. Entries'[i] = [file |-> stack'[i].file, before |-> Data(stack[i])']
      BY <1>2, <2>1 DEF EntriesOK
    <3>3. Entries[i] = [file |-> stack[i].file, before |-> Data(stack[i])]
      BY <1>1, <1>7 DEF EntriesOK
    <3> QED
      BY <1>2, <3>1, <3>2, <3>3
  <2> QED
    BY <2>2, <2>3, <2>4, SeqEqual
<1> QED
  BY <1>8, <1>9, <1>10, <1>11 DEF IInv

LEMMA RevertedType ==
  ASSUME IInv, NEW n \in 0..Len(stack)
  PROVE  Reverted(n) \in [Files -> Contents]
<1>1. n \in Nat
  BY StackFacts DEF IInv
<1>2. \A f \in Files : Undone!Before(n, f) \in Contents
  BY <1>1, LogTypeOK, Undone!BeforeType
<1> QED
  BY <1>2, RestoredIsBefore

LEMMA RestoreIsUndo ==
  ASSUME IInv, NEW n \in 0..Len(stack), Restore(n), pending = NoFile,
         UNCHANGED <<turn, pending, edits, orig, lost>>
  PROVE  IInv' /\ Undone!UndoTo(n)
<1>1. Popped(n) /\ fs' = Reverted(n)
  BY DEF Restore
<1>2. fs' \in [Files -> Contents]
  BY <1>1, RevertedType
<1>3. IInv' /\ Entries' = SubSeq(Entries, 1, n)
  BY <1>1, <1>2, PoppedIsUndone
<1>4. fs' = [f \in Files |-> Undone!Before(n, f)]
  BY <1>1, RestoredIsBefore
<1> QED
  BY <1>3, <1>4 DEF Undone!UndoTo

\* A restore that fails leaves the files as an undo that stops there.
LEMMA RestoreStopsIsUndo ==
  ASSUME IInv, NEW n \in 1..Len(stack), RestoreStops(n), pending = NoFile,
         UNCHANGED <<turn, pending, edits, orig, lost>>
  PROVE  IInv' /\ \E c \in Contents : Undone!UndoStops(n, c)
<1> DEFINE file == stack[n].file
<1>1. /\ n \in 0..Len(stack) /\ n \in DOMAIN stack /\ file \in Files
  BY StackFacts DEF IInv, Checkpoints
<1>2. Popped(n)
  BY DEF RestoreStops
<1>3. Reverted(n) \in [Files -> Contents]
  BY <1>1, RevertedType
<1>4. PICK c \in Contents : fs' = [Reverted(n) EXCEPT ![file] = c]
  <2>1. CASE fs' = Reverted(n)
    <3>1. Reverted(n)[file] \in Contents
      BY <1>1, <1>3
    <3>2. Reverted(n) = [Reverted(n) EXCEPT ![file] = Reverted(n)[file]]
      BY <1>3
    <3> QED
      BY <2>1, <3>1, <3>2
  <2>2. CASE fs' \in Truncations(Reverted(n), file)
    BY <2>2 DEF Truncations
  <2> QED
    BY <2>1, <2>2 DEF RestoreStops
<1>5. fs' \in [Files -> Contents]
  BY <1>3, <1>4
<1>6. IInv' /\ Entries' = SubSeq(Entries, 1, n)
  BY <1>1, <1>2, <1>5, PoppedIsUndone
<1>7. fs' = [f \in Files |-> IF f = file THEN c ELSE Undone!Before(n, f)]
  BY <1>1, <1>4, RestoredIsBefore
<1>8. Entries[n].file = file
  BY <1>1, EntriesFacts DEF IInv, EntriesOK
<1>9. Undone!UndoStops(n, c)
  BY <1>6, <1>7, <1>8 DEF Undone!UndoStops
<1> QED
  BY <1>6, <1>9

\* The cutoff is a position of the stack, or 0.
LEMMA CutoffInStack ==
  ASSUME IInv, NEW t
  PROVE  Cutoff(t) \in 0..Len(stack)
<1> DEFINE S == {0} \cup {i \in DOMAIN stack : stack[i].turn <= t}
<1>1. Len(stack) \in Nat /\ S \subseteq 0..Len(stack)
  BY StackFacts DEF IInv
<1>2. PICK m \in S : \A i \in S : i <= m
  <2>1. S \in SUBSET Nat /\ S # {} /\ \A i \in S : i <= Len(stack)
    BY <1>1
  <2> HIDE DEF S
  <2> QED
    BY <1>1, <2>1, Undone!GreatestNatural
<1>3. Max(S) \in S
  <2> HIDE DEF S
  <2> QED
    BY <1>2 DEF Max
<1> QED
  BY <1>1, <1>3 DEF Cutoff

-----------------------------------------------------------------------------
(* The invariant, and the refinement, step by step.                         *)

LEMMA InitMaps == Init => IInv /\ Undone!Init
<1> SUFFICES ASSUME Init PROVE IInv /\ Undone!Init
  OBVIOUS
<1>1. stack = <<>> /\ DOMAIN stack = {} /\ spills = <<>> /\ DOMAIN spills = {}
  BY DEF Init
<1>2. spills \in [DOMAIN spills -> Contents]
  BY <1>1
<1>3. IInv
  BY <1>1, <1>2, CheckpointAssumption
     DEF Init, IInv, StoreTypeOK, IdsGrow, MemoryUnspilled, SpillsOld,
         SpillsKept, SpilledIds
<1>4. Entries = <<>>
  BY <1>1 DEF Entries
<1> QED
  BY <1>3, <1>4 DEF Init, Undone!Init

LEMMA NextMaps ==
  ASSUME IInv, [Next]_vars
  PROVE  IInv' /\ [Undone!Next]_(Undone!vars)
<1>1. CASE NextTurn \/ NewPrompt \/ UNCHANGED vars
  <2>1. UNCHANGED <<fs, stack, spills, pending, edits, orig, lost>> /\ turn' \in Nat
    BY <1>1 DEF NextTurn, NewPrompt, vars, IInv, StoreTypeOK
  <2>2. IInv'
    BY <2>1 DEF IInv, StoreTypeOK, IdsGrow, MemoryUnspilled, SpillsOld,
                SpillsKept, SpilledIds
  <2>3. UNCHANGED Undone!vars
    BY <2>1 DEF Undone!vars, Entries, Data
  <2> QED
    BY <2>2, <2>3
<1>2. CASE Undo
  <2>1. Len(stack) - 1 \in 0..Len(stack)
    BY <1>2, StackFacts, EmptySeq DEF Undo, IInv, StoreTypeOK
  <2>2. Len(stack) - 1 \in 0..Len(Entries)
    BY <2>1, EntriesFacts DEF IInv, EntriesOK
  <2>3. CASE Restore(Len(stack) - 1)
    <3>1. IInv' /\ Undone!UndoTo(Len(stack) - 1)
      BY <1>2, <2>1, <2>3, RestoreIsUndo DEF Undo
    <3> QED
      BY <2>2, <3>1 DEF Undone!Next
  <2>4. CASE RestoreStops(Len(stack))
    <3>1. Len(stack) \in 1..Len(stack) /\ Len(stack) \in 1..Len(Entries)
      BY <2>1, StackFacts, EntriesFacts DEF IInv, EntriesOK
    <3>2. IInv' /\ \E c \in Contents : Undone!UndoStops(Len(stack), c)
      BY <1>2, <2>4, <3>1, RestoreStopsIsUndo DEF Undo
    <3> QED
      BY <3>1, <3>2 DEF Undone!Next
  <2> QED
    BY <1>2, <2>3, <2>4 DEF Undo
<1>3. ASSUME NEW t \in 0..MaxTurns, RewindToTurn(t)
      PROVE  IInv' /\ Undone!Next
  <2>1. Cutoff(t) \in 0..Len(stack) /\ Len(stack) \in Nat /\ Len(Entries) = Len(stack)
    BY CutoffInStack, StackFacts, EntriesFacts DEF IInv, EntriesOK
  <2>2. CASE Restore(Cutoff(t))
    <3>1. IInv' /\ Undone!UndoTo(Cutoff(t))
      BY <1>3, <2>1, <2>2, RestoreIsUndo DEF RewindToTurn
    <3> QED
      BY <2>1, <3>1 DEF Undone!Next
  <2>3. ASSUME NEW n \in (Cutoff(t) + 1)..Len(stack), RestoreStops(n)
        PROVE  IInv' /\ Undone!Next
    <3>1. n \in 1..Len(stack) /\ n \in 1..Len(Entries)
      BY <2>1
    <3>2. IInv' /\ \E c \in Contents : Undone!UndoStops(n, c)
      BY <1>3, <2>3, <3>1, RestoreStopsIsUndo DEF RewindToTurn
    <3> QED
      BY <3>1, <3>2 DEF Undone!Next
  <2> QED
    BY <1>3, <2>2, <2>3 DEF RewindToTurn
<1>4. ASSUME NEW f \in Files, Capture(f)
      PROVE  IInv' /\ Undone!Next
  BY <1>4, LargeIsNote, SmallIsNote DEF Capture, Undone!Next
<1>5. ASSUME NEW f \in Files, CaptureFails(f)
      PROVE  IInv' /\ Undone!Next
  <2>1. /\ pending = NoFile /\ pending' = f /\ lost' = lost \cup {f}
        /\ edits' = edits + 1 /\ UNCHANGED <<fs, stack, spills, turn, orig>>
    BY <1>5 DEF CaptureFails
  <2>2. IInv'
    BY <2>1, StackFacts DEF IInv, StoreTypeOK, IdsGrow, MemoryUnspilled, SpillsOld,
         SpillsKept, SpilledIds, Checkpoints
  <2>3. Undone!Note(f)
    BY <2>1 DEF Undone!Note, Entries, Data
  <2> QED
    BY <2>2, <2>3 DEF Undone!Next
<1>6. ASSUME NEW f \in Files, NEW c \in Contents,
             Write(f, c) \/ WriteFails(f)
      PROVE  IInv' /\ Undone!Next
  <2>1. PICK d \in Contents :
          /\ pending = f /\ pending' = NoFile /\ fs' = [fs EXCEPT ![f] = d]
          /\ UNCHANGED <<stack, spills, turn, edits, orig, lost>>
    <3>1. CASE Write(f, c)
      BY <3>1 DEF Write
    <3>2. CASE WriteFails(f)
      <4>1. fs[f] \in Contents /\ fs = [fs EXCEPT ![f] = fs[f]]
        BY DEF IInv, StoreTypeOK
      <4>2. PICK d \in Contents : fs' = [fs EXCEPT ![f] = d]
        BY <3>2, <4>1 DEF WriteFails, Truncations
      <4> QED
        BY <3>2, <4>2 DEF WriteFails
    <3> QED
      BY <1>6, <3>1, <3>2
  <2>2. IInv'
    BY <2>1 DEF IInv, StoreTypeOK, IdsGrow, MemoryUnspilled, SpillsOld,
                SpillsKept, SpilledIds
  <2>3. Undone!Change(d)
    BY <2>1, CheckpointAssumption DEF Undone!Change, Entries, Data
  <2> QED
    BY <2>2, <2>3 DEF Undone!Next
<1> QED
  BY <1>1, <1>2, <1>3, <1>4, <1>5, <1>6, CheckpointAssumption DEF Next

-----------------------------------------------------------------------------
THEOREM IInvHolds == Spec => []IInv
BY InitMaps, NextMaps, PTL DEF Spec

\* What went to disk can be read back, whatever was evicted, undone or rewound.
THEOREM SpillsAlwaysKept == Spec => []SpillsKept
BY IInvHolds, PTL DEF IInv

\* The checkpoint manager implements the undo log: evictions and spill files do
\* not change what an undo or a rewind restores.
THEOREM ImplementsUndoLog == Spec => RefinesUndoLog
<1>1. Init => Log!Init
  BY InitMaps DEF Undone!Init, Log!Init
<1>2. IInv /\ [Next]_vars => [Log!Next]_(Log!vars)
  <2> SUFFICES ASSUME IInv, [Next]_vars
               PROVE  [Log!Next]_(Log!vars)
    OBVIOUS
  <2>1. [Undone!Next]_(Undone!vars)
    BY NextMaps
  <2> QED
    BY <2>1
       DEF Undone!Next, Undone!Note, Undone!Change, Undone!UndoTo, Undone!UndoStops,
           Undone!Before, Undone!Edited, Undone!FirstAfter, Undone!vars,
           Log!Next, Log!Note, Log!Change, Log!UndoTo, Log!UndoStops, Log!Before,
           Log!Edited, Log!FirstAfter, Log!vars
<1> QED
  BY <1>1, <1>2, IInvHolds, PTL DEF Spec, RefinesUndoLog, Log!Spec

\* So every file whose checkpoints were all taken can be brought back to what it
\* was when the session began.
THEOREM EditsAlwaysUndoable == Spec => []EditsUndoable
<1>1. Spec => Undone!Spec
  <2>1. IInv /\ [Next]_vars => [Undone!Next]_(Undone!vars)
    BY NextMaps
  <2> QED
    BY <2>1, InitMaps, IInvHolds, PTL DEF Spec, Undone!Spec
<1>2. Undone!Restorable => EditsUndoable
  BY DEF EditsUndoable, Log!Restorable, Log!Before, Log!Edited, Log!FirstAfter,
         Undone!Restorable, Undone!Before, Undone!Edited, Undone!FirstAfter
<1> QED
  BY <1>1, <1>2, Undone!AlwaysRestorable, PTL

-----------------------------------------------------------------------------
(* Sums over a finite set, which the library takes in the order of CHOOSE.   *)

Pick(s) == CHOOSE x \in s : TRUE

\* it sums w over the subsets of S the way MapThenSumSet does.
Solves(it, w, S) ==
  it = [s \in SUBSET S |-> IF s = {} THEN 0 ELSE w[Pick(s)] + it[s \ {Pick(s)}]]
Sums(it, w, S) == it \in [SUBSET S -> Nat] /\ Solves(it, w, S)

Total(w, S) == (CHOOSE it : Sums(it, w, S))[S]

\* A definition by recursion on the size of the set has a solution.
LEMMA SumsExist ==
  ASSUME NEW S, IsFiniteSet(S), NEW w, \A x \in S : w[x] \in Nat
  PROVE  \E it : Sums(it, w, S)
<1> DEFINE Value(it, s) == IF s = {} THEN 0 ELSE w[Pick(s)] + it[s \ {Pick(s)}]
           Upto(it, n) == \A s \in SUBSET S : Cardinality(s) <= n => it[s] = Value(it, s)
           Bad == {n \in Nat : ~ \E it \in [SUBSET S -> Nat] : Upto(it, n)}
<1>1. \A s \in SUBSET S : /\ Cardinality(s) \in Nat /\ Cardinality(s) <= Cardinality(S)
                          /\ Cardinality(s) = 0 <=> s = {}
                          /\ s # {} => /\ Pick(s) \in s /\ s \ {Pick(s)} \in SUBSET S
                                       /\ Cardinality(s \ {Pick(s)}) = Cardinality(s) - 1
  <2> SUFFICES ASSUME NEW s \in SUBSET S
               PROVE  /\ Cardinality(s) \in Nat /\ Cardinality(s) <= Cardinality(S)
                      /\ Cardinality(s) = 0 <=> s = {}
                      /\ s # {} => /\ Pick(s) \in s /\ s \ {Pick(s)} \in SUBSET S
                                   /\ Cardinality(s \ {Pick(s)}) = Cardinality(s) - 1
    OBVIOUS
  <2>1. IsFiniteSet(s) /\ Cardinality(s) <= Cardinality(S)
    BY FS_Subset
  <2>2. Cardinality(s) \in Nat /\ (Cardinality(s) = 0 <=> s = {})
    BY <2>1, FS_CardinalityType, FS_EmptySet
  <2>3. s # {} => Pick(s) \in s
    BY DEF Pick
  <2>4. s # {} => Cardinality(s \ {Pick(s)}) = Cardinality(s) - 1
    BY <2>1, <2>3, FS_RemoveElement
  <2> QED
    BY <2>1, <2>2, <2>3, <2>4
<1>2. Bad = {}
  <2> SUFFICES ASSUME Bad # {} PROVE FALSE
    OBVIOUS
  <2>1. PICK m \in Bad : \A j \in Bad : m <= j
    <3>1. Bad \in SUBSET Nat
      OBVIOUS
    <3> HIDE DEF Bad
    <3> QED
      BY <3>1, Undone!LeastNatural
  <2>2. m \in Nat /\ ~ \E it \in [SUBSET S -> Nat] : Upto(it, m)
    BY <2>1
  <2>3. CASE m = 0
    <3> DEFINE it == [s \in SUBSET S |-> 0]
    <3>1. it \in [SUBSET S -> Nat]
      OBVIOUS
    <3>2. Upto(it, 0)
      <4> SUFFICES ASSUME NEW s \in SUBSET S, Cardinality(s) <= 0
                   PROVE  it[s] = Value(it, s)
        OBVIOUS
      <4>1. Cardinality(s) \in Nat /\ (Cardinality(s) = 0 <=> s = {})
        BY <1>1
      <4>2. s = {}
        BY <4>1
      <4> QED
        BY <4>2
    <3> QED
      BY <2>2, <2>3, <3>1, <3>2
  <2>4. CASE m # 0
    <3>1. m - 1 \in Nat /\ m - 1 \notin Bad
      <4>1. m - 1 \in Nat /\ ~(m <= m - 1)
        BY <2>2, <2>4
      <4> HIDE DEF Bad
      <4> QED
        BY <2>1, <4>1
    <3>2. PICK g \in [SUBSET S -> Nat] : Upto(g, m - 1)
      BY <3>1
    <3> DEFINE it == [s \in SUBSET S |-> IF Cardinality(s) = m THEN Value(g, s) ELSE g[s]]
    <3>3. ASSUME NEW s \in SUBSET S
          PROVE  it[s] = IF Cardinality(s) = m THEN Value(g, s) ELSE g[s]
      OBVIOUS
    <3>4. it \in [SUBSET S -> Nat]
      <4> SUFFICES ASSUME NEW s \in SUBSET S PROVE Value(g, s) \in Nat
        OBVIOUS
      <4>1. CASE s = {}
        BY <4>1
      <4>2. CASE s # {}
        <5>1. w[Pick(s)] \in Nat /\ g[s \ {Pick(s)}] \in Nat
          BY <1>1, <3>2, <4>2
        <5> QED
          BY <4>2, <5>1
      <4> QED
        BY <4>1, <4>2
    <3>5. Upto(it, m)
      <4> SUFFICES ASSUME NEW s \in SUBSET S, Cardinality(s) <= m
                   PROVE  it[s] = Value(it, s)
        OBVIOUS
      <4>1. Value(it, s) = Value(g, s)
        <5>1. CASE s = {}
          BY <5>1
        <5>2. CASE s # {}
          <6>1. s \ {Pick(s)} \in SUBSET S /\ Cardinality(s \ {Pick(s)}) # m
            BY <1>1, <2>2, <5>2
          <6>2. it[s \ {Pick(s)}] = g[s \ {Pick(s)}]
            BY <3>3, <6>1
          <6> QED
            BY <5>2, <6>2
        <5> QED
          BY <5>1, <5>2
      <4>2. CASE Cardinality(s) = m
        BY <3>3, <4>1, <4>2
      <4>3. CASE Cardinality(s) # m
        <5>1. Cardinality(s) <= m - 1
          <6>1. Cardinality(s) \in Nat
            BY <1>1
          <6> QED
            BY <2>2, <4>3, <6>1
        <5>2. g[s] = Value(g, s)
          BY <3>2, <5>1
        <5> QED
          BY <3>3, <4>1, <4>3, <5>2
      <4> QED
        BY <4>2, <4>3
    <3> HIDE DEF it
    <3> QED
      BY <2>2, <3>4, <3>5
  <2> QED
    BY <2>3, <2>4
<1>3. PICK it \in [SUBSET S -> Nat] : Upto(it, Cardinality(S))
  <2>1. Cardinality(S) \in Nat
    BY FS_CardinalityType
  <2> QED
    BY <1>2, <2>1
<1>4. it = [s \in SUBSET S |-> Value(it, s)]
  <2>1. \A s \in SUBSET S : it[s] = Value(it, s)
    BY <1>1, <1>3
  <2> HIDE DEF Value
  <2> QED
    BY <1>3, <2>1
<1> QED
  BY <1>3, <1>4 DEF Sums, Solves

\* Any element may be taken first.
LEMMA AnyFirst ==
  ASSUME NEW S, IsFiniteSet(S), NEW w, \A x \in S : w[x] \in Nat, NEW it, Sums(it, w, S)
  PROVE  \A s \in SUBSET S : \A x \in s : it[s] = w[x] + it[s \ {x}]
<1> DEFINE Wrong(s) == \E x \in s : it[s] # w[x] + it[s \ {x}]
           Bad == {n \in Nat : \E s \in SUBSET S : Cardinality(s) = n /\ Wrong(s)}
<1>1. ASSUME NEW s \in SUBSET S
      PROVE  /\ Cardinality(s) \in Nat /\ it[s] \in Nat
             /\ \A x \in s : Cardinality(s \ {x}) = Cardinality(s) - 1
             /\ s # {} => Pick(s) \in s /\ it[s] = w[Pick(s)] + it[s \ {Pick(s)}]
  <2>1. IsFiniteSet(s)
    BY FS_Subset
  <2>2. Cardinality(s) \in Nat
    BY <2>1, FS_CardinalityType
  <2>3. \A x \in s : Cardinality(s \ {x}) = Cardinality(s) - 1
    BY <2>1, FS_RemoveElement
  <2>4. s # {} => Pick(s) \in s
    BY DEF Pick
  <2>5. it[s] = IF s = {} THEN 0 ELSE w[Pick(s)] + it[s \ {Pick(s)}]
    BY DEF Sums, Solves
  <2>6. it[s] \in Nat
    BY DEF Sums, Solves
  <2> QED
    BY <2>2, <2>3, <2>4, <2>5, <2>6
<1> SUFFICES ASSUME Bad # {} PROVE FALSE
  BY <1>1
<1>2. PICK m \in Bad : \A j \in Bad : m <= j
  <2>1. Bad \in SUBSET Nat
    OBVIOUS
  <2> HIDE DEF Bad
  <2> QED
    BY <2>1, Undone!LeastNatural
<1>s. PICK s \in SUBSET S : m = Cardinality(s) /\ Wrong(s)
  BY <1>2
<1>3. PICK x \in s : m = Cardinality(s) /\ it[s] # w[x] + it[s \ {x}]
  BY <1>s
<1> DEFINE p == Pick(s)
<1>4. p \in s /\ p # x /\ it[s] = w[p] + it[s \ {p}]
  BY <1>1, <1>3
<1> HIDE DEF p
<1>5. ASSUME NEW u \in SUBSET S, Cardinality(u) < m, NEW y \in u
      PROVE  it[u] = w[y] + it[u \ {y}]
  <2>1. Cardinality(u) \in Nat /\ Cardinality(u) \notin Bad
    <3>1. Cardinality(u) \in Nat /\ m \in Nat
      BY <1>1, <1>2
    <3>2. ~(m <= Cardinality(u))
      BY <1>5, <3>1
    <3> HIDE DEF Bad
    <3> QED
      BY <1>2, <3>1, <3>2
  <2> QED
    BY <2>1, <1>5
<1>6. m \in Nat /\ Cardinality(s \ {p}) = m - 1 /\ Cardinality(s \ {x}) = m - 1
  BY <1>1, <1>3, <1>4
<1>7. it[s \ {p}] = w[x] + it[(s \ {p}) \ {x}]
  BY <1>3, <1>4, <1>5, <1>6
<1>8. it[s \ {x}] = w[p] + it[(s \ {x}) \ {p}]
  BY <1>3, <1>4, <1>5, <1>6
<1>9. (s \ {p}) \ {x} = (s \ {x}) \ {p}
  OBVIOUS
<1>10. /\ w[p] \in Nat /\ w[x] \in Nat
       /\ (s \ {p}) \ {x} \in SUBSET S
       /\ it[(s \ {p}) \ {x}] \in Nat
  BY <1>1, <1>3, <1>4
<1> DEFINE rest == it[(s \ {p}) \ {x}]
<1>11. /\ it[s] = w[p] + (w[x] + rest)
       /\ w[x] + it[s \ {x}] = w[x] + (w[p] + rest)
  BY <1>4, <1>7, <1>8, <1>9
<1>12. w[p] + (w[x] + rest) = w[x] + (w[p] + rest)
  <2> HIDE DEF rest
  <2>1. rest \in Nat
    BY <1>10 DEF rest
  <2> QED
    BY <1>10, <2>1
<1> QED
  BY <1>3, <1>11, <1>12

\* So two ways to sum the same weights agree.
LEMMA SumsAgree ==
  ASSUME NEW S1, NEW S2, IsFiniteSet(S1), IsFiniteSet(S2), NEW w1, NEW w2,
         NEW it1, Sums(it1, w1, S1), NEW it2, Sums(it2, w2, S2),
         NEW T \in SUBSET (S1 \cap S2),
         \A x \in S1 : w1[x] \in Nat, \A x \in S2 : w2[x] \in Nat,
         \A x \in T : w1[x] = w2[x]
  PROVE  it1[T] = it2[T]
<1> DEFINE Bad == {n \in Nat : \E s \in SUBSET T : Cardinality(s) = n /\ it1[s] # it2[s]}
<1>1. ASSUME NEW s \in SUBSET T
      PROVE  /\ Cardinality(s) \in Nat /\ s \in SUBSET S1 /\ s \in SUBSET S2
             /\ \A x \in s : Cardinality(s \ {x}) = Cardinality(s) - 1
  <2>1. IsFiniteSet(s)
    BY FS_Subset
  <2> QED
    BY <2>1, FS_CardinalityType, FS_RemoveElement
<1> SUFFICES ASSUME Bad # {} PROVE FALSE
  BY <1>1
<1>2. PICK m \in Bad : \A j \in Bad : m <= j
  <2>1. Bad \in SUBSET Nat
    OBVIOUS
  <2> HIDE DEF Bad
  <2> QED
    BY <2>1, Undone!LeastNatural
<1>3. PICK s \in SUBSET T : m = Cardinality(s) /\ it1[s] # it2[s]
  BY <1>2
<1>4. s # {}
  <2>1. it1[{}] = 0 /\ it2[{}] = 0
    BY DEF Sums, Solves
  <2> QED
    BY <1>3, <2>1
<1>5. PICK x \in s : TRUE
  BY <1>4
<1>6. it1[s] = w1[x] + it1[s \ {x}] /\ it2[s] = w2[x] + it2[s \ {x}]
  <2>1. it1[s] = w1[x] + it1[s \ {x}]
    BY <1>1, AnyFirst
  <2>2. it2[s] = w2[x] + it2[s \ {x}]
    BY <1>1, AnyFirst
  <2> QED
    BY <2>1, <2>2
<1>7. it1[s \ {x}] = it2[s \ {x}]
  <2>1. s \ {x} \in SUBSET T
    OBVIOUS
  <2>2. Cardinality(s \ {x}) \in Nat /\ Cardinality(s \ {x}) < m
    BY <1>1, <1>3, <2>1
  <2>3. Cardinality(s \ {x}) \notin Bad
    <3>1. m \in Nat
      BY <1>2
    <3>2. ~(m <= Cardinality(s \ {x}))
      BY <2>2, <3>1
    <3> HIDE DEF Bad
    <3> QED
      BY <1>2, <3>2
  <2> QED
    BY <2>1, <2>2, <2>3
<1> QED
  BY <1>3, <1>6, <1>7

\* Whatever solves the equation of a sum is the sum.
LEMMA SolutionIs ==
  ASSUME NEW S, IsFiniteSet(S), NEW w, NEW it, Sums(it, w, S),
         NEW c, Solves(c, w, S)
  PROVE  c[S] = it[S]
<1> DEFINE Bad == {n \in Nat : \E s \in SUBSET S : Cardinality(s) = n /\ c[s] # it[s]}
<1>1. ASSUME NEW s \in SUBSET S
      PROVE  /\ Cardinality(s) \in Nat
             /\ \A x \in s : Cardinality(s \ {x}) = Cardinality(s) - 1
  <2>1. IsFiniteSet(s)
    BY FS_Subset
  <2> QED
    BY <2>1, FS_CardinalityType, FS_RemoveElement
<1> SUFFICES ASSUME Bad # {} PROVE FALSE
  <2>1. Cardinality(S) \in Nat
    BY <1>1
  <2> QED
    BY <2>1
<1>2. PICK m \in Bad : \A j \in Bad : m <= j
  <2>1. Bad \in SUBSET Nat
    OBVIOUS
  <2> HIDE DEF Bad
  <2> QED
    BY <2>1, Undone!LeastNatural
<1>3. PICK s \in SUBSET S : m = Cardinality(s) /\ c[s] # it[s]
  BY <1>2
<1>4. /\ c[s] = IF s = {} THEN 0 ELSE w[Pick(s)] + c[s \ {Pick(s)}]
      /\ it[s] = IF s = {} THEN 0 ELSE w[Pick(s)] + it[s \ {Pick(s)}]
  <2>1. c[s] = IF s = {} THEN 0 ELSE w[Pick(s)] + c[s \ {Pick(s)}]
    BY DEF Solves
  <2>2. it[s] = IF s = {} THEN 0 ELSE w[Pick(s)] + it[s \ {Pick(s)}]
    BY DEF Sums, Solves
  <2> QED
    BY <2>1, <2>2
<1>5. s # {}
  BY <1>3, <1>4
<1>6. Pick(s) \in s /\ s \ {Pick(s)} \in SUBSET S
  BY <1>5 DEF Pick
<1>7. ~(m <= Cardinality(s \ {Pick(s)})) /\ Cardinality(s \ {Pick(s)}) \in Nat
  <2>1. m \in Nat /\ Cardinality(s \ {Pick(s)}) = m - 1
    BY <1>1, <1>3, <1>6
  <2>2. Cardinality(s \ {Pick(s)}) \in Nat
    BY <1>1, <1>6
  <2> QED
    BY <2>1, <2>2
<1>8. Cardinality(s \ {Pick(s)}) \notin Bad
  <2> HIDE DEF Bad
  <2> QED
    BY <1>2, <1>7
<1>9. c[s \ {Pick(s)}] = it[s \ {Pick(s)}]
  BY <1>6, <1>7, <1>8
<1> QED
  BY <1>3, <1>4, <1>5, <1>9

LEMMA TotalIs ==
  ASSUME NEW S, IsFiniteSet(S), NEW w, \A x \in S : w[x] \in Nat
  PROVE  /\ Total(w, S) \in Nat
         /\ \A it : Sums(it, w, S) => it[S] = Total(w, S)
<1> DEFINE c == CHOOSE it : Sums(it, w, S)
<1>1. Sums(c, w, S)
  BY SumsExist
<1>2. Total(w, S) = c[S]
  BY DEF Total
<1> HIDE DEF c
<1>3. c[S] \in Nat
  BY <1>1 DEF Sums, Solves
<1> QED
  BY <1>1, <1>2, <1>3, SumsAgree

LEMMA TotalEmpty == ASSUME NEW w PROVE Total(w, {}) = 0
<1>1. IsFiniteSet({})
  BY FS_EmptySet
<1>2. PICK it : Sums(it, w, {})
  BY <1>1, SumsExist
<1>3. it[{}] = 0
  BY <1>2 DEF Sums, Solves
<1> QED
  BY <1>1, <1>2, <1>3, TotalIs

LEMMA TotalSame ==
  ASSUME NEW S, IsFiniteSet(S), NEW v, NEW w, \A x \in S : v[x] = w[x] /\ w[x] \in Nat
  PROVE  Total(v, S) = Total(w, S)
<1>1. PICK a : Sums(a, v, S)
  BY SumsExist
<1>2. PICK b : Sums(b, w, S)
  BY SumsExist
<1>3. a[S] = b[S]
  BY <1>1, <1>2, SumsAgree
<1>4. a[S] = Total(v, S)
  BY <1>1, TotalIs
<1>5. b[S] = Total(w, S)
  BY <1>2, TotalIs
<1> QED
  BY <1>3, <1>4, <1>5

LEMMA TotalAdd ==
  ASSUME NEW S, IsFiniteSet(S), NEW x, x \notin S, NEW w, w[x] \in Nat,
         \A y \in S : w[y] \in Nat
  PROVE  Total(w, S \cup {x}) = w[x] + Total(w, S)
<1> DEFINE T == S \cup {x}
<1>1. /\ IsFiniteSet(T) /\ \A y \in T : w[y] \in Nat
      /\ x \in T /\ T \ {x} = S /\ T \in SUBSET T /\ S \in SUBSET (T \cap S)
  BY FS_AddElement
<1> HIDE DEF T
<1>2. PICK a : Sums(a, w, T)
  BY <1>1, SumsExist
<1>3. PICK b : Sums(b, w, S)
  BY SumsExist
<1>4. a[T] = w[x] + a[S]
  BY <1>1, <1>2, AnyFirst
<1>5. a[S] = b[S]
  BY <1>1, <1>2, <1>3, SumsAgree
<1>6. a[T] = Total(w, T)
  BY <1>1, <1>2, TotalIs
<1>7. b[S] = Total(w, S)
  BY <1>3, TotalIs
<1> QED
  BY <1>4, <1>5, <1>6, <1>7 DEF T

LEMMA TotalSplit ==
  ASSUME NEW A, NEW B, IsFiniteSet(A), IsFiniteSet(B), A \cap B = {},
         NEW w, \A x \in A \cup B : w[x] \in Nat
  PROVE  Total(w, A \cup B) = Total(w, A) + Total(w, B)
<1> DEFINE Wrong(T) == Total(w, A \cup T) # Total(w, A) + Total(w, T)
           Bad == {n \in Nat : \E T \in SUBSET B : Cardinality(T) = n /\ Wrong(T)}
<1>1. ASSUME NEW T \in SUBSET B
      PROVE  /\ IsFiniteSet(T) /\ Cardinality(T) \in Nat
             /\ \A x \in T : Cardinality(T \ {x}) = Cardinality(T) - 1
  <2>1. IsFiniteSet(T)
    BY FS_Subset
  <2> QED
    BY <2>1, FS_CardinalityType, FS_RemoveElement
<1> SUFFICES ASSUME Bad # {} PROVE FALSE
  <2>1. Cardinality(B) \in Nat
    BY <1>1
  <2>2. ~Wrong(B)
    BY <2>1
  <2> QED
    BY <2>2
<1>2. PICK m \in Bad : \A j \in Bad : m <= j
  <2>1. Bad \in SUBSET Nat
    OBVIOUS
  <2> HIDE DEF Bad
  <2> QED
    BY <2>1, Undone!LeastNatural
<1>3. PICK T \in SUBSET B : m = Cardinality(T) /\ Wrong(T)
  BY <1>2
<1>4. T # {}
  <2> SUFFICES ASSUME T = {} PROVE FALSE
    OBVIOUS
  <2>1. A \cup T = A /\ Total(w, T) = 0 /\ Total(w, A) \in Nat
    BY TotalEmpty, TotalIs
  <2> HIDE DEF Bad
  <2> QED
    BY <1>3, <2>1
<1>5. PICK x \in T : TRUE
  BY <1>4
<1> DEFINE U == T \ {x}
<1>6. /\ U \in SUBSET B /\ IsFiniteSet(U) /\ IsFiniteSet(A \cup U)
      /\ x \notin U /\ x \notin A \cup U
      /\ T = U \cup {x} /\ A \cup T = (A \cup U) \cup {x}
      /\ w[x] \in Nat /\ \A y \in U : w[y] \in Nat
      /\ \A y \in A \cup U : w[y] \in Nat
  <2>1. U \in SUBSET B
    OBVIOUS
  <2>2. IsFiniteSet(U)
    BY <1>1, <2>1
  <2>3. IsFiniteSet(A \cup U)
    BY <2>2, FS_Union
  <2> HIDE DEF Bad
  <2> QED
    BY <2>1, <2>2, <2>3
<1>7. ~Wrong(U)
  <2>1. m \in Nat /\ Cardinality(U) \in Nat /\ Cardinality(U) = m - 1
    BY <1>1, <1>3, <1>6
  <2>2. Cardinality(U) \in Nat /\ ~(m <= Cardinality(U))
    <3> HIDE DEF Bad, U
    <3> QED
      BY <2>1
  <2>3. Cardinality(U) \notin Bad
    <3> HIDE DEF Bad, U
    <3> QED
      BY <1>2, <2>2
  <2> QED
    BY <1>6, <2>2, <2>3
<1> HIDE DEF U, Bad
<1>8. Total(w, T) = w[x] + Total(w, U)
  BY <1>6, TotalAdd
<1>9. Total(w, A \cup T) = w[x] + Total(w, A \cup U)
  BY <1>6, TotalAdd
<1>10. Total(w, A) \in Nat /\ Total(w, U) \in Nat /\ w[x] \in Nat
  BY <1>6, TotalIs
<1>11. Total(w, A \cup U) = Total(w, A) + Total(w, U)
  BY <1>7
<1>12. Total(w, A \cup T) # Total(w, A) + Total(w, T)
  BY <1>3
<1> HIDE DEF Wrong
<1> QED
  BY <1>8, <1>9, <1>10, <1>11, <1>12

LEMMA TotalZero ==
  ASSUME NEW S, IsFiniteSet(S), NEW w, \A x \in S : w[x] = 0
  PROVE  Total(w, S) = 0
<1> DEFINE it == [s \in SUBSET S |-> 0]
<1>1. it \in [SUBSET S -> Nat]
  OBVIOUS
<1>2. \A s \in SUBSET S : it[s] = IF s = {} THEN 0 ELSE w[Pick(s)] + it[s \ {Pick(s)}]
  <2> SUFFICES ASSUME NEW s \in SUBSET S, s # {}
               PROVE  it[s] = w[Pick(s)] + it[s \ {Pick(s)}]
    OBVIOUS
  <2>1. Pick(s) \in S
    BY DEF Pick
  <2> QED
    BY <2>1
<1>3. it[S] = 0
  OBVIOUS
<1> HIDE DEF it
<1>4. Sums(it, w, S)
  BY <1>1, <1>2 DEF Sums, Solves
<1> QED
  BY <1>3, <1>4, TotalIs

-----------------------------------------------------------------------------
(* What the stack holds in memory, and the budget.                          *)

Sizes == [i \in DOMAIN stack |-> stack[i].size]

LEMMA SizesFacts ==
  ASSUME StoreTypeOK
  PROVE  /\ IsFiniteSet(DOMAIN stack)
         /\ \A i \in DOMAIN stack : Sizes[i] = stack[i].size /\ Sizes[i] \in Nat
<1>1. IsFiniteSet(DOMAIN stack)
  BY StackFacts, FS_Interval
<1>2. \A i \in DOMAIN stack : stack[i].size \in Nat
  BY StackFacts DEF Checkpoints
<1> QED
  BY <1>1, <1>2 DEF Sizes

\* SizesOf, which the library folds, is the sum of the sizes.
LEMMA SizesAre ==
  ASSUME StoreTypeOK, NEW I \in SUBSET DOMAIN stack
  PROVE  SizesOf(I) = Total(Sizes, I) /\ IsFiniteSet(I)
<1> DEFINE Step(it) ==
             it = [s \in SUBSET I |->
                     IF s = {} THEN 0 ELSE stack[Pick(s)].size + it[s \ {Pick(s)}]]
           c == CHOOSE it : Step(it)
<1>1. SizesOf(I) = c[I]
  BY DEF SizesOf, MapThenSumSet, MapThenFoldSet, Pick
<1>2. IsFiniteSet(I) /\ \A i \in I : Sizes[i] = stack[i].size /\ Sizes[i] \in Nat
  BY SizesFacts, FS_Subset
<1>3. \A s \in SUBSET I : s # {} => Sizes[Pick(s)] = stack[Pick(s)].size
  BY <1>2 DEF Pick
<1>4. PICK it : Sums(it, Sizes, I)
  BY <1>2, SumsExist
<1>5. Step(it)
  BY <1>3, <1>4 DEF Sums, Solves
<1>6. Step(c)
  BY <1>5
<1>7. Solves(c, Sizes, I)
  <2> HIDE DEF c
  <2>1. c = [s \in SUBSET I |->
               IF s = {} THEN 0 ELSE stack[Pick(s)].size + c[s \ {Pick(s)}]]
    BY <1>6
  <2>2. [s \in SUBSET I |-> IF s = {} THEN 0 ELSE stack[Pick(s)].size + c[s \ {Pick(s)}]]
        = [s \in SUBSET I |-> IF s = {} THEN 0 ELSE Sizes[Pick(s)] + c[s \ {Pick(s)}]]
    BY <1>3
  <2> QED
    BY <2>1, <2>2 DEF Solves
<1> HIDE DEF c
<1>8. c[I] = it[I]
  BY <1>2, <1>4, <1>7, SolutionIs
<1> QED
  BY <1>1, <1>2, <1>4, <1>8, TotalIs

\* The account of the memory.  Only what is in memory counts, and what records
\* that a file was absent, which is never evicted, has no size.
Accounted ==
  /\ memUsed = Total(Sizes, InMemory)
  /\ \A i \in InMemory : stack[i].size = SizeOf[stack[i].data]
  /\ BudgetKept

LEMMA MemoryFacts ==
  ASSUME StoreTypeOK
  PROVE  /\ InMemory \in SUBSET DOMAIN stack /\ IsFiniteSet(InMemory)
         /\ Total(Sizes, InMemory) \in Nat
<1>1. InMemory \in SUBSET DOMAIN stack
  BY DEF InMemory
<1>2. IsFiniteSet(InMemory)
  BY <1>1, SizesFacts, FS_Subset
<1>3. \A i \in InMemory : Sizes[i] \in Nat
  BY <1>1, SizesFacts
<1> QED
  BY <1>1, <1>2, <1>3, TotalIs

\* The memory of a part of the stack, and of the rest.
LEMMA MemorySplits ==
  ASSUME StoreTypeOK, NEW I \in SUBSET InMemory
  PROVE  /\ Total(Sizes, InMemory) = Total(Sizes, InMemory \ I) + SizesOf(I)
         /\ Total(Sizes, InMemory \ I) \in Nat /\ SizesOf(I) \in Nat
         /\ IsFiniteSet(InMemory \ I)
<1> DEFINE R == InMemory \ I
<1>1. /\ R \in SUBSET DOMAIN stack /\ I \in SUBSET DOMAIN stack
      /\ R \cap I = {} /\ InMemory = R \cup I
  BY MemoryFacts
<1>2. IsFiniteSet(R) /\ IsFiniteSet(I)
  BY <1>1, SizesFacts, FS_Subset
<1>3. \A i \in R \cup I : Sizes[i] \in Nat
  BY <1>1, SizesFacts
<1> HIDE DEF R
<1>4. Total(Sizes, R \cup I) = Total(Sizes, R) + Total(Sizes, I)
  BY <1>1, <1>2, <1>3, TotalSplit
<1>5. Total(Sizes, R) \in Nat /\ Total(Sizes, I) \in Nat
  BY <1>2, <1>3, TotalIs
<1>6. SizesOf(I) = Total(Sizes, I)
  BY <1>1, SizesAre
<1> QED
  BY <1>1, <1>2, <1>4, <1>5, <1>6 DEF R

LEMMA AppendedParts ==
  ASSUME NEW old \in Seq(Checkpoints), NEW new \in Checkpoints, stack' = Append(old, new)
  PROVE  /\ Len(stack') = Len(old) + 1 /\ DOMAIN stack' = 1..(Len(old) + 1)
         /\ \A i \in 1..Len(old) : stack'[i] = old[i]
         /\ stack'[Len(old) + 1] = new
<1>1. /\ stack' \in Seq(Checkpoints) /\ Len(stack') = Len(old) + 1
      /\ \A i \in 1..Len(old) : stack'[i] = old[i]
      /\ stack'[Len(old) + 1] = new
  BY AppendProperties
<1>2. DOMAIN stack' = 1..Len(stack')
  BY <1>1, LenProperties
<1> QED
  BY <1>1, <1>2

\* A file written straight to disk takes no memory.
LEMMA LargeAccounted ==
  ASSUME StoreTypeOK, StoreTypeOK', Accounted, NEW f \in Files, CaptureLarge(f)
  PROVE  Accounted'
<1> DEFINE new == [NewCheckpoint(f) EXCEPT !.spilled = TRUE, !.data = Absent]
<1>n. PICK n \in Nat : n = Len(stack)
  BY StackFacts
<1>1. new \in Checkpoints /\ new.spilled /\ stack' = Append(stack, new)
      /\ UNCHANGED <<memUsed, unevicted>>
  <2>1. /\ edits \in Nat /\ turn \in Nat /\ fs[f] \in Contents
        /\ Absent \in Contents /\ SizeOf[fs[f]] \in Nat
    BY CheckpointAssumption DEF StoreTypeOK
  <2> QED
    BY <2>1 DEF CaptureLarge, NewCheckpoint, Checkpoints
<1> HIDE DEF new
<1>2. /\ DOMAIN stack = 1..n /\ DOMAIN stack' = 1..(n + 1)
      /\ \A i \in 1..n : stack'[i] = stack[i]
      /\ stack'[n + 1] = new
  BY <1>n, <1>1, StackFacts, AppendedParts DEF StoreTypeOK
<1>3. InMemory' = InMemory
  BY <1>1, <1>2 DEF InMemory
<1>4. \A i \in InMemory : Sizes'[i] = Sizes[i] /\ Sizes[i] \in Nat
  <2>1. \A i \in 1..n : Sizes'[i] = stack'[i].size
    BY <1>2 DEF Sizes
  <2> QED
    BY <1>2, <2>1, SizesFacts, MemoryFacts
<1>5. Total(Sizes', InMemory) = Total(Sizes, InMemory)
  <2>1. IsFiniteSet(InMemory)
    BY MemoryFacts
  <2> QED
    BY <1>4, <2>1, TotalSame
<1>6. (Total(Sizes, InMemory))' = Total(Sizes', InMemory')
  OBVIOUS
<1>7. memUsed' = (Total(Sizes, InMemory))'
  BY <1>1, <1>3, <1>5, <1>6 DEF Accounted
<1>8. \A i \in InMemory' : stack'[i].size = SizeOf[stack'[i].data]
  BY <1>2, <1>3, MemoryFacts DEF Accounted
<1> QED
  BY <1>1, <1>7, <1>8 DEF Accounted, BudgetKept

\* What is evicted for a new checkpoint makes room for it, unless an eviction
\* failed or there is nothing left to evict.
LEMMA RoomMade ==
  ASSUME StoreTypeOK, Accounted, NEW size \in Nat, size <= SpillThreshold,
         NEW I \in SUBSET Evictable
  PROVE  Fits(size, I) \/ I # Evictable
<1> SUFFICES ASSUME I = Evictable
             PROVE  memUsed - SizesOf(I) + size <= MemBudget
  BY DEF Fits
<1>2. I \in SUBSET InMemory
  BY DEF Evictable
<1>3. \A i \in InMemory \ I : Sizes[i] = 0
  <2> SUFFICES ASSUME NEW i \in InMemory, i \notin Evictable
               PROVE  Sizes[i] = 0
    OBVIOUS
  <2>1. i \in DOMAIN stack /\ stack[i].data = Absent
    BY MemoryFacts DEF Evictable
  <2> QED
    BY <2>1, SizesFacts, CheckpointAssumption DEF Accounted
<1>4. Total(Sizes, InMemory \ I) = 0
  <2>1. IsFiniteSet(InMemory \ I)
    BY <1>2, MemorySplits
  <2> QED
    BY <1>3, <2>1, TotalZero
<1>5. memUsed = SizesOf(I) /\ SizesOf(I) \in Nat
  BY <1>2, <1>4, MemorySplits DEF Accounted
<1> QED
  BY <1>5, CheckpointAssumption

LEMMA SmallAccounted ==
  ASSUME StoreTypeOK, StoreTypeOK', Accounted, NEW f \in Files, CaptureSmall(f)
  PROVE  Accounted'
<1> DEFINE new == NewCheckpoint(f)
           size == SizeOf[fs[f]]
<1>n. PICK n \in Nat : n = Len(stack)
  BY StackFacts
<1>1. /\ new \in Checkpoints /\ ~new.spilled /\ new.data = fs[f] /\ new.size = size
      /\ size \in Nat
  <2>1. /\ edits \in Nat /\ turn \in Nat /\ fs[f] \in Contents
        /\ SizeOf[fs[f]] \in Nat
    BY CheckpointAssumption DEF StoreTypeOK
  <2> QED
    BY <2>1 DEF NewCheckpoint, Checkpoints
<1>2. PICK I \in SUBSET Evictable :
        /\ stack' = Append(Evicted(I), new)
        /\ memUsed' = memUsed - SizesOf(I) + size
        /\ unevicted' = (unevicted \/ (~Fits(size, I) /\ I # Evictable))
  BY DEF CaptureSmall
<1>3. size <= SpillThreshold
  BY DEF CaptureSmall
<1>4. DOMAIN stack = 1..n /\ \A i \in 1..n : stack[i] \in Checkpoints
  BY <1>n, StackFacts
<1>5. Evicted(I) \in Seq(Checkpoints) /\ Len(Evicted(I)) = n
  <2>1. Evicted(I) \in [1..n -> Checkpoints]
    BY <1>4, CheckpointAssumption DEF Evicted, Checkpoints
  <2>2. Evicted(I) \in Seq(Checkpoints)
    BY <2>1
  <2> QED
    BY <2>1, <2>2, LenProperties
<1> HIDE DEF new, size
<1>6. /\ DOMAIN stack' = 1..(n + 1)
      /\ \A i \in 1..n : stack'[i] = Evicted(I)[i]
      /\ stack'[n + 1] = new
  BY <1>1, <1>2, <1>5, AppendedParts
<1>7. /\ I \in SUBSET InMemory /\ I \in SUBSET DOMAIN stack
      /\ n + 1 \notin InMemory
  BY <1>4, MemoryFacts DEF Evictable
<1>8. ASSUME NEW i \in 1..n
      PROVE  /\ stack'[i].size = stack[i].size
             /\ i \in I => stack'[i].spilled
             /\ i \notin I => stack'[i] = stack[i]
  <2>1. stack[i] \in Checkpoints
    BY <1>4
  <2>2. CASE i \in I
    BY <1>4, <1>6, <2>1, <2>2 DEF Evicted, Checkpoints
  <2>3. CASE i \notin I
    BY <1>4, <1>6, <2>1, <2>3 DEF Evicted, Checkpoints
  <2> QED
    BY <2>2, <2>3
<1> DEFINE R == InMemory \ I
<1>9. InMemory' = R \cup {n + 1}
  <2>1. \A i \in 1..(n + 1) : ~stack'[i].spilled <=> i \in R \cup {n + 1}
    <3>1. ASSUME NEW i \in 1..n
          PROVE  ~stack'[i].spilled <=> i \in R
      BY <1>4, <1>8 DEF InMemory
    <3>2. ~stack'[n + 1].spilled
      BY <1>1, <1>6
    <3> QED
      BY <3>1, <3>2, <1>7
  <2>2. InMemory' = {i \in 1..(n + 1) : ~stack'[i].spilled}
    BY <1>6 DEF InMemory
  <2>3. R \subseteq 1..n
    BY <1>4, MemoryFacts
  <2> QED
    BY <2>1, <2>2, <2>3
<1>10. /\ IsFiniteSet(R) /\ n + 1 \notin R
       /\ Total(Sizes, R) \in Nat /\ SizesOf(I) \in Nat
       /\ memUsed = Total(Sizes, R) + SizesOf(I)
  BY <1>7, MemorySplits DEF Accounted
<1>11. /\ \A i \in R : Sizes'[i] = Sizes[i] /\ Sizes[i] \in Nat
       /\ Sizes'[n + 1] = size
  <2>1. \A i \in 1..(n + 1) : Sizes'[i] = stack'[i].size
    BY <1>6 DEF Sizes
  <2>2. \A i \in 1..n : Sizes'[i] = Sizes[i] /\ Sizes[i] \in Nat
    BY <1>4, <1>8, <2>1, SizesFacts
  <2>3. R \subseteq 1..n
    BY <1>4, MemoryFacts
  <2> QED
    BY <1>1, <1>6, <2>1, <2>2, <2>3
<1> HIDE DEF R
<1>12. Total(Sizes', R) = Total(Sizes, R)
  BY <1>10, <1>11, TotalSame
<1>13. Total(Sizes', R \cup {n + 1}) = size + Total(Sizes', R)
  <2>1. \A i \in R : Sizes'[i] \in Nat
    BY <1>11
  <2>2. Sizes'[n + 1] \in Nat
    BY <1>1, <1>11
  <2> QED
    BY <1>10, <1>11, <2>1, <2>2, TotalAdd
<1>14. memUsed' = (Total(Sizes, InMemory))'
  <2>1. (Total(Sizes, InMemory))' = Total(Sizes', InMemory')
    OBVIOUS
  <2>2. Total(Sizes', InMemory') = size + Total(Sizes, R)
    BY <1>9, <1>12, <1>13
  <2>3. memUsed' = size + Total(Sizes, R)
    BY <1>1, <1>2, <1>10
  <2> QED
    BY <2>1, <2>2, <2>3
<1>15. \A i \in InMemory' : stack'[i].size = SizeOf[stack'[i].data]
  <2>1. stack'[n + 1].size = SizeOf[stack'[n + 1].data]
    BY <1>1, <1>6 DEF size
  <2>2. \A i \in R : stack'[i] = stack[i] /\ i \in InMemory
    BY <1>4, <1>8, MemoryFacts DEF R
  <2> QED
    BY <1>9, <2>1, <2>2 DEF Accounted
<1>16. BudgetKept'
  <2>1. Fits(size, I) \/ I # Evictable
    BY <1>1, <1>2, <1>3, RoomMade
  <2>2. Fits(size, I) => memUsed' <= MemBudget
    BY <1>2 DEF Fits
  <2> QED
    BY <1>2, <2>1, <2>2 DEF BudgetKept
<1> QED
  BY <1>14, <1>15, <1>16 DEF Accounted

\* What is popped from the stack gives its memory back.
LEMMA RestoreAccounted ==
  ASSUME StoreTypeOK, StoreTypeOK', Accounted, NEW n \in 0..Len(stack), Popped(n),
         unevicted' = unevicted
  PROVE  Accounted'
<1> DEFINE F == {i \in (n + 1)..Len(stack) : ~stack[i].spilled}
           R == InMemory \ F
<1>1. /\ n \in Nat /\ Len(stack) \in Nat /\ DOMAIN stack = 1..Len(stack)
  BY StackFacts
<1>2. /\ DOMAIN stack' = 1..n
      /\ \A i \in 1..n : stack'[i] = stack[i]
  BY <1>1, SubSeqProperties, LenProperties DEF Popped, StoreTypeOK
<1>3. F \in SUBSET InMemory
  BY <1>1 DEF InMemory
<1>4. InMemory' = R
  BY <1>1, <1>2 DEF InMemory
<1>5. /\ memUsed = Total(Sizes, R) + SizesOf(F)
      /\ Total(Sizes, R) \in Nat /\ SizesOf(F) \in Nat /\ IsFiniteSet(R)
  BY <1>3, MemorySplits DEF Accounted
<1>6. memUsed' = memUsed - SizesOf(F)
  BY DEF Popped, Freed
<1>7. \A i \in R : Sizes'[i] = Sizes[i] /\ Sizes[i] \in Nat
  <2>1. R \subseteq 1..n
    BY <1>1, <1>2, <1>4 DEF InMemory
  <2>2. \A i \in 1..n : Sizes'[i] = stack'[i].size
    BY <1>2 DEF Sizes
  <2>3. \A i \in 1..n : i \in DOMAIN stack
    BY <1>1
  <2> QED
    BY <1>2, <2>1, <2>2, <2>3, SizesFacts
<1>8. \A i \in R : stack'[i] = stack[i] /\ i \in InMemory
  BY <1>1, <1>2, <1>4 DEF InMemory
<1> HIDE DEF F, R
<1>9. Total(Sizes', R) = Total(Sizes, R)
  BY <1>5, <1>7, TotalSame
<1>10. (Total(Sizes, InMemory))' = Total(Sizes', InMemory')
  OBVIOUS
<1>11. memUsed' = Total(Sizes, R)
  BY <1>5, <1>6
<1>12. \A i \in InMemory' : stack'[i].size = SizeOf[stack'[i].data]
  BY <1>4, <1>8 DEF Accounted
<1>13. BudgetKept'
  BY <1>5, <1>11, CheckpointAssumption DEF Accounted, BudgetKept
<1> QED
  BY <1>4, <1>9, <1>10, <1>11, <1>12, <1>13 DEF Accounted

LEMMA NextAccounts ==
  ASSUME IInv, IInv', Accounted, [Next]_vars
  PROVE  Accounted'
<1>1. StoreTypeOK /\ StoreTypeOK'
  BY DEF IInv
<1>2. CASE UNCHANGED <<stack, memUsed, unevicted>>
  BY <1>2 DEF Accounted, BudgetKept, InMemory, Sizes
<1>3. ASSUME NEW f \in Files, Capture(f)
      PROVE  Accounted'
  BY <1>1, <1>3, LargeAccounted, SmallAccounted DEF Capture
<1>4. CASE Undo
  <2>1. Len(stack) - 1 \in 0..Len(stack)
    BY <1>1, <1>4, StackFacts, EmptySeq DEF Undo, StoreTypeOK
  <2>2. Len(stack) \in 0..Len(stack)
    BY <1>1, StackFacts
  <2>3. Popped(Len(stack) - 1) \/ Popped(Len(stack))
    BY <1>4 DEF Undo, Restore, RestoreStops
  <2>4. unevicted' = unevicted
    BY <1>4 DEF Undo
  <2> QED
    BY <1>1, <2>1, <2>2, <2>3, <2>4, RestoreAccounted
<1>5. ASSUME NEW t \in 0..MaxTurns, RewindToTurn(t)
      PROVE  Accounted'
  <2>1. Cutoff(t) \in 0..Len(stack) /\ Len(stack) \in Nat
    BY CutoffInStack, StackFacts DEF IInv
  <2>2. Cutoff(t) \in Cutoff(t)..Len(stack)
    BY <2>1
  <2>3. PICK n \in Cutoff(t)..Len(stack) : Popped(n)
    BY <1>5, <2>1, <2>2 DEF RewindToTurn, Restore, RestoreStops
  <2>4. n \in 0..Len(stack) /\ unevicted' = unevicted
    BY <1>5, <2>1, <2>3 DEF RewindToTurn
  <2> QED
    BY <1>1, <2>3, <2>4, RestoreAccounted
<1>6. CASE NextTurn \/ NewPrompt \/ UNCHANGED vars
  BY <1>2, <1>6 DEF NextTurn, NewPrompt, vars
<1>7. ASSUME NEW f \in Files, CaptureFails(f) \/ WriteFails(f)
      PROVE  Accounted'
  BY <1>2, <1>7 DEF CaptureFails, WriteFails
<1>8. ASSUME NEW f \in Files, NEW c \in Contents, Write(f, c)
      PROVE  Accounted'
  BY <1>2, <1>8 DEF Write
<1> QED
  BY <1>3, <1>4, <1>5, <1>6, <1>7, <1>8 DEF Next

\* What the storage of the checkpoints does not rest on.
RestTypeOK ==
  /\ turn \in 0..(MaxTurns - 1) /\ edits \in 0..MaxEdits
  /\ manifest \subseteq Nat /\ unevicted \in BOOLEAN

LEMMA NextTypesRest ==
  ASSUME IInv, IInv', RestTypeOK, [Next]_vars
  PROVE  RestTypeOK'
<1>1. SpilledIds(stack') \subseteq Nat
  <2>1. \A i \in DOMAIN stack' : stack'[i].id \in Nat
    <3>1. /\ DOMAIN stack' = 1..Len(stack')
          /\ \A i \in 1..Len(stack') : stack'[i] \in Checkpoints
      BY ElementOfSeq, LenProperties DEF IInv, StoreTypeOK
    <3> QED
      BY <3>1 DEF Checkpoints
  <2> QED
    BY <2>1 DEF SpilledIds
<1>2. /\ MaxTurns \in Nat \ {0} /\ MaxEdits \in Nat
      /\ turn \in Nat /\ edits \in Nat
  BY CheckpointAssumption DEF IInv, StoreTypeOK
<1>3. CASE NextTurn \/ NewPrompt \/ UNCHANGED vars
  <2>1. UNCHANGED <<edits, manifest, unevicted>>
    BY <1>3 DEF NextTurn, NewPrompt, vars
  <2>2. turn' \in 0..(MaxTurns - 1)
    <3>1. turn' = turn \/ turn' = 0 \/ (turn' = turn + 1 /\ turn + 1 < MaxTurns)
      BY <1>3 DEF NextTurn, NewPrompt, vars
    <3>2. turn \in 0..(MaxTurns - 1) /\ 0 \in 0..(MaxTurns - 1)
      BY <1>2 DEF RestTypeOK
    <3>3. CASE turn' = turn + 1 /\ turn + 1 < MaxTurns
      BY <1>2, <3>3
    <3> QED
      BY <3>1, <3>2, <3>3
  <2> QED
    BY <2>1, <2>2 DEF RestTypeOK
<1>4. CASE Undo
  BY <1>4 DEF Undo, RestTypeOK
<1>5. ASSUME NEW t \in 0..MaxTurns, RewindToTurn(t)
      PROVE  RestTypeOK'
  BY <1>1, <1>5 DEF RewindToTurn, WriteManifest, RestTypeOK
<1>6. ASSUME NEW f \in Files, Capture(f)
      PROVE  RestTypeOK'
  <2>1. turn' = turn /\ edits' \in 0..MaxEdits
    BY <1>2, <1>6 DEF Capture, RestTypeOK
  <2>2. CASE CaptureLarge(f)
    BY <1>1, <2>1, <2>2 DEF CaptureLarge, WriteManifest, RestTypeOK
  <2>3. CASE CaptureSmall(f)
    <3>1. PICK I \in SUBSET Evictable :
            /\ IF I = {} THEN UNCHANGED manifest ELSE WriteManifest(stack')
            /\ unevicted' = (unevicted \/ (~Fits(SizeOf[fs[f]], I) /\ I # Evictable))
      BY <2>3 DEF CaptureSmall
    <3> QED
      BY <1>1, <2>1, <3>1 DEF WriteManifest, RestTypeOK
  <2> QED
    BY <1>6, <2>2, <2>3 DEF Capture
<1>7. ASSUME NEW f \in Files, CaptureFails(f) \/ WriteFails(f)
      PROVE  RestTypeOK'
  <2>1. UNCHANGED <<turn, manifest, unevicted>>
    BY <1>7 DEF CaptureFails, WriteFails
  <2>2. edits' = edits \/ (edits' = edits + 1 /\ edits < MaxEdits)
    BY <1>7 DEF CaptureFails, WriteFails
  <2>3. edits' \in 0..MaxEdits
    BY <1>2, <2>2 DEF RestTypeOK
  <2> QED
    BY <2>1, <2>3 DEF RestTypeOK
<1>8. ASSUME NEW f \in Files, NEW c \in Contents, Write(f, c)
      PROVE  RestTypeOK'
  BY <1>8 DEF Write, RestTypeOK
<1> QED
  BY <1>3, <1>4, <1>5, <1>6, <1>7, <1>8 DEF Next

THEOREM AccountHolds == Spec => [](IInv /\ Accounted /\ RestTypeOK)
<1>1. Init => Accounted /\ RestTypeOK
  <2> SUFFICES ASSUME Init PROVE Accounted /\ RestTypeOK
    OBVIOUS
  <2>1. stack = <<>> /\ DOMAIN stack = {} /\ InMemory = {}
    BY DEF Init, InMemory
  <2>2. Total(Sizes, InMemory) = 0
    BY <2>1, TotalEmpty
  <2> QED
    <3>1. /\ memUsed = 0 /\ turn = 0 /\ edits = 0 /\ manifest = {}
          /\ unevicted = FALSE
      BY DEF Init
    <3>2. /\ MaxTurns \in Nat \ {0} /\ MaxEdits \in Nat /\ MemBudget \in Nat
      BY CheckpointAssumption
    <3>3. 0 \in 0..(MaxTurns - 1) /\ 0 \in 0..MaxEdits /\ 0 <= MemBudget
      BY <3>2
    <3>4. RestTypeOK
      BY <3>1, <3>3 DEF RestTypeOK
    <3>5. Accounted
      BY <2>1, <2>2, <3>1, <3>3 DEF Accounted, BudgetKept
    <3> QED
      BY <3>4, <3>5
<1>2. IInv /\ IInv' /\ Accounted /\ RestTypeOK /\ [Next]_vars => Accounted' /\ RestTypeOK'
  BY NextAccounts, NextTypesRest
<1> QED
  BY <1>1, <1>2, IInvHolds, PTL DEF Spec

\* The memory the manager believes it uses is the size of the checkpoints it holds
\* in memory, through every eviction, undo and rewind: nothing leaks from the
\* account, so evictions start when they should.  (Manager.memUsed)
THEOREM MemAlwaysAccounted == Spec => []MemAccounted
<1>1. IInv /\ Accounted => MemAccounted
  <2> SUFFICES ASSUME StoreTypeOK, Accounted PROVE MemAccounted
    BY DEF IInv
  <2> QED
    BY SizesAre, MemoryFacts DEF Accounted, MemAccounted
<1> QED
  BY <1>1, AccountHolds, PTL

\* As long as what is evicted reaches the disk, the checkpoints in memory fit the
\* budget: when nothing is left to evict, what remains records absent files and has
\* no size, and a new checkpoint is below the spill threshold.  (Capture)
THEOREM BudgetAlwaysKept == Spec => []BudgetKept
BY AccountHolds, PTL DEF Accounted

\* Every variable keeps its type; memUsed is never negative, whatever is evicted and
\* restored.
THEOREM TypeCorrect == Spec => []TypeOK
<1>1. IInv /\ Accounted /\ RestTypeOK => TypeOK
  <2> SUFFICES ASSUME IInv, Accounted, RestTypeOK PROVE TypeOK
    OBVIOUS
  <2>1. memUsed \in Nat
    BY MemoryFacts DEF IInv, Accounted
  <2>2. DOMAIN spills \subseteq Nat
    BY DEF IInv, SpillsOld
  <2> QED
    BY <2>1, <2>2 DEF IInv, StoreTypeOK, RestTypeOK, TypeOK
<1> QED
  BY <1>1, AccountHolds, PTL
=============================================================================
