---------------------------- MODULE UndoLog_proofs ----------------------------
(***************************************************************************)
(* Proofs that the undo log of a session has its type and can restore every *)
(* file whose edits it noted.                                              *)
(***************************************************************************)
EXTENDS UndoLog, FiniteSetTheorems, WellFoundedInduction,
        SequenceTheorems, TLAPS

-----------------------------------------------------------------------------
(* Facts about sets of natural numbers.                                    *)

\* A nonempty set of naturals has a least element.
LEMMA LeastNatural ==
  ASSUME NEW S \in SUBSET Nat, S # {}
  PROVE  \E i \in S : \A j \in S : i <= j
<1> DEFINE R == {ss \in Nat \X Nat : ss[1] < ss[2]}
<1>1. IsWellFoundedOn(R, Nat)
  BY NatLessThanWellFounded DEF OpToRel
<1>2. \A i, j \in S : <<j, i>> \notin R => i <= j
  OBVIOUS
<1>3. \E i \in S : \A j \in S : <<j, i>> \notin R
  <2> HIDE DEF R
  <2> QED
    BY <1>1, WFMin
<1> QED
  BY <1>2, <1>3

\* One that has an upper bound has a greatest.
LEMMA GreatestNatural ==
  ASSUME NEW S \in SUBSET Nat, S # {}, NEW n \in Nat, \A i \in S : i <= n
  PROVE  \E i \in S : \A j \in S : j <= i
<1> DEFINE D == {n - i : i \in S}
<1>1. D \in SUBSET Nat /\ D # {}
  <2>1. \A i \in S : i \in Nat /\ i <= n
    OBVIOUS
  <2>2. \A i \in S : n - i \in Nat
    BY <2>1
  <2> QED
    BY <2>2
<1>2. PICK d \in D : \A e \in D : d <= e
  <2> HIDE DEF D
  <2> QED
    BY <1>1, LeastNatural
<1>3. PICK m \in S : d = n - m
  BY <1>2
<1>4. ASSUME NEW i \in S
      PROVE  i <= m
  <2>1. n - i \in D /\ n \in Nat /\ i \in Nat /\ m \in Nat
    BY <1>3
  <2>2. n - m <= n - i
    BY <1>2, <1>3, <2>1
  <2> QED
    BY <2>1, <2>2
<1> QED
  BY <1>4

-----------------------------------------------------------------------------

\* If f was edited after the n-th edit, one of these edits is the first.
LEMMA FirstExists ==
  ASSUME TypeOK, NEW n \in Nat, NEW f, Edited(n, f)
  PROVE  \E i \in (n + 1)..Len(edits) : FirstAfter(n, f, i)
<1> DEFINE S == {i \in (n + 1)..Len(edits) : edits[i].file = f}
<1>1. Len(edits) \in Nat
  BY DEF TypeOK
<1>2. S \in SUBSET Nat /\ S # {}
  BY <1>1 DEF Edited
<1>3. PICK i \in S : \A j \in S : i <= j
  <2> HIDE DEF S
  <2> QED
    BY <1>2, LeastNatural
<1>4. FirstAfter(n, f, i)
  BY <1>1, <1>3 DEF FirstAfter
<1> QED
  BY <1>4 DEF FirstAfter

\* So Before takes its content from that edit.
LEMMA BeforeFirst ==
  ASSUME TypeOK, NEW n \in Nat, NEW f, NEW i, FirstAfter(n, f, i)
  PROVE  Before(n, f) = edits[i].before
<1> DEFINE first == CHOOSE j \in (n + 1)..Len(edits) : FirstAfter(n, f, j)
<1>1. i \in (n + 1)..Len(edits) /\ Len(edits) \in Nat
  BY DEF FirstAfter, TypeOK
<1>2. first \in (n + 1)..Len(edits) /\ FirstAfter(n, f, first)
  BY <1>1
<1>3. first = i
  <2> HIDE DEF first
  <2> QED
    BY <1>1, <1>2 DEF FirstAfter
<1>4. Edited(n, f)
  BY DEF FirstAfter, Edited
<1> QED
  BY <1>3, <1>4 DEF Before

LEMMA BeforeType ==
  ASSUME TypeOK, NEW n \in Nat, NEW f \in Files
  PROVE  Before(n, f) \in Contents
<1>1. CASE Edited(n, f)
  <2>1. PICK i \in (n + 1)..Len(edits) : FirstAfter(n, f, i)
    BY <1>1, FirstExists
  <2>2. Before(n, f) = edits[i].before
    BY <2>1, BeforeFirst
  <2>3. edits[i] \in Edits
    BY ElementOfSeq DEF TypeOK
  <2> QED
    BY <2>2, <2>3 DEF Edits
<1>2. CASE ~Edited(n, f)
  BY <1>2 DEF Before, TypeOK
<1> QED
  BY <1>1, <1>2

-----------------------------------------------------------------------------
\* The variables have their types, in every reachable state.
THEOREM TypeCorrect == Spec => []TypeOK
<1>1. Init => TypeOK
  BY DEF Init, TypeOK, Edits
<1>2. TypeOK /\ [Next]_vars => TypeOK'
  <2> SUFFICES ASSUME TypeOK, [Next]_vars
               PROVE  TypeOK'
    OBVIOUS
  <2>1. ASSUME NEW f \in Files, Note(f)
        PROVE  TypeOK'
    <3>1. [file |-> f, before |-> fs[f]] \in Edits
      BY DEF TypeOK, Edits
    <3>2. Append(edits, [file |-> f, before |-> fs[f]]) \in Seq(Edits)
      BY <3>1, AppendProperties DEF TypeOK
    <3> QED
      BY <2>1, <3>2 DEF Note, TypeOK
  <2>2. ASSUME NEW c \in Contents, Change(c)
        PROVE  TypeOK'
    BY <2>2 DEF Change, TypeOK
  <2>3. ASSUME NEW n \in 0..Len(edits), UndoTo(n)
        PROVE  TypeOK'
    <3>1. \A f \in Files : Before(n, f) \in Contents
      BY BeforeType DEF TypeOK
    <3>2. SubSeq(edits, 1, n) \in Seq(Edits)
      BY SubSeqProperties DEF TypeOK
    <3> QED
      BY <2>3, <3>1, <3>2 DEF UndoTo, TypeOK
  <2>4. ASSUME NEW n \in 1..Len(edits), NEW c \in Contents, UndoStops(n, c)
        PROVE  TypeOK'
    <3>1. n \in Nat /\ Len(edits) \in Nat
      BY DEF TypeOK
    <3>2. \A f \in Files : Before(n, f) \in Contents
      BY <3>1, BeforeType
    <3>3. SubSeq(edits, 1, n) \in Seq(Edits)
      BY SubSeqProperties DEF TypeOK
    <3>4. fs' \in [Files -> Contents]
      BY <2>4, <3>2 DEF UndoStops
    <3> QED
      BY <2>4, <3>3, <3>4 DEF UndoStops, TypeOK
  <2>5. CASE UNCHANGED vars
    BY <2>5 DEF vars, TypeOK
  <2> QED
    BY <2>1, <2>2, <2>3, <2>4, <2>5 DEF Next
<1> QED
  BY <1>1, <1>2, PTL DEF Spec

-----------------------------------------------------------------------------
(* Restorable is inductive together with: a file that is about to be written *)
(* has an entry, or is lost already.  Without it a write could change a file *)
(* that no entry speaks for.                                                 *)

OldestHoldsOriginal ==
  \A f \in Files \ lost : \A i \in DOMAIN edits :
    FirstAfter(0, f, i) => edits[i].before = orig[f]

UneditedIsOriginal ==
  \A f \in Files \ lost : ~Edited(0, f) => fs[f] = orig[f]

PendingNoted == pending # NoFile => pending \in lost \/ Edited(0, pending)

IInv == TypeOK /\ OldestHoldsOriginal /\ UneditedIsOriginal /\ PendingNoted

LEMMA InitIInv == Init => IInv
<1> SUFFICES ASSUME Init PROVE IInv
  OBVIOUS
<1>1. TypeOK
  BY DEF Init, TypeOK, Edits
<1>2. DOMAIN edits = {} /\ Len(edits) = 0
  BY DEF Init
<1>3. \A f : ~Edited(0, f)
  BY <1>2 DEF Edited
<1> QED
  BY <1>1, <1>2, <1>3
     DEF Init, IInv, OldestHoldsOriginal, UneditedIsOriginal, PendingNoted

LEMMA NoteKeeps ==
  ASSUME IInv, TypeOK', NEW f \in Files, Note(f)
  PROVE  IInv'
<1> DEFINE e == [file |-> f, before |-> fs[f]]
<1>1. CASE edits' = Append(edits, e) /\ UNCHANGED lost
  <2>1. /\ Len(edits) \in Nat /\ Len(edits') = Len(edits) + 1
        /\ \A i \in 1..Len(edits) : edits'[i] = edits[i]
        /\ edits'[Len(edits) + 1] = e
        /\ DOMAIN edits = 1..Len(edits) /\ DOMAIN edits' = 1..Len(edits')
    <3>1. e \in Edits
      BY DEF IInv, TypeOK, Edits
    <3> QED
      BY <1>1, <3>1, AppendProperties, LenProperties DEF IInv, TypeOK
  <2>2. \A g : Edited(0, g) => Edited(0, g)'
    BY <2>1 DEF Edited
  <2>3. Edited(0, f)'
    BY <2>1 DEF Edited
  <2>4. OldestHoldsOriginal'
    <3> SUFFICES ASSUME NEW g \in Files \ lost, NEW i \in 1..(Len(edits) + 1),
                        FirstAfter(0, g, i)'
                 PROVE  edits'[i].before = orig[g]
      BY <1>1, <2>1 DEF OldestHoldsOriginal, Note
    <3>1. CASE i \in 1..Len(edits)
      BY <2>1, <3>1 DEF FirstAfter, IInv, OldestHoldsOriginal
    <3>2. CASE i = Len(edits) + 1
      <4>1. g = f /\ edits'[i].before = fs[f]
        BY <2>1, <3>2 DEF FirstAfter
      <4>2. ~Edited(0, g)
        BY <2>1, <3>2 DEF FirstAfter, Edited
      <4> QED
        BY <4>1, <4>2 DEF IInv, UneditedIsOriginal
    <3> QED
      BY <2>1, <3>1, <3>2
  <2>5. UneditedIsOriginal'
    BY <1>1, <2>2 DEF Note, IInv, UneditedIsOriginal
  <2>6. PendingNoted'
    BY <2>3 DEF Note, PendingNoted
  <2> QED
    BY <2>4, <2>5, <2>6 DEF IInv
<1>2. CASE lost' = lost \cup {f} /\ UNCHANGED edits
  BY <1>2 DEF Note, IInv, OldestHoldsOriginal, UneditedIsOriginal, PendingNoted,
              FirstAfter, Edited
<1> QED
  BY <1>1, <1>2 DEF Note

LEMMA ChangeKeeps ==
  ASSUME IInv, TypeOK', NEW c \in Contents, Change(c)
  PROVE  IInv'
<1>1. OldestHoldsOriginal' /\ PendingNoted'
  BY DEF Change, IInv, OldestHoldsOriginal, PendingNoted, FirstAfter
<1>2. UneditedIsOriginal'
  <2> SUFFICES ASSUME NEW f \in Files \ lost, ~Edited(0, f)
               PROVE  fs'[f] = orig[f]
    BY DEF Change, UneditedIsOriginal, Edited
  <2>1. f # pending
    BY DEF Change, IInv, PendingNoted
  <2> QED
    BY <2>1 DEF Change, IInv, TypeOK, UneditedIsOriginal
<1> QED
  BY <1>1, <1>2 DEF IInv

\* An undo, also one that stops: what it leaves unlike it was has an entry.
LEMMA UndoKeeps ==
  ASSUME IInv, TypeOK', NEW n \in 0..Len(edits), pending = NoFile,
         edits' = SubSeq(edits, 1, n), UNCHANGED <<pending, orig, lost>>,
         \A f \in Files : ~Edited(0, f)' => fs'[f] = Before(n, f)
  PROVE  IInv'
<1>1. /\ Len(edits) \in Nat /\ Len(edits') = n
      /\ DOMAIN edits = 1..Len(edits) /\ DOMAIN edits' = 1..n
      /\ \A i \in 1..n : edits'[i] = edits[i]
  BY SubSeqProperties, LenProperties DEF IInv, TypeOK
<1>2. OldestHoldsOriginal'
  BY <1>1 DEF IInv, OldestHoldsOriginal, FirstAfter
<1>3. UneditedIsOriginal'
  <2> SUFFICES ASSUME NEW f \in Files \ lost, ~Edited(0, f)'
               PROVE  Before(n, f) = orig[f]
    BY DEF UneditedIsOriginal
  <2>1. \A i \in 1..n : edits[i].file # f
    BY <1>1 DEF Edited
  <2>2. CASE Edited(n, f)
    <3>1. PICK i \in (n + 1)..Len(edits) : FirstAfter(n, f, i)
      BY <2>2, FirstExists DEF IInv
    <3>2. FirstAfter(0, f, i)
      BY <1>1, <2>1, <3>1 DEF FirstAfter
    <3>3. Before(n, f) = edits[i].before
      <4>1. TypeOK /\ n \in Nat /\ f \in Files
        BY DEF IInv
      <4>2. i \in (n + 1)..Len(edits) /\ FirstAfter(n, f, i)
        BY <3>1
      <4> QED
        BY ONLY <4>1, <4>2, BeforeFirst
    <3>4. i \in DOMAIN edits
      BY <1>1, <3>1
    <3> QED
      BY <3>2, <3>3, <3>4 DEF IInv, OldestHoldsOriginal
  <2>3. CASE ~Edited(n, f)
    <3>1. ~Edited(0, f)
      BY <1>1, <2>1, <2>3 DEF Edited
    <3> QED
      BY <2>3, <3>1 DEF Before, IInv, UneditedIsOriginal
  <2> QED
    BY <2>2, <2>3
<1>4. PendingNoted'
  BY DEF PendingNoted
<1> QED
  BY <1>2, <1>3, <1>4 DEF IInv

LEMMA NextIInv == IInv /\ TypeOK' /\ [Next]_vars => IInv'
<1> SUFFICES ASSUME IInv, TypeOK', [Next]_vars
             PROVE  IInv'
  OBVIOUS
<1>1. CASE \E f \in Files : Note(f)
  BY <1>1, NoteKeeps
<1>2. CASE \E c \in Contents : Change(c)
  BY <1>2, ChangeKeeps
<1>3. ASSUME NEW n \in 0..Len(edits), UndoTo(n)
      PROVE  IInv'
  BY <1>3, UndoKeeps DEF UndoTo
<1>4. ASSUME NEW n \in 1..Len(edits), NEW c \in Contents, UndoStops(n, c)
      PROVE  IInv'
  <2>1. /\ n \in Nat /\ Len(edits) \in Nat /\ Len(edits') = n
        /\ edits' = SubSeq(edits, 1, n) /\ edits'[n] = edits[n]
    BY <1>4, SubSeqProperties, LenProperties DEF UndoStops, IInv, TypeOK
  <2>2. Edited(0, edits[n].file)'
    BY <2>1 DEF Edited
  <2>3. \A f \in Files : f # edits[n].file => fs'[f] = Before(n, f)
    BY <1>4 DEF UndoStops
  <2> QED
    BY <1>4, <2>1, <2>2, <2>3, UndoKeeps DEF UndoStops
<1>5. CASE UNCHANGED vars
  BY <1>5 DEF vars, IInv, TypeOK, OldestHoldsOriginal, UneditedIsOriginal,
              PendingNoted, FirstAfter, Edited
<1> QED
  BY <1>1, <1>2, <1>3, <1>4, <1>5 DEF Next

LEMMA IInvRestores == IInv => Restorable
<1> SUFFICES ASSUME IInv, NEW f \in Files \ lost
             PROVE  Before(0, f) = orig[f]
  BY DEF Restorable
<1>1. CASE Edited(0, f)
  <2>1. PICK i \in 1..Len(edits) : FirstAfter(0, f, i)
    BY <1>1, FirstExists DEF IInv
  <2>2. i \in DOMAIN edits
    BY LenProperties DEF IInv, TypeOK
  <2>3. Before(0, f) = edits[i].before
    BY <2>1, BeforeFirst DEF IInv
  <2> QED
    BY <2>1, <2>2, <2>3 DEF IInv, OldestHoldsOriginal
<1>2. CASE ~Edited(0, f)
  BY <1>2 DEF Before, IInv, UneditedIsOriginal
<1> QED
  BY <1>1, <1>2

\* Whatever is edited, noted, changed and undone, every file none of whose
\* edits went unnoted can be brought back to what it was when the session
\* began.  (Manager.Capture, Undo, RewindToTurn seen without their storage)
THEOREM AlwaysRestorable == Spec => []Restorable
<1>1. Spec => []TypeOK
  BY TypeCorrect
<1>2. Spec => []IInv
  BY <1>1, InitIInv, NextIInv, PTL DEF Spec
<1> QED
  BY <1>2, IInvRestores, PTL
=============================================================================
