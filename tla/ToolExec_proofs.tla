--------------------------- MODULE ToolExec_proofs ---------------------------
(***************************************************************************)
(* Proofs about ToolExec, for any number of calls of any kinds.            *)
(*                                                                         *)
(* The invariant says, phase by phase, which calls have a goroutine: the   *)
(* streamed ones while the reply streams, those of one safe batch, a       *)
(* single call, or none.  Together with the barrier (no call is streamed   *)
(* behind an unsafe one) that gives exclusion and order.                   *)
(***************************************************************************)
EXTENDS ToolExec, FiniteSetTheorems, TLAPS

States  == {"none", "new", "queued", "running", "done"}
Results == {"none", "ok", "error", "aborted", "cancelled", "denied"}
Started == {"new", "queued", "running"}
Waited  == {"planned", "batch", "together", "one", "over"}

\* What the stream leaves behind.
StreamInv ==
  /\ \A c \in streamed : Eligible(c) /\ c <= offered
  /\ \A c \in Calls : c <= offered /\ ~Safe(c) => barrier
  /\ phase \in {"stream", "drain", "discard"} =>
       \A c \in Calls : task[c] # "none" <=> c \in streamed

\* Which calls are live in each phase.
LiveInv ==
  /\ phase \in {"planned", "batch", "over", "discarded"} =>
       \A c \in Calls : task[c] \in {"none", "done"}
  /\ phase = "together" =>
       \A c \in Calls : task[c] \in Started => c \in together
  /\ \A c \in together : Safe(c)
  /\ phase # "together" => together = {}
  /\ phase = "one" =>
       \A c, d \in Calls : task[c] \in Started /\ task[d] \in Started => c = d

\* What has been answered once the streamed calls were waited for, and that
\* a refused call never has a goroutine.
AnsweredInv ==
  /\ \A c \in Calls : task[c] # "none" => kind[c].verdict # "deny"
  /\ phase \in Waited =>
       /\ \A c \in streamed : task[c] = "done"
       /\ \A c \in Denied : result[c] = "denied"

ExecInv ==
  /\ TypeOK /\ StreamInv /\ LiveInv /\ AnsweredInv
  /\ UnsafeKeepsOrder /\ ResultsKept

-----------------------------------------------------------------------------
LEMMA CallsAreNumbers == /\ NumCalls \in Nat /\ MaxParallel \in Nat \ {0}
                         /\ Kinds \subseteq Kind /\ IsFiniteSet(Calls)
                         /\ \A c \in Calls : c \in 1..NumCalls
<1>1. NumCalls \in Nat /\ MaxParallel \in Nat \ {0} /\ Kinds \subseteq Kind
  BY ExecAssumption
<1>2. IsFiniteSet(Calls)
  BY <1>1, FS_Interval DEF Calls
<1>3. \A c \in Calls : c \in 1..NumCalls
  BY DEF Calls
<1> QED
  BY <1>1, <1>2, <1>3

LEMMA InitInv == Init => ExecInv
<1> SUFFICES ASSUME Init PROVE ExecInv
  OBVIOUS
<1> USE DEF Init
<1>1. \A c \in Calls : task[c] = "none" /\ result[c] = "none"
  OBVIOUS
<1>2. TypeOK
  <2>1. offered \in 0..NumCalls
    BY CallsAreNumbers
  <2>2. task \in [Calls -> States] /\ result \in [Calls -> Results]
    BY DEF States, Results
  <2> QED
    BY <1>1, <2>1, <2>2 DEF TypeOK, Phases, States, Results
<1>3. StreamInv
  BY <1>1, CallsAreNumbers DEF StreamInv
<1>4. LiveInv /\ AnsweredInv /\ UnsafeKeepsOrder /\ ResultsKept
  BY <1>1 DEF LiveInv, Started, AnsweredInv, Waited, UnsafeKeepsOrder, ResultsKept
<1> QED
  BY <1>2, <1>3, <1>4 DEF ExecInv

-----------------------------------------------------------------------------
(* Setting the state of one call, and its result, keeps the types.         *)
LEMMA BecomesType ==
  ASSUME NEW c \in Calls, NEW s \in States, TypeOK, Becomes(c, s)
  PROVE  /\ task' \in [Calls -> States] /\ task'[c] = s
         /\ \A d \in Calls : d # c => task'[d] = task[d]
BY DEF TypeOK, Becomes, States

LEMMA YieldsType ==
  ASSUME NEW c \in Calls, NEW r \in Results, TypeOK, Yields(c, r)
  PROVE  /\ task' \in [Calls -> States] /\ task'[c] = "done"
         /\ \A d \in Calls : d # c => task'[d] = task[d]
         /\ result' \in [Calls -> Results] /\ result'[c] = r
         /\ \A d \in Calls : d # c => result'[d] = result[d]
BY BecomesType DEF TypeOK, Yields, Results, States

(* A call that the stream completes: dispatched, or left for later.        *)
LEMMA OfferInv == ASSUME NEW c \in Calls, ExecInv, Offer(c) PROVE ExecInv'
<1> USE DEF ExecInv
<1>1. /\ phase = "stream" /\ phase' = phase /\ kind' = kind /\ together' = together
      /\ aborted' = aborted /\ cancelled' = cancelled
      /\ offered' = c /\ c = offered + 1
  BY DEF Offer
<1>2. offered \in 0..NumCalls /\ c \in 1..NumCalls /\ NumCalls \in Nat
  BY CallsAreNumbers DEF TypeOK
<1>3. barrier' \in BOOLEAN
  BY DEF Offer
<1>4. /\ barrier => barrier'
      /\ ~Safe(c) => barrier'
  BY DEF Offer
<1>5. \/ /\ Eligible(c) /\ ~barrier /\ streamed' = streamed \cup {c}
         /\ \/ Yields(c, "cancelled")
            \/ Becomes(c, "queued") /\ result' = result
      \/ streamed' = streamed /\ task' = task /\ result' = result
  BY DEF Offer
<1>6. c \notin streamed /\ task[c] = "none"
  <2>1. c \notin streamed
    BY <1>1, <1>2 DEF StreamInv
  <2> QED
    BY <2>1, <1>1 DEF StreamInv
<1>7. /\ task' \in [Calls -> States] /\ result' \in [Calls -> Results]
      /\ \A d \in Calls : d # c => task'[d] = task[d] /\ result'[d] = result[d]
      /\ task'[c] = "done" => result'[c] # "none"
      /\ streamed' = IF task'[c] = "none" THEN streamed ELSE streamed \cup {c}
      /\ task'[c] # "none" => Eligible(c) /\ ~barrier
  <2>1. CASE Yields(c, "cancelled") /\ streamed' = streamed \cup {c} /\ Eligible(c) /\ ~barrier
    BY <2>1, YieldsType DEF Results
  <2>2. CASE Becomes(c, "queued") /\ result' = result /\ streamed' = streamed \cup {c} /\ Eligible(c) /\ ~barrier
    <3>1. "queued" \in States /\ TypeOK
      BY DEF States
    <3>2. task' \in [Calls -> States] /\ task'[c] = "queued" /\ \A d \in Calls : d # c => task'[d] = task[d]
      BY <2>2, <3>1, BecomesType
    <3> QED
      BY <2>2, <3>2 DEF TypeOK, Results
  <2>3. CASE streamed' = streamed /\ task' = task /\ result' = result
    BY <2>3, <1>6 DEF TypeOK, States, Results
  <2> QED
    BY <1>5, <2>1, <2>2, <2>3
<1>8. TypeOK'
  <2>1. offered' \in 0..NumCalls /\ streamed' \subseteq Calls
    BY <1>1, <1>2, <1>7 DEF TypeOK
  <2>2. \A d \in Calls : task'[d] = "done" => result'[d] # "none"
    BY <1>7 DEF TypeOK
  <2> QED
    BY <1>1, <1>3, <1>7, <2>1, <2>2 DEF TypeOK, States, Results
<1>9. StreamInv'
  <2>1. \A d \in Calls : Safe(d)' <=> Safe(d)
    BY <1>1 DEF Safe
  <2>2. \A d \in Calls : Eligible(d)' <=> Eligible(d)
    BY <1>1 DEF Safe, Eligible, Approved
  <2>3. \A d \in streamed' : Eligible(d)' /\ d <= offered'
    <3> TAKE d \in streamed'
    <3>1. CASE d = c
      BY <3>1, <2>2, <1>1, <1>2, <1>6, <1>7
    <3>2. CASE d # c
      <4>1. d \in streamed /\ d \in Calls /\ Eligible(d) /\ d <= offered
        BY <3>2, <1>7 DEF TypeOK, StreamInv
      <4>2. d \in Nat
        BY <4>1, CallsAreNumbers
      <4> QED
        BY <4>1, <4>2, <2>2, <1>1, <1>2
    <3> QED
      BY <3>1, <3>2
  <2>4. \A d \in Calls : d <= offered' /\ ~Safe(d)' => barrier'
    <3> SUFFICES ASSUME NEW d \in Calls, d <= offered', ~Safe(d) PROVE barrier'
      BY <2>1
    <3>1. CASE d = c
      BY <3>1, <1>4
    <3>2. CASE d # c
      <4>1. d <= offered
        BY <3>2, <1>1, <1>2, CallsAreNumbers
      <4> QED
        BY <4>1, <1>4 DEF StreamInv
    <3> QED
      BY <3>1, <3>2
  <2>5. \A d \in Calls : task'[d] # "none" <=> d \in streamed'
    BY <1>1, <1>6, <1>7 DEF StreamInv
  <2> QED
    BY <2>3, <2>4, <2>5 DEF StreamInv
<1>10. LiveInv'
  BY <1>1 DEF LiveInv, Safe
<1>11. AnsweredInv'
  <2>1. \A d \in Calls : task'[d] # "none" => kind[d].verdict # "deny"
    BY <1>7 DEF AnsweredInv, Eligible, Approved
  <2> QED
    BY <1>1, <2>1 DEF AnsweredInv, Waited
<1>12. UnsafeKeepsOrder'
  <2> SUFFICES ASSUME NEW b \in Calls, NEW d \in Calls, b < d,
                      InTheLine(b)', InTheLine(d)', ~(Safe(b) /\ Safe(d))', task'[d] # "none"
               PROVE  task'[b] = "done"
    BY DEF UnsafeKeepsOrder
  <2>1. InTheLine(b) /\ InTheLine(d) /\ ~(Safe(b) /\ Safe(d))
    BY <1>1 DEF InTheLine, Safe, Approved
  <2>2. d \in streamed' /\ d <= offered' /\ Eligible(d)
    BY <1>1, <1>9 DEF StreamInv, Eligible, Safe, Approved
  <2>3. b # c /\ b <= offered
    BY <2>2, <1>1, <1>2, CallsAreNumbers
  <2>4. barrier
    BY <2>1, <2>2, <2>3 DEF StreamInv, Eligible
  <2>5. d # c
    BY <2>4, <1>7
  <2> QED
    BY <2>1, <2>3, <2>5, <1>7 DEF UnsafeKeepsOrder
<1>13. ResultsKept'
  BY <1>1 DEF ResultsKept
<1> QED
  BY <1>8, <1>9, <1>10, <1>11, <1>12, <1>13

-----------------------------------------------------------------------------
(* What every step of a goroutine does: its own call gets further, and in  *)
(* the phase of a single call that call's end brings the turn back.        *)
Progress(c) ==
  /\ task[c] \in Started
  /\ task' \in [Calls -> States] /\ result' \in [Calls -> Results]
  /\ \A d \in Calls : d # c => task'[d] = task[d] /\ result'[d] = result[d]
  /\ \/ task'[c] \in {"queued", "running"} /\ phase' = phase
     \/ /\ task'[c] = "done" /\ result'[c] # "none"
        /\ phase' = phase \/ (phase = "one" /\ phase' = "batch")
  /\ aborted' \in BOOLEAN
  /\ UNCHANGED <<kind, offered, barrier, streamed, together, cancelled>>

LEMMA StepIsProgress ==
  ASSUME NEW c \in Calls, TypeOK, TaskStep(c) PROVE Progress(c)
<1>1. ASSUME NEW r \in Results \ {"none"}, task[c] \in Started, Yields(c, r),
             phase' = phase \/ (phase = "one" /\ phase' = "batch"),
             aborted' \in BOOLEAN,
             UNCHANGED <<kind, offered, barrier, streamed, together, cancelled>>
      PROVE  Progress(c)
  BY <1>1, YieldsType DEF Progress
<1>2. ASSUME NEW s \in {"queued", "running"}, task[c] \in Started, Becomes(c, s),
             UNCHANGED <<kind, phase, offered, barrier, streamed, together, aborted,
                         cancelled, result>>
      PROVE  Progress(c)
  <2>1. s \in States
    BY DEF States
  <2>2. task' \in [Calls -> States] /\ task'[c] = s /\ \A d \in Calls : d # c => task'[d] = task[d]
    BY <1>2, <2>1, BecomesType
  <2> QED
    BY <1>2, <2>2 DEF Progress, TypeOK, Results
<1>3. aborted \in BOOLEAN
  BY DEF TypeOK
<1>4. CASE StreamGivesUp(c)
  BY <1>1, <1>3, <1>4 DEF StreamGivesUp, Started, Results
<1>5. CASE BatchGivesUp(c)
  BY <1>1, <1>3, <1>5 DEF BatchGivesUp, Started, Results
<1>6. CASE Looks(c)
  <2>1. CASE aborted \/ cancelled
    BY <1>1, <1>3, <1>6, <2>1 DEF Looks, Started, Results
  <2>2. CASE ~(aborted \/ cancelled)
    BY <1>2, <1>6, <2>2 DEF Looks, Started
  <2> QED
    BY <2>1, <2>2
<1>7. CASE Acquire(c)
  BY <1>2, <1>7 DEF Acquire, Started
<1>8. ASSUME NEW r \in {"ok", "error"}, Finish(c, r)
      PROVE  Progress(c)
  <2>1. aborted' \in BOOLEAN
    BY <1>8 DEF Finish
  <2> QED
    BY <1>1, <1>8, <2>1 DEF Finish, Beside, Started, Results
<1>9. ASSUME NEW r \in {"ok", "error"}, FinishAlone(c, r)
      PROVE  Progress(c)
  BY <1>1, <1>3, <1>9 DEF FinishAlone, Started, Results
<1> QED
  BY <1>4, <1>5, <1>6, <1>7, <1>8, <1>9 DEF TaskStep

LEMMA ProgressInv == ASSUME NEW c \in Calls, ExecInv, Progress(c) PROVE ExecInv'
<1> USE DEF ExecInv
<1>1. /\ kind' = kind /\ offered' = offered /\ barrier' = barrier
      /\ streamed' = streamed /\ together' = together /\ cancelled' = cancelled
      /\ phase' = phase \/ (phase = "one" /\ phase' = "batch" /\ task'[c] = "done")
  BY DEF Progress
<1>2. /\ task[c] \in Started /\ task'[c] \in {"queued", "running", "done"}
      /\ \A d \in Calls : d # c => task'[d] = task[d] /\ result'[d] = result[d]
  BY DEF Progress
<1>3. \A d \in Calls : task'[d] # "none" <=> task[d] # "none"
  BY <1>2 DEF Started
<1>4. TypeOK'
  <2>1. \A d \in Calls : task'[d] = "done" => result'[d] # "none"
    BY DEF Progress, TypeOK
  <2>2. phase' \in Phases /\ aborted' \in BOOLEAN
    BY <1>1 DEF TypeOK, Progress, Phases
  <2> QED
    BY <1>1, <2>1, <2>2 DEF TypeOK, Progress, States, Results
<1>5. StreamInv'
  BY <1>1, <1>3 DEF StreamInv, Eligible, Safe, Approved
<1>6. LiveInv'
  <2>1. phase \notin {"planned", "batch", "over", "discarded"}
    BY <1>2 DEF LiveInv, Started
  <2>2. \A d \in Calls : task'[d] \in Started => task[d] \in Started
    BY <1>2
  <2>3. phase' \in {"planned", "batch", "over", "discarded"} =>
          \A d \in Calls : task'[d] \in {"none", "done"}
    <3> SUFFICES ASSUME phase' \in {"planned", "batch", "over", "discarded"}, NEW d \in Calls
                 PROVE  task'[d] \in {"none", "done"}
      OBVIOUS
    <3>1. phase = "one" /\ task'[c] = "done"
      BY <1>1, <2>1
    <3>2. CASE d = c
      BY <3>1, <3>2
    <3>3. CASE d # c
      <4>1. task[d] \notin Started
        BY <3>1, <3>3, <1>2 DEF LiveInv
      <4> QED
        BY <3>3, <4>1, <1>2 DEF TypeOK, Started
    <3> QED
      BY <3>2, <3>3
  <2>4. phase' \in {"together", "one"} => phase' = phase
    BY <1>1
  <2> QED
    BY <1>1, <2>2, <2>3, <2>4 DEF LiveInv, Safe
<1>7. AnsweredInv'
  <2>1. kind[c].verdict # "deny"
    BY <1>2 DEF AnsweredInv, Started
  <2>2. phase \in Waited <=> phase' \in Waited
    BY <1>1 DEF Waited
  <2>3. phase \in Waited => c \notin streamed
    BY <1>2 DEF AnsweredInv, Started
  <2>4. \A d \in Denied' : d \in Denied /\ d # c /\ d \in Calls
    BY <1>1, <2>1 DEF Denied
  <2>5. phase \in Waited => \A d \in streamed : task'[d] = "done"
    BY <1>2, <2>3 DEF AnsweredInv, TypeOK
  <2>6. phase \in Waited => \A d \in Denied' : result'[d] = "denied"
    BY <1>2, <2>4 DEF AnsweredInv
  <2> QED
    BY <1>1, <1>3, <2>2, <2>5, <2>6 DEF AnsweredInv
<1>8. UnsafeKeepsOrder'
  <2> SUFFICES ASSUME NEW b \in Calls, NEW d \in Calls, b < d,
                      InTheLine(b)', InTheLine(d)', ~(Safe(b) /\ Safe(d))', task'[d] # "none"
               PROVE  task'[b] = "done"
    BY DEF UnsafeKeepsOrder
  <2>1. InTheLine(b) /\ InTheLine(d) /\ ~(Safe(b) /\ Safe(d)) /\ task[d] # "none"
    BY <1>1, <1>3 DEF InTheLine, Safe, Approved
  <2>2. task[b] = "done"
    BY <2>1 DEF UnsafeKeepsOrder
  <2> QED
    BY <2>2, <1>2 DEF Started
<1>9. ResultsKept'
  <2>1. phase' # "over"
    BY <1>1, <1>2 DEF LiveInv, Started
  <2> QED
    BY <2>1 DEF ResultsKept
<1> QED
  BY <1>4, <1>5, <1>6, <1>7, <1>8, <1>9

-----------------------------------------------------------------------------
(* The steps that only move the turn on.                                   *)
LEMMA StreamEndsInv == ASSUME ExecInv, StreamEnds PROVE ExecInv'
<1> USE DEF ExecInv
<1>1. /\ phase = "stream" /\ phase' \in {"drain", "discard"}
      /\ UNCHANGED <<kind, offered, barrier, streamed, task, together, aborted,
                     cancelled, result>>
  BY DEF StreamEnds
<1>2. TypeOK'
  BY <1>1 DEF TypeOK, Phases
<1>3. StreamInv'
  BY <1>1 DEF StreamInv, Eligible, Safe, Approved
<1>4. LiveInv' /\ AnsweredInv' /\ UnsafeKeepsOrder' /\ ResultsKept'
  BY <1>1 DEF LiveInv, AnsweredInv, Waited, UnsafeKeepsOrder, ResultsKept, InTheLine,
              Safe, Approved
<1> QED
  BY <1>2, <1>3, <1>4

LEMMA DrainInv == ASSUME ExecInv, Drain PROVE ExecInv'
<1> USE DEF ExecInv
<1>1. /\ phase \in {"drain", "discard"} /\ phase' \in {"planned", "discarded"}
      /\ phase' = "planned" => phase = "drain"
      /\ aborted' = FALSE
      /\ UNCHANGED <<kind, offered, barrier, streamed, task, together, cancelled>>
  BY DEF Drain
<1>2. \A c \in Calls : task[c] \in {"none", "done"}
  BY DEF Drain, Live, TypeOK
<1>3. /\ result' \in [Calls -> Results]
      /\ \A c \in Calls : result[c] # "none" => result'[c] # "none"
      /\ phase' = "planned" => \A c \in Denied : result'[c] = "denied"
  <2>1. Denied \subseteq Calls
    BY DEF Denied
  <2>2. \A c \in Calls : result'[c] \in {"denied", result[c]}
    BY DEF Drain
  <2>3. result' \in [Calls -> Results]
    BY <2>2 DEF TypeOK, Drain, Results
  <2>4. phase' = "planned" => \A c \in Denied : result'[c] = "denied"
    BY <1>1, <2>1 DEF Drain
  <2> QED
    BY <2>2, <2>3, <2>4
<1>4. TypeOK'
  BY <1>1, <1>3 DEF TypeOK, Phases, Results
<1>5. StreamInv'
  BY <1>1 DEF StreamInv, Eligible, Safe, Approved
<1>6. LiveInv'
  BY <1>1, <1>2 DEF LiveInv, Safe
<1>7. AnsweredInv'
  <2>1. \A c \in streamed : task[c] = "done"
    BY <1>1, <1>2 DEF StreamInv, TypeOK
  <2>2. phase' \in Waited => phase' = "planned"
    BY <1>1 DEF Waited
  <2>3. Denied' = Denied
    BY <1>1 DEF Denied
  <2> QED
    BY <1>1, <1>3, <2>1, <2>2, <2>3 DEF AnsweredInv
<1>8. UnsafeKeepsOrder' /\ ResultsKept'
  BY <1>1 DEF UnsafeKeepsOrder, ResultsKept, InTheLine, Safe, Approved
<1> QED
  BY <1>4, <1>5, <1>6, <1>7, <1>8

(* Between the phases that come after the stream, with no goroutine left.  *)
LEMMA MoveOnInv ==
  ASSUME ExecInv, \A c \in Calls : task[c] \in {"none", "done"},
         phase \in Waited, phase' \in {"batch", "over"},
         together' = {},
         phase' = "over" => ResultsKept',
         UNCHANGED <<kind, offered, barrier, streamed, task, aborted, cancelled, result>>
  PROVE  ExecInv'
<1> USE DEF ExecInv
<1>1. TypeOK'
  BY DEF TypeOK, Phases
<1>2. StreamInv'
  BY DEF StreamInv, Eligible, Safe, Approved
<1>3. LiveInv' /\ AnsweredInv'
  BY DEF LiveInv, AnsweredInv, Denied, Waited
<1>4. UnsafeKeepsOrder' /\ ResultsKept'
  BY DEF UnsafeKeepsOrder, ResultsKept, InTheLine, Safe, Approved
<1> QED
  BY <1>1, <1>2, <1>3, <1>4

\* When every approved call has been through, only the answers are missing.
LEMMA AllAnswered ==
  ASSUME ExecInv, phase = "batch", Rest = {}, (Solo \cup Asking) \cap ToRun = {},
         NEW c \in Calls
  PROVE  result[c] # "none"
<1> USE DEF ExecInv
<1>1. task[c] # "none" => result[c] # "none"
  BY DEF LiveInv, TypeOK
<1>2. c \in streamed => result[c] # "none"
  BY <1>1 DEF AnsweredInv, Waited
<1>3. kind[c].verdict \in {"auto", "deny", "ask"}
  <2>1. kind[c] \in Kind
    BY CallsAreNumbers DEF TypeOK
  <2> QED
    BY <2>1 DEF Kind
<1>4. CASE c \notin streamed /\ kind[c].verdict = "deny"
  BY <1>4 DEF AnsweredInv, Waited, Denied
<1>5. CASE c \notin streamed /\ kind[c].verdict = "ask"
  BY <1>1, <1>5 DEF Asking, ToRun
<1>6. CASE c \notin streamed /\ kind[c].verdict = "auto"
  BY <1>1, <1>6 DEF Rest, Batched, Solo, Approved, ToRun
<1> QED
  BY <1>2, <1>3, <1>4, <1>5, <1>6

LEMMA PlanInv == ASSUME ExecInv, Plan PROVE ExecInv'
<1>1. phase = "planned" /\ phase' \in {"batch", "over"} /\ (phase' = "over" => cancelled)
      /\ UNCHANGED <<kind, offered, barrier, streamed, task, together, aborted,
                     cancelled, result>>
  BY DEF Plan
<1>2. \A c \in Calls : task[c] \in {"none", "done"}
  BY <1>1 DEF ExecInv, LiveInv
<1>3. ResultsKept'
  BY <1>1, <1>2 DEF ExecInv, TypeOK, ResultsKept
<1>4. together = {}
  BY <1>1 DEF ExecInv, LiveInv
<1> QED
  BY <1>1, <1>2, <1>3, <1>4, MoveOnInv DEF Waited

LEMMA EndBatchInv == ASSUME ExecInv, EndBatch PROVE ExecInv'
<1>1. phase = "together" /\ phase' = "batch" /\ together' = {}
      /\ UNCHANGED <<kind, offered, barrier, streamed, task, aborted, cancelled, result>>
  BY DEF EndBatch
<1>2. \A c \in Calls : task[c] \in {"none", "done"}
  BY DEF EndBatch, Live, ExecInv, TypeOK
<1> QED
  BY <1>1, <1>2, MoveOnInv DEF Waited

LEMMA CommitInv == ASSUME ExecInv, Commit PROVE ExecInv'
<1>1. phase = "batch" /\ phase' = "over" /\ Rest = {}
      /\ ((Solo \cup Asking) \cap ToRun = {} \/ cancelled)
      /\ UNCHANGED <<kind, offered, barrier, streamed, task, together, aborted,
                     cancelled, result>>
  BY DEF Commit
<1>2. \A c \in Calls : task[c] \in {"none", "done"}
  BY <1>1 DEF ExecInv, LiveInv
<1>3. ResultsKept'
  BY <1>1, <1>2, AllAnswered DEF ExecInv, TypeOK, ResultsKept
<1>4. together = {}
  BY <1>1 DEF ExecInv, LiveInv
<1> QED
  BY <1>1, <1>2, <1>3, <1>4, MoveOnInv DEF Waited

LEMMA CancelInv == ASSUME ExecInv, Cancel PROVE ExecInv'
<1>1. phase # "over" /\ cancelled' = TRUE
      /\ UNCHANGED <<kind, phase, offered, barrier, streamed, task, together, aborted, result>>
  BY DEF Cancel
<1>2. TypeOK' /\ ResultsKept'
  BY <1>1 DEF ExecInv, TypeOK, ResultsKept
<1>3. StreamInv' /\ LiveInv' /\ AnsweredInv' /\ UnsafeKeepsOrder'
  BY <1>1 DEF ExecInv, StreamInv, LiveInv, AnsweredInv, UnsafeKeepsOrder, InTheLine,
              Eligible, Safe, Approved, Denied
<1> QED
  BY <1>2, <1>3 DEF ExecInv

-----------------------------------------------------------------------------
(* The steps that begin calls: the first of the rest, with its safe        *)
(* neighbours or alone, or one that no batch takes.                        *)
LEMMA BeginOrder ==
  ASSUME ExecInv, kind' = kind, NEW S \in SUBSET Calls,
         \A c \in S : task[c] = "none",
         \A c \in Calls \ S : task'[c] = task[c],
         \A d \in S, b \in Calls :
           b < d /\ InTheLine(b) /\ InTheLine(d) /\ ~(Safe(b) /\ Safe(d)) => task[b] = "done"
  PROVE  UnsafeKeepsOrder'
<1> SUFFICES ASSUME NEW b \in Calls, NEW d \in Calls, b < d,
                    InTheLine(b)', InTheLine(d)', ~(Safe(b) /\ Safe(d))', task'[d] # "none"
             PROVE  task'[b] = "done"
  BY DEF UnsafeKeepsOrder
<1>1. InTheLine(b) /\ InTheLine(d) /\ ~(Safe(b) /\ Safe(d))
  BY DEF InTheLine, Safe, Approved
<1>2. task[b] = "done"
  <2>1. CASE d \in S
    BY <1>1, <2>1
  <2>2. CASE d \notin S
    BY <1>1, <2>2 DEF ExecInv, UnsafeKeepsOrder
  <2> QED
    BY <2>1, <2>2
<1> QED
  BY <1>2

\* Of two calls the batch executor takes in turn, the first one is not a
\* streamed call: those before the first of the rest are done.
LEMMA EarlierDone ==
  ASSUME ExecInv, phase = "batch", NEW c \in Calls, IsFirst(c, Rest),
         NEW b \in Calls, b < c, InTheLine(b)
  PROVE  task[b] = "done"
<1>1. b \notin Rest
  BY CallsAreNumbers DEF IsFirst
<1>2. CASE b \in streamed
  BY <1>2 DEF ExecInv, AnsweredInv, Waited
<1>3. CASE b \notin streamed
  BY <1>1, <1>3 DEF Rest, Batched, InTheLine, ExecInv, LiveInv
<1> QED
  BY <1>2, <1>3

LEMMA StartBatchInv == ASSUME NEW c \in Calls, ExecInv, StartBatch(c) PROVE ExecInv'
<1> DEFINE S == SafePrefix(Rest)
<1>1. /\ phase = "batch" /\ IsFirst(c, Rest) /\ Safe(c)
      /\ phase' = "together" /\ together' = S /\ aborted' = FALSE
      /\ task' = [d \in Calls |-> IF d \in S THEN "new" ELSE task[d]]
      /\ UNCHANGED <<kind, offered, barrier, streamed, cancelled, result>>
  BY DEF StartBatch
<1>2. \A d \in S : /\ d \in Calls /\ d \in Rest /\ d \in Batched /\ task[d] = "none"
                   /\ d \notin streamed /\ Approved(d)
  BY DEF SafePrefix, Rest, Batched
<1>3. \A d \in S : Safe(d) /\ \A e \in Rest : e <= d => Safe(e)
  BY <1>2, CallsAreNumbers DEF SafePrefix
<1> HIDE DEF S
<1>4. \A d \in Calls : task'[d] = IF d \in S THEN "new" ELSE task[d]
  BY <1>1
<1>5. \A d \in Calls : task[d] \in {"none", "done"}
  BY <1>1 DEF ExecInv, LiveInv
<1>6. TypeOK'
  <2>1. S \subseteq Calls
    BY <1>2
  <2>2. task' \in [Calls -> States]
    BY <1>1, <1>5 DEF States
  <2>3. \A d \in Calls : task'[d] = "done" => result'[d] # "none"
    BY <1>1, <1>4 DEF ExecInv, TypeOK
  <2> QED
    BY <1>1, <2>1, <2>2, <2>3 DEF ExecInv, TypeOK, Phases, States
<1>7. StreamInv'
  BY <1>1 DEF ExecInv, StreamInv, Eligible, Safe, Approved
<1>8. LiveInv'
  <2>1. \A d \in Calls : task'[d] \in Started => d \in S
    BY <1>4, <1>5 DEF Started
  <2> QED
    BY <1>1, <1>3, <2>1 DEF LiveInv, Safe
<1>9. AnsweredInv'
  <2>1. \A d \in Calls : task'[d] # "none" => kind[d].verdict # "deny"
    BY <1>2, <1>4 DEF ExecInv, AnsweredInv, Approved
  <2>2. \A d \in streamed : task'[d] = "done"
    BY <1>1, <1>2, <1>4 DEF ExecInv, AnsweredInv, Waited, TypeOK
  <2>3. Denied' = Denied /\ \A d \in Denied : result'[d] = "denied"
    BY <1>1 DEF ExecInv, AnsweredInv, Waited, Denied
  <2> QED
    BY <1>1, <2>1, <2>2, <2>3 DEF AnsweredInv
<1>10. UnsafeKeepsOrder'
  <2>1. ASSUME NEW d \in S, NEW b \in Calls, b < d, InTheLine(b), ~(Safe(b) /\ Safe(d))
        PROVE  task[b] = "done"
    <3>1. ~Safe(b) /\ b <= d
      BY <1>2, <1>3, <2>1, CallsAreNumbers
    <3>2. b \notin Rest
      BY <1>3, <3>1
    <3>3. CASE b \in streamed
      BY <1>1, <3>3 DEF ExecInv, AnsweredInv, Waited
    <3>4. CASE b \notin streamed
      BY <1>5, <2>1, <3>2, <3>4 DEF Rest, Batched, InTheLine
    <3> QED
      BY <3>3, <3>4
  <2>2. S \in SUBSET Calls /\ \A d \in Calls \ S : task'[d] = task[d]
    BY <1>2, <1>4
  <2> QED
    BY <1>1, <1>2, <2>1, <2>2, BeginOrder
<1>11. ResultsKept'
  BY <1>1 DEF ResultsKept
<1> QED
  BY <1>6, <1>7, <1>8, <1>9, <1>10, <1>11 DEF ExecInv

\* One call begins, or is answered without running.
LEMMA BeginOneInv ==
  ASSUME ExecInv, phase = "batch", NEW c \in Calls, task[c] = "none",
         c \notin streamed, kind[c].verdict # "deny",
         \A b \in Calls : b < c /\ InTheLine(b) /\ InTheLine(c) => task[b] = "done",
         \/ phase' = "one" /\ Becomes(c, "running") /\ result' = result
         \/ phase' = "batch" /\ \E r \in Results \ {"none"} : Yields(c, r),
         UNCHANGED <<kind, offered, barrier, streamed, together, aborted, cancelled>>
  PROVE  ExecInv'
<1>1. /\ task' \in [Calls -> States] /\ result' \in [Calls -> Results]
      /\ \A d \in Calls : d # c => task'[d] = task[d] /\ result'[d] = result[d]
      /\ \/ phase' = "one" /\ task'[c] = "running"
         \/ phase' = "batch" /\ task'[c] = "done" /\ result'[c] # "none"
  <2>1. CASE phase' = "one" /\ Becomes(c, "running") /\ result' = result
    <3>1. "running" \in States /\ TypeOK
      BY DEF States, ExecInv
    <3>2. task' \in [Calls -> States] /\ task'[c] = "running" /\ \A d \in Calls : d # c => task'[d] = task[d]
      BY <2>1, <3>1, BecomesType
    <3> QED
      BY <2>1, <3>1, <3>2 DEF TypeOK, Results
  <2>2. CASE phase' = "batch" /\ \E r \in Results \ {"none"} : Yields(c, r)
    <3>1. PICK r \in Results \ {"none"} : Yields(c, r)
      BY <2>2
    <3> QED
      BY <2>2, <3>1, YieldsType DEF ExecInv
  <2> QED
    BY <2>1, <2>2
<1>2. \A d \in Calls : task[d] \in {"none", "done"}
  BY DEF ExecInv, LiveInv
<1>3. TypeOK'
  <2>1. \A d \in Calls : task'[d] = "done" => result'[d] # "none"
    BY <1>1 DEF ExecInv, TypeOK
  <2>2. phase' \in Phases
    BY <1>1 DEF Phases
  <2> QED
    BY <1>1, <2>1, <2>2 DEF ExecInv, TypeOK, States, Results
<1>4. StreamInv'
  BY <1>1 DEF ExecInv, StreamInv, Eligible, Safe, Approved
<1>5. LiveInv'
  <2>1. \A d \in Calls : task'[d] \in Started => d = c /\ phase' = "one"
    BY <1>1, <1>2 DEF Started
  <2>2. \A d \in Calls : task'[d] \in States
    BY <1>1
  <2> QED
    BY <1>1, <2>1, <2>2 DEF ExecInv, LiveInv, Safe, States, Started
<1>6. AnsweredInv'
  <2>1. \A d \in Calls : task'[d] # "none" => kind[d].verdict # "deny"
    BY <1>1 DEF ExecInv, AnsweredInv
  <2>2. \A d \in streamed : task'[d] = "done"
    BY <1>1 DEF ExecInv, AnsweredInv, Waited, TypeOK
  <2>3. Denied' = Denied /\ \A d \in Denied : d # c /\ d \in Calls /\ result[d] = "denied"
    BY DEF ExecInv, AnsweredInv, Waited, Denied
  <2> QED
    BY <1>1, <2>1, <2>2, <2>3 DEF AnsweredInv
<1>7. UnsafeKeepsOrder'
  <2>1. {c} \in SUBSET Calls /\ \A d \in Calls \ {c} : task'[d] = task[d]
    BY <1>1
  <2> QED
    BY <2>1, BeginOrder
<1>8. ResultsKept'
  BY <1>1 DEF ResultsKept
<1> QED
  BY <1>3, <1>4, <1>5, <1>6, <1>7, <1>8 DEF ExecInv

LEMMA RunSeriallyInv == ASSUME NEW c \in Calls, ExecInv, RunSerially(c) PROVE ExecInv'
<1>1. /\ phase = "batch" /\ IsFirst(c, Rest)
      /\ \/ phase' = "one" /\ Becomes(c, "running") /\ result' = result
         \/ phase' = "batch" /\ Yields(c, "cancelled")
      /\ UNCHANGED <<kind, offered, barrier, streamed, together, aborted, cancelled>>
  BY DEF RunSerially
<1>2. task[c] = "none" /\ c \notin streamed /\ kind[c].verdict # "deny"
  BY <1>1 DEF IsFirst, Rest, Batched, Approved
<1>3. \A b \in Calls : b < c /\ InTheLine(b) /\ InTheLine(c) => task[b] = "done"
  BY <1>1, EarlierDone
<1>4. "cancelled" \in Results \ {"none"}
  BY DEF Results
<1> QED
  BY <1>1, <1>2, <1>3, <1>4, BeginOneInv

\* What runs after the batches is not in their line.
LEMMA NextAloneIs ==
  ASSUME NEW c \in Calls, NextAlone(c)
  PROVE  /\ task[c] = "none" /\ c \notin streamed /\ kind[c].verdict # "deny"
         /\ ~InTheLine(c)
BY DEF NextAlone, IsFirst, Solo, Asking, ToRun, InTheLine, Approved

LEMMA RunAloneInv == ASSUME NEW c \in Calls, ExecInv, RunAlone(c) PROVE ExecInv'
<1>1. /\ phase = "batch" /\ NextAlone(c)
      /\ phase' = "one" /\ Becomes(c, "running") /\ result' = result
      /\ UNCHANGED <<kind, offered, barrier, streamed, together, aborted, cancelled>>
  BY DEF RunAlone
<1> QED
  BY <1>1, NextAloneIs, BeginOneInv

LEMMA RefuseInv == ASSUME NEW c \in Calls, ExecInv, Refuse(c) PROVE ExecInv'
<1>1. /\ phase = "batch" /\ NextAlone(c)
      /\ phase' = "batch" /\ Yields(c, "denied")
      /\ UNCHANGED <<kind, offered, barrier, streamed, together, aborted, cancelled>>
  BY DEF Refuse
<1>2. "denied" \in Results \ {"none"}
  BY DEF Results
<1> QED
  BY <1>1, <1>2, NextAloneIs, BeginOneInv

-----------------------------------------------------------------------------
LEMMA NextInv == ASSUME ExecInv, [Next]_vars PROVE ExecInv'
<1>1. CASE UNCHANGED vars
  BY <1>1 DEF vars, ExecInv, TypeOK, StreamInv, Eligible, Safe, Approved, LiveInv,
              AnsweredInv, Denied, UnsafeKeepsOrder, InTheLine, ResultsKept
<1>2. CASE TurnStep
  BY <1>2, StreamEndsInv, DrainInv, PlanInv, EndBatchInv, CommitInv, OfferInv,
     StartBatchInv, RunSeriallyInv, RunAloneInv, RefuseInv DEF TurnStep
<1>3. CASE Cancel
  BY <1>3, CancelInv
<1>4. ASSUME NEW c \in Calls, TaskStep(c) PROVE ExecInv'
  BY <1>4, StepIsProgress, ProgressInv DEF ExecInv
<1> QED
  BY <1>1, <1>2, <1>3, <1>4 DEF Next

(* The variables keep their types, and a call that is done has a result,   *)
(* for any number of calls: Offer to Cancel.                               *)
THEOREM ExecInvariant == Spec => []ExecInv
BY InitInv, NextInv, PTL DEF Spec

THEOREM TypeCorrect == Spec => []TypeOK
<1>1. ExecInv => TypeOK
  BY DEF ExecInv
<1> QED
  BY <1>1, ExecInvariant, PTL

(* A call that is not safe beside others runs alone: not beside a streamed *)
(* call, nor beside one of a batch.                                        *)
THEOREM Exclusion == Spec => []UnsafeRunsAlone
<1>1. ASSUME ExecInv, NEW c \in Running, NEW d \in Running, c # d
      PROVE  Safe(c) /\ Safe(d)
  <2>1. c \in Calls /\ d \in Calls /\ task[c] = "running" /\ task[d] = "running"
    BY DEF Running
  <2>2. phase \in {"stream", "discard", "drain", "together"}
    BY <1>1, <2>1 DEF ExecInv, LiveInv, TypeOK, Phases, Started
  <2>3. CASE phase = "together"
    BY <1>1, <2>1, <2>3 DEF ExecInv, LiveInv, Started
  <2>4. CASE phase \in {"stream", "discard", "drain"}
    BY <1>1, <2>1, <2>4 DEF ExecInv, StreamInv, Eligible
  <2> QED
    BY <2>2, <2>3, <2>4
<1>2. ExecInv => UnsafeRunsAlone
  BY <1>1 DEF UnsafeRunsAlone
<1> QED
  BY <1>2, ExecInvariant, PTL

(* Of two approved calls one of which is unsafe, the later one starts when *)
(* the earlier one is done, whatever was streamed.                         *)
THEOREM Order == Spec => []UnsafeKeepsOrder
<1>1. ExecInv => UnsafeKeepsOrder
  BY DEF ExecInv
<1> QED
  BY <1>1, ExecInvariant, PTL

(* No result is lost when the calls are over, cancelled or not.            *)
THEOREM NothingLost == Spec => []ResultsKept
<1>1. ExecInv => ResultsKept
  BY DEF ExecInv
<1> QED
  BY <1>1, ExecInvariant, PTL
-----------------------------------------------------------------------------
(* A slot is taken only when one is free, and a single call begins only    *)
(* when nothing else runs.                                                 *)
LEMMA FewerRun ==
  ASSUME ParallelismBounded, Running' \subseteq Running PROVE ParallelismBounded'
<1>1. IsFiniteSet(Running)
  BY CallsAreNumbers, FS_Subset DEF Running
<1>2. Cardinality(Running') <= Cardinality(Running) /\ Cardinality(Running) \in Nat
      /\ Cardinality(Running') \in Nat
  BY <1>1, FS_Subset, FS_CardinalityType
<1> QED
  BY <1>2, CallsAreNumbers DEF ParallelismBounded

LEMMA OneMoreRuns ==
  ASSUME Cardinality(Running) < MaxParallel, NEW c, Running' \subseteq Running \cup {c}
  PROVE  ParallelismBounded'
<1>1. IsFiniteSet(Running)
  BY CallsAreNumbers, FS_Subset DEF Running
<1>2. /\ IsFiniteSet(Running \cup {c})
      /\ Cardinality(Running \cup {c}) \in {Cardinality(Running), Cardinality(Running) + 1}
  BY <1>1, FS_AddElement
<1>3. /\ Cardinality(Running') <= Cardinality(Running \cup {c})
      /\ Cardinality(Running) \in Nat /\ Cardinality(Running') \in Nat
  BY <1>1, <1>2, FS_Subset, FS_CardinalityType
<1> QED
  BY <1>2, <1>3, CallsAreNumbers DEF ParallelismBounded

LEMMA ParallelStep ==
  ASSUME ExecInv, ParallelismBounded, [Next]_vars PROVE ParallelismBounded'
<1> USE DEF Running
<1>1. ASSUME NEW c \in Calls, Becomes(c, "running"), phase = "batch"
      PROVE  ParallelismBounded'
  <2>1. Running = {}
    BY <1>1 DEF ExecInv, LiveInv
  <2>2. Cardinality(Running) < MaxParallel
    BY <2>1, FS_EmptySet, CallsAreNumbers
  <2>3. Running' \subseteq Running \cup {c}
    BY <1>1 DEF Becomes
  <2> QED
    BY <2>2, <2>3, OneMoreRuns
<1>2. ASSUME NEW c \in Calls, NEW s \in {"queued", "done"}, Becomes(c, s)
      PROVE  ParallelismBounded'
  BY <1>2, FewerRun DEF Becomes
<1>3. ASSUME task' = task
      PROVE  ParallelismBounded'
  BY <1>3, FewerRun
<1>4. ASSUME NEW c \in Calls, Acquire(c)
      PROVE  ParallelismBounded'
  <2>1. Running' \subseteq Running \cup {c}
    BY <1>4 DEF Acquire, Becomes
  <2>2. Cardinality(Running) < MaxParallel
    BY <1>4 DEF Acquire, SlotFree
  <2> QED
    BY <2>1, <2>2, OneMoreRuns
<1>5. ASSUME NEW c \in Calls, StartBatch(c)
      PROVE  ParallelismBounded'
  BY <1>5, FewerRun DEF StartBatch
<1>6. ASSUME NEW c \in Calls, TaskStep(c)
      PROVE  ParallelismBounded'
  <2>1. \/ Becomes(c, "queued") \/ Becomes(c, "done") \/ Acquire(c)
    BY <1>6 DEF TaskStep, StreamGivesUp, Looks, BatchGivesUp, Finish, FinishAlone, Yields
  <2> QED
    BY <1>2, <1>4, <2>1
<1>7. ASSUME NEW c \in Calls, Offer(c) \/ RunSerially(c) \/ RunAlone(c) \/ Refuse(c)
      PROVE  ParallelismBounded'
  <2>1. \/ Becomes(c, "queued") \/ Becomes(c, "done") \/ task' = task
        \/ Becomes(c, "running") /\ phase = "batch"
    BY <1>7 DEF Offer, RunSerially, RunAlone, Refuse, Yields
  <2> QED
    BY <1>1, <1>2, <1>3, <2>1
<1>8. StreamEnds \/ Drain \/ Plan \/ EndBatch \/ Commit \/ Cancel \/ UNCHANGED vars => task' = task
  BY DEF StreamEnds, Drain, Plan, EndBatch, Commit, Cancel, vars
<1> QED
  BY <1>3, <1>5, <1>6, <1>7, <1>8 DEF Next, TurnStep

(* No more than maxParallelTools calls run, the streamed ones counted.     *)
THEOREM Parallelism == Spec => []ParallelismBounded
<1>1. Init => ParallelismBounded
  <2>1. Init => Running = {}
    BY DEF Init, Running
  <2> QED
    BY <2>1, FS_EmptySet, CallsAreNumbers DEF ParallelismBounded
<1> QED
  BY <1>1, ExecInvariant, ParallelStep, PTL DEF Spec

-----------------------------------------------------------------------------
(* What cancels a call.  A batch is made of siblings, and its context is   *)
(* cancelled only once a shell call of its own has failed: neither a       *)
(* failure of a streamed call nor one of an earlier batch reaches it.      *)
Failed(d) == kind[d].shell /\ result[d] = "error"

AbortInv ==
  /\ \A c \in Calls : task[c] = "new" => c \in together
  /\ \A c \in Calls : result[c] \in {"error", "aborted"} => task[c] = "done"
  /\ \A c, d \in together : Siblings(c, d)
  /\ phase = "together" /\ aborted => \E d \in together : Failed(d)
  /\ phase \in {"stream", "discard", "drain"} => \A c \in Calls : result[c] # "aborted"
  /\ AbortHasCause

LEMMA SiblingsKept ==
  ASSUME UNCHANGED <<kind, streamed>>
  PROVE  \A c, d : Siblings(c, d)' <=> Siblings(c, d)
BY DEF Siblings, Batched, Approved, Safe

\* Steps that give no call up and undo no failure.
LEMMA CauseKept ==
  ASSUME AbortInv, UNCHANGED <<kind, streamed>>, cancelled => cancelled',
         \A d \in Calls : result[d] = "error" => result'[d] = "error",
         \A c \in Calls : result'[c] = "aborted" => result[c] = "aborted"
  PROVE  AbortHasCause'
<1> SUFFICES ASSUME NEW c \in Calls, result[c] = "aborted", ~cancelled
             PROVE  \E d \in Calls : Siblings(c, d)' /\ kind'[d].shell /\ result'[d] = "error"
  BY DEF AbortHasCause
<1>1. PICK d \in Calls : Siblings(c, d) /\ kind[d].shell /\ result[d] = "error"
  BY DEF AbortInv, AbortHasCause
<1> QED
  BY <1>1, SiblingsKept

\* Steps of the turn outside a batch of siblings.
LEMMA ApartKept ==
  ASSUME AbortInv, together' = {}, UNCHANGED <<kind, streamed>>, cancelled => cancelled',
         phase' # "together",
         phase' \in {"stream", "discard", "drain"} => phase \in {"stream", "discard", "drain"},
         \A c \in Calls : task'[c] = "new" => task[c] = "new" /\ c \in together',
         \A c \in Calls : task[c] = "done" => task'[c] = "done" /\ result'[c] = result[c],
         \A c \in Calls : result'[c] # result[c] => result'[c] \notin {"error", "aborted"}
  PROVE  AbortInv'
<1>1. \A c \in Calls : result'[c] \in {"error", "aborted"} => task'[c] = "done"
  BY DEF AbortInv
<1>2. \A c \in Calls : result'[c] = "aborted" => result[c] = "aborted"
  OBVIOUS
<1>3. \A c \in Calls : result[c] = "error" => result'[c] = "error"
  BY DEF AbortInv
<1>4. AbortHasCause'
  BY <1>2, <1>3, CauseKept
<1> QED
  BY <1>1, <1>2, <1>4 DEF AbortInv

LEMMA InitAbort == Init => AbortInv
BY DEF Init, AbortInv, AbortHasCause

LEMMA OfferAbort == ASSUME NEW c \in Calls, ExecInv, AbortInv, Offer(c) PROVE AbortInv'
<1>1. /\ phase = "stream" /\ phase' = "stream" /\ together' = {} /\ together = {}
      /\ UNCHANGED kind
  BY DEF Offer, ExecInv, LiveInv
<1>2. /\ task' \in [Calls -> States] /\ \A d \in Calls : d # c => task'[d] = task[d]
      /\ \A d \in Calls : result'[d] = result[d] \/ (result'[d] = "cancelled" /\ d = c)
      /\ task'[c] \in {task[c], "queued", "done"}
      /\ task'[c] = "done" \/ UNCHANGED result
  <2>1. CASE Yields(c, "cancelled")
    BY <2>1, YieldsType DEF ExecInv, Results
  <2>2. CASE Becomes(c, "queued") /\ UNCHANGED result
    BY <2>2, BecomesType DEF ExecInv, States
  <2>3. CASE UNCHANGED <<task, result>>
    BY <2>3 DEF ExecInv, TypeOK, States
  <2> QED
    BY <2>1, <2>2, <2>3 DEF Offer
<1>3. task[c] = "none"
  <2>1. c \notin streamed
    BY CallsAreNumbers DEF Offer, ExecInv, StreamInv, TypeOK
  <2> QED
    BY <1>1, <2>1 DEF ExecInv, StreamInv
<1>4. \A d \in Calls : task'[d] # "new" /\ result'[d] # "aborted"
  BY <1>1, <1>2, <1>3 DEF AbortInv
<1>5. \A d \in Calls : result'[d] = "error" => task'[d] = "done"
  BY <1>2, <1>3 DEF AbortInv
<1> QED
  BY <1>1, <1>4, <1>5 DEF AbortInv, AbortHasCause

LEMMA MoveOnAbort ==
  ASSUME ExecInv, AbortInv, StreamEnds \/ Plan \/ EndBatch \/ Commit
  PROVE  AbortInv'
<1>1. /\ UNCHANGED <<kind, streamed, task, result, cancelled>> /\ phase' # "together"
      /\ phase' \in {"stream", "discard", "drain"} => phase \in {"stream", "discard", "drain"}
  BY DEF StreamEnds, Plan, EndBatch, Commit
<1>2. together' = {}
  BY DEF StreamEnds, Plan, EndBatch, Commit, ExecInv, LiveInv
<1>3. \A c \in Calls : task[c] # "new"
  <2>1. CASE EndBatch
    BY <2>1 DEF EndBatch, Live
  <2>2. CASE StreamEnds \/ Plan \/ Commit
    BY <2>2 DEF StreamEnds, Plan, Commit, AbortInv, ExecInv, LiveInv
  <2> QED
    BY <2>1, <2>2
<1> QED
  BY <1>1, <1>2, <1>3, ApartKept

LEMMA DrainAbort == ASSUME ExecInv, AbortInv, Drain PROVE AbortInv'
<1>1. /\ phase \in {"drain", "discard"} /\ phase' \in {"planned", "discarded"}
      /\ phase' = "planned" <=> phase = "drain"
      /\ UNCHANGED <<kind, streamed, task, together, cancelled>> /\ together = {}
  BY DEF Drain, ExecInv, LiveInv
<1>2. \A c \in Calls : result'[c] = IF phase = "drain" /\ c \in Denied THEN "denied" ELSE result[c]
  BY DEF Drain
<1>3. \A c \in Denied : task[c] = "none"
  BY <1>1 DEF Denied, ExecInv, StreamInv
<1>4. \A c \in Calls : task[c] # "new"
  BY <1>1 DEF AbortInv
<1> QED
  BY <1>1, <1>2, <1>3, <1>4, ApartKept

\* The neighbours a batch is made of: an unsafe call between two of them
\* would be one of the rest, or begun before the first of them was done.
LEMMA StartBatchAbort ==
  ASSUME NEW c \in Calls, ExecInv, AbortInv, StartBatch(c)
  PROVE  AbortInv'
<1> DEFINE S == SafePrefix(Rest)
<1>1. /\ phase = "batch" /\ phase' = "together" /\ together' = S /\ aborted' = FALSE
      /\ UNCHANGED <<kind, streamed, cancelled, result>>
      /\ \A d \in Calls : task'[d] = IF d \in S THEN "new" ELSE task[d]
  BY DEF StartBatch
<1>2. \A d \in S : d \in Rest /\ \A e \in Rest : e <= d => Safe(e)
  BY DEF SafePrefix
<1> HIDE DEF S
<1>3. \A d \in Rest : d \in Calls /\ d \in Batched /\ task[d] = "none"
  BY DEF Rest, Batched
<1>4. ASSUME NEW b \in S, NEW d \in S, NEW e \in Batched, b <= e, e <= d
      PROVE  Safe(e)
  <2>1. CASE e \in Rest
    BY <1>2, <1>4, <2>1
  <2>2. CASE e \notin Rest
    <3>1. e \in Calls /\ task[e] # "none" /\ InTheLine(e)
      BY <2>2 DEF Rest, Batched, InTheLine
    <3>2. b \in Calls /\ task[b] = "none" /\ InTheLine(b) /\ b # e
      BY <1>2, <1>3, <3>1 DEF Batched, InTheLine
    <3>3. b < e
      BY <1>4, <3>1, <3>2, CallsAreNumbers
    <3> QED
      BY <3>1, <3>2, <3>3 DEF ExecInv, UnsafeKeepsOrder
  <2> QED
    BY <2>1, <2>2
<1>5. \A b, d \in S : Siblings(b, d)
  BY <1>2, <1>3, <1>4 DEF Siblings
<1>6. \A b, d \in together' : Siblings(b, d)'
  BY <1>1, <1>5, SiblingsKept
<1>7. \A d \in Calls : task'[d] = "new" => d \in together'
  BY <1>1 DEF AbortInv, ExecInv, LiveInv
<1>8. \A d \in Calls : result'[d] \in {"error", "aborted"} => task'[d] = "done"
  BY <1>1, <1>2, <1>3 DEF AbortInv
<1>9. AbortHasCause'
  BY <1>1, CauseKept
<1> QED
  BY <1>1, <1>6, <1>7, <1>8, <1>9 DEF AbortInv

LEMMA BeginAbort ==
  ASSUME NEW c \in Calls, ExecInv, AbortInv, RunSerially(c) \/ RunAlone(c) \/ Refuse(c)
  PROVE  AbortInv'
<1>1. /\ phase = "batch" /\ phase' \in {"batch", "one"} /\ task[c] = "none"
      /\ UNCHANGED <<kind, streamed, together, cancelled>> /\ together = {}
  BY DEF RunSerially, RunAlone, Refuse, NextAlone, IsFirst, Rest, ToRun, ExecInv, LiveInv
<1>2. /\ \A d \in Calls : d # c => task'[d] = task[d] /\ result'[d] = result[d]
      /\ task'[c] # "new" /\ result'[c] \in {result[c], "cancelled", "denied"}
  <2>1. CASE Yields(c, "cancelled") \/ Yields(c, "denied")
    BY <2>1, YieldsType DEF ExecInv, Results
  <2>2. CASE Becomes(c, "running") /\ UNCHANGED result
    BY <2>2, BecomesType DEF ExecInv, States
  <2> QED
    BY <2>1, <2>2 DEF RunSerially, RunAlone, Refuse
<1>3. \A d \in Calls : task[d] # "new"
  BY <1>1 DEF AbortInv
<1> QED
  BY <1>1, <1>2, <1>3, ApartKept

\* A goroutine that ends without being given up.
LEMMA EndsAbort ==
  ASSUME NEW c \in Calls, ExecInv, AbortInv, Progress(c), task'[c] # "new",
         result'[c] \in {"aborted", "error"} => result'[c] = "error" /\ task'[c] = "done",
         aborted' => aborted \/ (kind[c].shell /\ result'[c] = "error")
  PROVE  AbortInv'
<1>1. /\ task[c] \in Started
      /\ phase' = phase \/ (phase = "one" /\ phase' = "batch")
      /\ \A d \in Calls : d # c => task'[d] = task[d] /\ result'[d] = result[d]
      /\ UNCHANGED <<kind, streamed, together, cancelled>>
  BY DEF Progress
<1>2. task[c] # "done" /\ result[c] \notin {"error", "aborted"}
  <2>1. task[c] # "done"
    BY <1>1 DEF Started
  <2> QED
    BY <2>1 DEF AbortInv
<1>3. AbortHasCause'
  BY <1>1, <1>2, CauseKept
<1>4. phase' = "together" /\ aborted' => \E d \in together' : Failed(d)'
  <2> SUFFICES ASSUME phase' = "together", aborted' PROVE \E d \in together : Failed(d)'
    BY <1>1
  <2>1. phase = "together" /\ c \in together
    BY <1>1 DEF ExecInv, LiveInv
  <2>2. CASE aborted
    <3>1. PICK d \in together : Failed(d)
      BY <2>1, <2>2 DEF AbortInv
    <3>2. d \in Calls /\ d # c
      BY <1>2, <3>1 DEF ExecInv, TypeOK, Failed
    <3> QED
      BY <1>1, <3>1, <3>2 DEF Failed
  <2>3. CASE ~aborted
    BY <1>1, <2>1, <2>3 DEF Failed
  <2> QED
    BY <2>2, <2>3
<1>5. \A b, d \in together' : Siblings(b, d)'
  BY <1>1, SiblingsKept DEF AbortInv
<1> QED
  BY <1>1, <1>2, <1>3, <1>4, <1>5 DEF AbortInv

\* A goroutine is given up: a shell call of its batch has failed.
LEMMA GivesUpAbort ==
  ASSUME NEW c \in Calls, ExecInv, AbortInv, Progress(c), task'[c] = "done", c \in together,
         result'[c] = "aborted", aborted \/ cancelled, UNCHANGED <<phase, aborted>>
  PROVE  AbortInv'
<1>1. /\ task[c] \in Started
      /\ \A d \in Calls : d # c => task'[d] = task[d] /\ result'[d] = result[d]
      /\ UNCHANGED <<kind, streamed, together, cancelled>>
  BY DEF Progress
<1>2. task[c] # "done" /\ result[c] # "error" /\ phase = "together"
  BY <1>1 DEF Started, AbortInv, ExecInv, LiveInv
<1>3. \A d \in Calls : result[d] = "error" => d # c /\ result'[d] = "error"
  BY <1>1, <1>2
<1>4. aborted => \E d \in together : d \in Calls /\ Failed(d) /\ Failed(d)' /\ Siblings(c, d)
  <2> SUFFICES ASSUME aborted
               PROVE  \E d \in together : d \in Calls /\ Failed(d) /\ Failed(d)' /\ Siblings(c, d)
    OBVIOUS
  <2>1. PICK d \in together : Failed(d)
    BY <1>2 DEF AbortInv
  <2>2. d \in Calls /\ Siblings(c, d)
    BY DEF ExecInv, TypeOK, AbortInv
  <2> QED
    BY <1>1, <1>3, <2>1, <2>2 DEF Failed
<1>5. AbortHasCause'
  <2> SUFFICES ASSUME NEW b \in Calls, result'[b] = "aborted", ~cancelled
               PROVE  \E d \in Calls : Siblings(b, d) /\ kind[d].shell /\ result'[d] = "error"
    BY <1>1, SiblingsKept DEF AbortHasCause
  <2>1. CASE b = c
    BY <1>1, <1>4, <2>1 DEF Failed
  <2>2. CASE b # c
    <3>1. PICK d \in Calls : Siblings(b, d) /\ kind[d].shell /\ result[d] = "error"
      BY <1>1, <2>2 DEF AbortInv, AbortHasCause
    <3> QED
      BY <1>3, <3>1
  <2> QED
    BY <2>1, <2>2
<1>6. \A b, d \in together' : Siblings(b, d)'
  BY <1>1, SiblingsKept DEF AbortInv
<1> QED
  BY <1>1, <1>2, <1>4, <1>5, <1>6 DEF AbortInv

LEMMA TaskAbort == ASSUME NEW c \in Calls, ExecInv, AbortInv, TaskStep(c) PROVE AbortInv'
<1>1. Progress(c)
  BY StepIsProgress DEF ExecInv
<1>2. result[c] \notin {"error", "aborted"}
  BY <1>1 DEF Progress, Started, AbortInv
<1>3. CASE StreamGivesUp(c)
  <2>1. task'[c] = "done" /\ result'[c] = "cancelled" /\ UNCHANGED aborted
    BY <1>3, YieldsType DEF StreamGivesUp, ExecInv, Results
  <2> QED
    BY <1>1, <2>1, EndsAbort
<1>4. CASE Looks(c)
  <2>1. c \in together /\ UNCHANGED <<phase, aborted>>
    BY <1>4 DEF Looks, AbortInv
  <2>2. CASE aborted \/ cancelled
    <3>1. task'[c] = "done" /\ result'[c] = "aborted"
      BY <1>4, <2>2, YieldsType DEF Looks, ExecInv, Results
    <3> QED
      BY <1>1, <2>1, <2>2, <3>1, GivesUpAbort
  <2>3. CASE ~(aborted \/ cancelled)
    <3>1. task'[c] = "queued" /\ UNCHANGED result
      BY <1>4, <2>3, BecomesType DEF Looks, ExecInv, States
    <3> QED
      BY <1>1, <2>1, <2>3, <3>1, <1>2, EndsAbort
  <2> QED
    BY <2>2, <2>3
<1>5. CASE BatchGivesUp(c)
  <2>1. task'[c] = "done" /\ result'[c] = "aborted"
    BY <1>5, YieldsType DEF BatchGivesUp, ExecInv, Results
  <2> QED
    BY <1>1, <1>5, <2>1, GivesUpAbort DEF BatchGivesUp
<1>6. CASE Acquire(c)
  <2>1. task'[c] = "running" /\ UNCHANGED <<result, aborted>>
    BY <1>6, BecomesType DEF Acquire, ExecInv, States
  <2> QED
    BY <1>1, <2>1, <1>2, EndsAbort
<1>7. ASSUME NEW r \in {"ok", "error"}, Finish(c, r) \/ FinishAlone(c, r) PROVE AbortInv'
  <2>1. task'[c] = "done" /\ result'[c] = r
    BY <1>7, YieldsType DEF Finish, FinishAlone, ExecInv, Results
  <2>2. aborted' => aborted \/ (kind[c].shell /\ result'[c] = "error")
    BY <1>7, <2>1 DEF Finish, FinishAlone
  <2> QED
    BY <1>1, <2>1, <2>2, EndsAbort
<1> QED
  BY <1>3, <1>4, <1>5, <1>6, <1>7 DEF TaskStep

LEMMA StepAbort == ASSUME ExecInv, AbortInv, [Next]_vars PROVE AbortInv'
<1>1. CASE TurnStep
  BY <1>1, OfferAbort, MoveOnAbort, DrainAbort, StartBatchAbort, BeginAbort DEF TurnStep
<1>2. CASE Cancel \/ UNCHANGED vars
  <2>1. /\ UNCHANGED <<kind, phase, streamed, task, together, aborted, result>>
        /\ cancelled => cancelled'
    BY <1>2 DEF Cancel, vars
  <2>2. AbortHasCause'
    BY <2>1, CauseKept
  <2>3. \A b, d \in together' : Siblings(b, d)'
    BY <2>1, SiblingsKept DEF AbortInv
  <2> QED
    BY <2>1, <2>2, <2>3 DEF AbortInv, Failed
<1> QED
  BY <1>1, <1>2, TaskAbort DEF Next

(* A call is given up for a reason: a shell call failed that stands in the *)
(* reply with nothing unsafe between, or the turn was cancelled.  A batch  *)
(* has a context of its own, so that no other failure reaches it.          *)
THEOREM AbortsHaveCause == Spec => []AbortHasCause
<1>1. AbortInv => AbortHasCause
  BY DEF AbortInv
<1> QED
  BY <1>1, InitAbort, StepAbort, ExecInvariant, PTL DEF Spec
=============================================================================
