------------------------------ MODULE ToolExec ------------------------------
(***************************************************************************)
(* How the tool calls of one reply are run: internal/agent/                *)
(* stream_tool_exec.go while the reply streams, then executeTools of       *)
(* internal/agent/agent.go over internal/toolexec/batch.go.                *)
(*                                                                         *)
(* A call that is safe to run beside others and approved is dispatched to  *)
(* a goroutine as soon as its block is complete, unless a barrier came     *)
(* before it.  When the stream is over the dispatched calls are waited     *)
(* for; the approved rest runs in batches of neighbours that are all safe  *)
(* (together) or all unsafe (one by one), then what the policy keeps from  *)
(* running in parallel, then what needs approval.  AgentTurn holds the     *)
(* same phases as single steps; here each call is a goroutine.             *)
(***************************************************************************)
EXTENDS Integers, FiniteSets

CONSTANTS
  NumCalls,    \* calls in the reply
  MaxParallel, \* maxParallelTools
  Kinds        \* the kinds of calls that occur

\* What the executors ask of a call: isConcurrencySafe, isShellTool,
\* approvalResultForTool, CanParallelize, isWriteOperation, and whether the
\* tool is registered.
Kind == [safe : BOOLEAN, shell : BOOLEAN, verdict : {"auto", "deny", "ask"},
         parallel : BOOLEAN, write : BOOLEAN]

ASSUME ExecAssumption ==
  NumCalls \in Nat /\ MaxParallel \in Nat \ {0} /\ Kinds \subseteq Kind

Calls == 1..NumCalls

VARIABLES
  kind,      \* [Calls -> Kinds]
  phase,     \* where the turn is: see Phases
  offered,   \* how many calls the stream has completed
  barrier,   \* streamingToolExecutor.barrierSeen
  streamed,  \* the calls with a future in the streaming executor
  task,      \* [Calls -> "none", "new", "queued", "running", "done"]
  together,  \* the calls of the concurrent batch that runs
  aborted,   \* whether the sibling context is cancelled
  cancelled, \* the context of the turn
  result     \* [Calls -> "none", "ok", "error", "aborted", "cancelled", "denied"]

vars == <<kind, phase, offered, barrier, streamed, task, together, aborted,
          cancelled, result>>

Phases == {"stream", "discard", "drain", "planned", "batch", "together", "one",
           "over", "discarded"}

TypeOK ==
  /\ kind \in [Calls -> Kinds] /\ phase \in Phases
  /\ offered \in 0..NumCalls /\ barrier \in BOOLEAN
  /\ streamed \subseteq Calls /\ together \subseteq Calls
  /\ task \in [Calls -> {"none", "new", "queued", "running", "done"}]
  /\ aborted \in BOOLEAN /\ cancelled \in BOOLEAN
  /\ result \in [Calls -> {"none", "ok", "error", "aborted", "cancelled", "denied"}]
  /\ \A c \in Calls : task[c] = "done" => result[c] # "none"

Init ==
  /\ kind \in [Calls -> Kinds]
  /\ phase = "stream" /\ offered = 0 /\ barrier = FALSE
  /\ streamed = {} /\ together = {}
  /\ task = [c \in Calls |-> "none"] /\ result = [c \in Calls |-> "none"]
  /\ aborted = FALSE /\ cancelled = FALSE

-----------------------------------------------------------------------------
Safe(c)     == kind[c].safe
Approved(c) == kind[c].verdict = "auto"
Running     == {c \in Calls : task[c] = "running"}
Live        == {c \in Calls : task[c] \in {"new", "queued", "running"}}

\* Its mutant does not give slots back.
SlotFree_Kept == Cardinality({c \in Calls : task[c] \in {"running", "done"}}) < MaxParallel
SlotFree == Cardinality(Running) < MaxParallel

Becomes(c, state) == task' = [task EXCEPT ![c] = state]
Yields(c, r) == Becomes(c, "done") /\ result' = [result EXCEPT ![c] = r]

-----------------------------------------------------------------------------
(* While the reply streams.                                                *)

\* OnToolFinalized: Dispatch, then the barrier.
Eligible(c) == Safe(c) /\ Approved(c)

\* The mutant dispatches behind a barrier.
Offer_NoBarrier(c) ==
  /\ phase = "stream" /\ c = offered + 1 /\ c \in Calls
  /\ offered' = c
  /\ IF Eligible(c)
     THEN /\ streamed' = streamed \cup {c}
          /\ IF cancelled THEN Yields(c, "cancelled")
             ELSE Becomes(c, "queued") /\ UNCHANGED result
     ELSE UNCHANGED <<streamed, task, result>>
  /\ UNCHANGED <<kind, phase, barrier, together, aborted, cancelled>>

Offer(c) ==
  /\ phase = "stream" /\ c = offered + 1 /\ c \in Calls
  /\ offered' = c
  /\ barrier' = (barrier \/ kind[c].write \/ ~Safe(c))
  /\ IF Eligible(c) /\ ~barrier
     THEN /\ streamed' = streamed \cup {c}
          /\ IF cancelled THEN Yields(c, "cancelled")
             ELSE Becomes(c, "queued") /\ UNCHANGED result
     ELSE UNCHANGED <<streamed, task, result>>
  /\ UNCHANGED <<kind, phase, together, aborted, cancelled>>

\* A streamed call that waits for a slot sees the turn's context only.  The
\* mutant closes its future without a result.
StreamGivesUp_Empty(c) ==
  /\ c \in streamed /\ task[c] = "queued" /\ cancelled
  /\ Becomes(c, "done")
  /\ UNCHANGED <<kind, phase, offered, barrier, streamed, together, aborted,
                 cancelled, result>>

StreamGivesUp(c) ==
  /\ c \in streamed /\ task[c] = "queued" /\ cancelled
  /\ Yields(c, "cancelled")
  /\ UNCHANGED <<kind, phase, offered, barrier, streamed, together, aborted,
                 cancelled>>

\* The stream ends, or fails and what was dispatched is only shown.
StreamEnds ==
  /\ phase = "stream"
  /\ phase' \in (IF offered = NumCalls THEN {"drain", "discard"} ELSE {"discard"})
  /\ UNCHANGED <<kind, offered, barrier, streamed, task, together, aborted,
                 cancelled, result>>

\* Drain; the batch executor starts with a sibling context of its own, and
\* denied calls are answered at once.
Batched == {c \in Calls : c \notin streamed /\ Approved(c) /\ kind[c].parallel}
Denied  == {c \in Calls : c \notin streamed /\ kind[c].verdict = "deny"}

\* The mutant goes on without waiting.
Drain_AtOnce ==
  /\ phase \in {"drain", "discard"}
  /\ phase' = IF phase = "drain" THEN "planned" ELSE "discarded"
  /\ aborted' = FALSE
  /\ result' = [c \in Calls |->
                  IF phase = "drain" /\ c \in Denied THEN "denied" ELSE result[c]]
  /\ UNCHANGED <<kind, offered, barrier, streamed, task, together, cancelled>>

Drain ==
  /\ phase \in {"drain", "discard"} /\ Live = {}
  /\ phase' = IF phase = "drain" THEN "planned" ELSE "discarded"
  /\ aborted' = FALSE
  /\ result' = [c \in Calls |->
                  IF phase = "drain" /\ c \in Denied THEN "denied" ELSE result[c]]
  /\ UNCHANGED <<kind, offered, barrier, streamed, task, together, cancelled>>

\* The approved calls are not begun when the context is cancelled by now.
Plan ==
  /\ phase = "planned"
  /\ phase' = IF cancelled /\ Batched # {} THEN "over" ELSE "batch"
  /\ UNCHANGED <<kind, offered, barrier, streamed, task, together, aborted,
                 cancelled, result>>

-----------------------------------------------------------------------------
(* BatchExecutor.Execute: neighbours of the same safety form a batch.      *)

Rest    == {c \in Batched : task[c] = "none"}
IsFirst(c, S) == c \in S /\ \A d \in S : c <= d
SafePrefix(S) == {c \in S : \A d \in S : d <= c => Safe(d)}

\* Its mutant shares one sibling context between the batches.
StartBatch_SharedContext(c) ==
  /\ phase = "batch" /\ IsFirst(c, Rest) /\ Safe(c)
  /\ phase' = "together" /\ together' = SafePrefix(Rest)
  /\ task' = [d \in Calls |-> IF d \in SafePrefix(Rest) THEN "new" ELSE task[d]]
  /\ UNCHANGED <<kind, offered, barrier, streamed, aborted, cancelled, result>>

StartBatch(c) ==
  /\ phase = "batch" /\ IsFirst(c, Rest) /\ Safe(c)
  /\ phase' = "together" /\ together' = SafePrefix(Rest) /\ aborted' = FALSE
  /\ task' = [d \in Calls |-> IF d \in SafePrefix(Rest) THEN "new" ELSE task[d]]
  /\ UNCHANGED <<kind, offered, barrier, streamed, cancelled, result>>

\* A goroutine of the batch looks at the sibling context before it waits for
\* a slot, and when both are there takes either.
Looks(c) ==
  /\ task[c] = "new"
  /\ IF aborted \/ cancelled THEN Yields(c, "aborted")
     ELSE Becomes(c, "queued") /\ UNCHANGED result
  /\ UNCHANGED <<kind, phase, offered, barrier, streamed, together, aborted,
                 cancelled>>

BatchGivesUp(c) ==
  /\ c \in together /\ task[c] = "queued" /\ (aborted \/ cancelled)
  /\ Yields(c, "aborted")
  /\ UNCHANGED <<kind, phase, offered, barrier, streamed, together, aborted,
                 cancelled>>

\* Its mutant does not wait.
EndBatch_AtOnce ==
  /\ phase = "together"
  /\ phase' = "batch" /\ together' = {}
  /\ UNCHANGED <<kind, offered, barrier, streamed, task, aborted, cancelled, result>>

EndBatch ==
  /\ phase = "together" /\ Live = {}
  /\ phase' = "batch" /\ together' = {}
  /\ UNCHANGED <<kind, offered, barrier, streamed, task, aborted, cancelled,
                 result>>

\* executeSerially, one call.
RunSerially(c) ==
  /\ phase = "batch" /\ IsFirst(c, Rest) /\ ~Safe(c)
  /\ IF cancelled
     THEN Yields(c, "cancelled") /\ UNCHANGED phase
     ELSE Becomes(c, "running") /\ phase' = "one" /\ UNCHANGED result
  /\ UNCHANGED <<kind, offered, barrier, streamed, together, aborted, cancelled>>

-----------------------------------------------------------------------------
(* A call gets a slot, runs, and ends.  A shell call that fails cancels    *)
(* its siblings.                                                           *)

Acquire(c) ==
  /\ task[c] = "queued" /\ SlotFree
  /\ Becomes(c, "running")
  /\ UNCHANGED <<kind, phase, offered, barrier, streamed, together, aborted,
                 cancelled, result>>

Beside(c) == phase # "one" /\ task[c] = "running"

Finish(c, r) ==
  /\ Beside(c)
  /\ Yields(c, r)
  /\ aborted' = (aborted \/ (kind[c].shell /\ r = "error"))
  /\ UNCHANGED <<kind, phase, offered, barrier, streamed, together, cancelled>>

FinishAlone(c, r) ==
  /\ phase = "one" /\ task[c] = "running"
  /\ Yields(c, r) /\ phase' = "batch"
  /\ UNCHANGED <<kind, offered, barrier, streamed, together, aborted, cancelled>>

-----------------------------------------------------------------------------
(* The rest of executeTools: what may not run in parallel, then what needs *)
(* approval, each group in call order.                                     *)

Solo   == {c \in Calls : c \notin streamed /\ Approved(c) /\ ~kind[c].parallel}
Asking == {c \in Calls : c \notin streamed /\ kind[c].verdict = "ask"}
ToRun  == {c \in Calls : task[c] = "none" /\ result[c] = "none"}

NextAlone(c) ==
  \/ IsFirst(c, Solo \cap ToRun)
  \/ Solo \cap ToRun = {} /\ IsFirst(c, Asking \cap ToRun)

RunAlone(c) ==
  /\ phase = "batch" /\ Rest = {} /\ NextAlone(c) /\ ~cancelled
  /\ Becomes(c, "running") /\ phase' = "one"
  /\ UNCHANGED <<kind, offered, barrier, streamed, together, aborted, cancelled,
                 result>>

\* The user refuses: the call does not run.
Refuse(c) ==
  /\ phase = "batch" /\ Rest = {} /\ NextAlone(c) /\ c \in Asking /\ ~cancelled
  /\ Yields(c, "denied")
  /\ UNCHANGED <<kind, phase, offered, barrier, streamed, together, aborted,
                 cancelled>>

\* All have run, or the context is found cancelled between two of them: the
\* results there are go to the conversation in call order, the calls without
\* one are left to the sweeper.
Commit ==
  /\ phase = "batch" /\ Rest = {}
  /\ (Solo \cup Asking) \cap ToRun = {} \/ cancelled
  /\ phase' = "over"
  /\ UNCHANGED <<kind, offered, barrier, streamed, task, together, aborted,
                 cancelled, result>>

Cancel ==
  /\ ~cancelled /\ phase \notin {"over", "discarded"} /\ cancelled' = TRUE
  /\ UNCHANGED <<kind, phase, offered, barrier, streamed, task, together, aborted,
                 result>>

-----------------------------------------------------------------------------
TaskStep(c) ==
  \/ StreamGivesUp(c) \/ Looks(c) \/ BatchGivesUp(c) \/ Acquire(c)
  \/ \E r \in {"ok", "error"} : Finish(c, r) \/ FinishAlone(c, r)

TurnStep ==
  \/ StreamEnds \/ Drain \/ Plan \/ EndBatch \/ Commit
  \/ \E c \in Calls : Offer(c) \/ StartBatch(c) \/ RunSerially(c) \/ RunAlone(c) \/ Refuse(c)

Next == TurnStep \/ Cancel \/ \E c \in Calls : TaskStep(c)

Spec == Init /\ [][Next]_vars

\* The goroutines run when they can; a tool's handler and the provider's
\* stream are assumed to end.
FairSpec == Spec /\ WF_vars(TurnStep) /\ \A c \in Calls : WF_vars(TaskStep(c))

-----------------------------------------------------------------------------
(* A call that is not safe to run beside others never does: neither beside *)
(* streamed calls nor beside its neighbours in the reply.                  *)
UnsafeRunsAlone ==
  \A c, d \in Running : c # d => Safe(c) /\ Safe(d)

(* The dispatches and the batches keep the reply's order around an unsafe  *)
(* call: of two approved calls, one of them unsafe, the later one does not *)
(* start before the earlier one is done.                                   *)
InTheLine(c) == Approved(c) /\ kind[c].parallel

UnsafeKeepsOrder ==
  \A c, d \in Calls :
    c < d /\ InTheLine(c) /\ InTheLine(d) /\ ~(Safe(c) /\ Safe(d))
      => (task[d] # "none" => task[c] = "done")

(* No more than maxParallelTools calls run at a time, streamed or batched. *)
ParallelismBounded == Cardinality(Running) <= MaxParallel

(* A call whose siblings failed is given up only for a reason: a shell     *)
(* call of its own batch failed, or the turn was cancelled.                *)
Siblings(c, d) ==
  /\ {c, d} \subseteq Batched
  /\ \A e \in Batched : (c <= e /\ e <= d) \/ (d <= e /\ e <= c) => Safe(e)

AbortHasCause ==
  \A c \in Calls : result[c] = "aborted" =>
    cancelled \/ \E d \in Calls : Siblings(c, d) /\ kind[d].shell /\ result[d] = "error"

(* What a cancelled batch leaves uncommitted has not run, and a batch that *)
(* was not cancelled leaves nothing.                                       *)
ResultsKept ==
  phase = "over" =>
    \A c \in Calls :
      /\ task[c] # "none" => result[c] # "none"
      /\ ~cancelled => result[c] # "none"

(* The turn gets past its tools.                                           *)
ToolsEnd == <>(phase \in {"over", "discarded"})
=============================================================================
