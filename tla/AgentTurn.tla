------------------------------ MODULE AgentTurn ------------------------------
(***************************************************************************)
(* The turn loop of internal/agent: one user prompt, up to MaxTurns calls  *)
(* of the model, the tools the model asks for, and what of it all reaches  *)
(* the conversation in memory, the message log and the resume snapshot.    *)
(*                                                                         *)
(* Turn() holds turnMu from the prompt to the last event, so the loop is a *)
(* sequential process; what runs against it is the context being           *)
(* cancelled, a panic in a hook or in the UI, and the process dying        *)
(* between any two steps.  A message, a prompt and a tool call are         *)
(* identified by the turn and the provider call they belong to; their text *)
(* is not modelled.                                                        *)
(***************************************************************************)
EXTENDS Naturals, Sequences, FiniteSets

CONSTANTS
  MaxPrompts,        \* bound of the model: calls of Turn()
  MaxCrashes,        \* bound of the model: deaths of the process
  MaxTurns,          \* Agent.maxTurns
  RecoveryLimit,     \* maxPromptTooLongRetries = maxOutputTokensRecoveryLimit
  MaxRepeatedRounds, \* maxRepeatedPendingToolRounds
  MinDrainPairs,     \* minDrainPairs
  Replies,           \* what a model may stream: [text, tools, stop]
  ProviderErrors,    \* classes of errors the provider call may return
  Compaction,        \* what Compact may do: subset of {"shrinks", "exhausted"}
  HookOutcomes,      \* what stop hooks may do: subset of {"message", "prevent"}
  Environment        \* what else may happen: subset of Happenings

ToolKinds    == {"safe", "serial", "ask", "deny", "complete"}
ErrorClasses == {"too_long", "max_tokens", "overloaded", "other"}
Happenings   == {"cancel", "panic", "skills_fail", "wake", "budget"}

ASSUME BoundsAssumption ==
  /\ MaxPrompts \in Nat /\ MaxCrashes \in Nat /\ MaxTurns \in Nat
  /\ RecoveryLimit \in Nat /\ MaxRepeatedRounds \in Nat
  /\ MinDrainPairs \in Nat \ {0}

ASSUME InputsAssumption ==
  /\ Replies \subseteq [text : BOOLEAN, tools : Seq(ToolKinds),
                        stop : {"end", "max_tokens", "error"}]
  /\ ProviderErrors \subseteq ErrorClasses
  /\ Compaction \subseteq {"shrinks", "exhausted"}
  /\ HookOutcomes \subseteq {"message", "prevent"}
  /\ Environment \subseteq Happenings

VARIABLES
  pc,         \* where the loop is
  turn,       \* prompts so far; the current one while a turn runs
  calls,      \* provider calls of the current turn
  ls,         \* loopState
  batch,      \* the tool calls of the last reply and how far they got
  cancelled,  \* ctx.Err() # nil
  exit,       \* TurnExitReason of the last turn that ended
  conv,       \* Conversation.messages
  log,        \* the session's rows of the messages table
  snap,       \* the session's row of session_snapshots
  crashes,
  ran,        \* history: tool calls whose handler ran in this process
  twice,      \* history: tool calls whose handler ran again
  delivered   \* history: final replies of the turns that completed

control == <<turn, calls, cancelled>>
store   == <<log, snap>>
history == <<ran, twice, delivered>>
vars    == <<pc, ls, batch, exit, control, conv, store, crashes, history>>

-----------------------------------------------------------------------------
(* Messages.  A tool call is named <<turn, call, k>>: the k-th tool_use of  *)
(* the reply to that provider call.  "ok" says of an assistant message that *)
(* it has text, of a result that a tool or its gate produced it and not the *)
(* sealing of an orphan.                                                    *)

Message(kind, id, uses, ok) ==
  [kind |-> kind, id |-> id, uses |-> uses, ok |-> ok]

User(t)                == Message("user", <<t>>, {}, TRUE)
Note                   == Message("note", <<turn, calls>>, {}, TRUE)
Assistant(id, n, text) == Message("assistant", id, 1..n, text)
Result(id)             == Message("result", id, {}, TRUE)
SealedResult(id)       == Message("result", id, {}, FALSE)
Tombstone              == Message("tombstone", <<>>, {}, TRUE)

ReplyId   == <<turn, calls>>
ToolId(k) == <<turn, calls, k>>
Uses(m)   == {<<m.id[1], m.id[2], k>> : k \in m.uses}

At(c, kind)    == {i \in DOMAIN c : c[i].kind = kind}
UsesIn(c)      == UNION {Uses(c[i]) : i \in At(c, "assistant")}
ResultsIn(c)   == {c[i].id : i \in At(c, "result")}
RealResults(c) == {c[i].id : i \in {j \in At(c, "result") : c[j].ok}}

LastAssistant(c) ==
  IF At(c, "assistant") = {} THEN 0
  ELSE CHOOSE i \in At(c, "assistant") : \A j \in At(c, "assistant") : j <= i

\* The calls in K, in call order.  (SetToSortSeq of SequencesExt, in a form that
\* can be reasoned about.)
InOrder(K) == CHOOSE s \in [1..Cardinality(K) -> K] :
                \A i, j \in DOMAIN s : i < j => s[i] < s[j]

SealsOf(m, K) == [i \in 1..Cardinality(K) |->
                    SealedResult(<<m.id[1], m.id[2], InOrder(K)[i]>>)]

\* Mutants of Sealed: answered calls are sealed again; an assistant message
\* that is not the last message is overlooked.
SealedAgain(c) ==
  LET a == LastAssistant(c) IN IF a = 0 THEN c ELSE c \o SealsOf(c[a], c[a].uses)
SealedIfLast(c) ==
  IF c # <<>> /\ LastAssistant(c) = Len(c)
  THEN c \o SealsOf(c[Len(c)], c[Len(c)].uses) ELSE c

\* SealOrphanedToolUses: error results for the unanswered tool_use blocks of
\* the most recent assistant message, and of that one only.
Unanswered(c, a) ==
  {k \in c[a].uses : \A i \in At(c, "result") :
                       i > a => c[i].id # <<c[a].id[1], c[a].id[2], k>>}
Sealed(c) ==
  LET a == LastAssistant(c)
  IN  IF a = 0 THEN c ELSE c \o SealsOf(c[a], Unanswered(c, a))

\* TombstoneSinceLastAssistant.
Tombstoned(c) ==
  LET a == LastAssistant(c)
  IN  [i \in DOMAIN c |-> IF i > a THEN Tombstone ELSE c[i]]

\* DrainMessages keeps the newest 2 * MinDrainPairs messages.  Its loop that
\* would move the cut past tool results tests for the role "tool_result";
\* NewToolResultMessage gives them the role "user", so it never moves.
Drainable(c) == Len(c) > MinDrainPairs * 2
Drained(c)   == SubSeq(c, Len(c) - MinDrainPairs * 2 + 1, Len(c))

\* One round of truncateStrategy: skip leading tool results, drop two more
\* messages, keep at least two.
Truncated(c) ==
  LET start  == CHOOSE s \in 0..Len(c) :
                  /\ \A i \in 1..s : c[i].kind = "result"
                  /\ s < Len(c) => c[s + 1].kind # "result"
      remove == IF start + 2 > Len(c) - 2 THEN Len(c) - 2 ELSE start + 2
  IN  SubSeq(c, remove + 1, Len(c))

Shrinkable(c) == "shrinks" \in Compaction /\ Len(c) > 2
Compacted(c)  == {c} \cup (IF Shrinkable(c) THEN {Truncated(c)} ELSE {})

\* normalizeMessages, the messages kept at the places they had: tombstones are
\* dropped, then the tool_use blocks no tool_result answers, then the messages
\* that leaves empty.  (That it also joins adjacent assistant messages is not
\* modelled.)
Request(c) ==
  LET Answered(m) == {k \in m.uses : <<m.id[1], m.id[2], k>> \in ResultsIn(c)}
      Pruned(m)   == IF m.kind = "assistant" THEN [m EXCEPT !.uses = Answered(m)] ELSE m
      sent == {i \in DOMAIN c :
                 /\ c[i].kind # "tombstone"
                 /\ c[i].kind = "assistant" => c[i].ok \/ Answered(c[i]) # {}}
  IN  [i \in sent |-> Pruned(c[i])]

-----------------------------------------------------------------------------
(* The state of one turn.                                                   *)

FreshLoop == [turnCount |-> 0, promptTooLong |-> 0, maxTokens |-> 0,
              escalated |-> 0, repeats |-> 0, lastSig |-> <<>>, nudged |-> FALSE]

\* results: calls with a result so far; todo: groups of calls still to run;
\* done: calls whose result is committed; after: what the batch is
\* followed by.
NoBatch == [tools |-> <<>>, text |-> FALSE, results |-> {}, todo |-> <<>>,
            done |-> {}, after |-> "next"]

Saved(c)  == [exists |-> TRUE, msgs |-> c]
NoSnap    == [exists |-> FALSE, msgs |-> <<>>]
Loaded    == IF snap.exists THEN snap.msgs ELSE log

\* SaveSnapshot replaces the session's row; its mutant keeps the first one.
SaveFirstSnapshot(c) == IF snap.exists THEN UNCHANGED snap ELSE snap' = Saved(c)
SaveSnapshot(c)      == snap' = Saved(c)

Init ==
  /\ pc = "idle" /\ turn = 0 /\ calls = 0 /\ cancelled = FALSE /\ exit = "none"
  /\ ls = FreshLoop /\ batch = NoBatch
  /\ conv = <<>> /\ log = <<>> /\ snap = NoSnap /\ crashes = 0
  /\ ran = {} /\ twice = {} /\ delivered = {}

\* hasMoreTurns, and its mutant.
HasMoreTurnsInclusive == ls.turnCount <= MaxTurns
HasMoreTurns          == ls.turnCount < MaxTurns

\* Whether the model may be asked to continue a cut-off reply; its mutant.
MayContinueInclusive == ls.escalated = 1 /\ ls.maxTokens <= RecoveryLimit
MayContinue          == ls.escalated = 1 /\ ls.maxTokens < RecoveryLimit

\* The loop returns; loopState and the executor are its locals.
EndTurn(reason) ==
  /\ pc' = "idle" /\ exit' = reason
  /\ ls' = FreshLoop /\ batch' = NoBatch
  /\ UNCHANGED <<control, crashes>>

GoTo(place) ==
  /\ pc' = place
  /\ UNCHANGED <<exit, crashes>>

-----------------------------------------------------------------------------
(* Turn.                                                                    *)

StartTurn ==
  /\ pc = "idle" /\ turn < MaxPrompts
  /\ GoTo("begun")
  /\ turn' = turn + 1 /\ calls' = 0 /\ cancelled' = FALSE
  /\ conv' = Append(conv, User(turn + 1))
  /\ log' = Append(log, User(turn + 1))
  /\ UNCHANGED <<ls, batch, snap, history>>

\* Compact and the first snapshot of the turn.
EnterTurn ==
  /\ pc = "begun"
  /\ GoTo("top")
  /\ conv' \in Compacted(conv)
  /\ SaveSnapshot(conv')
  /\ UNCHANGED <<ls, batch, control, log, history>>

\* Turn returns an error; the prompt stays in the conversation.
EnterTurnFails ==
  /\ pc = "begun" /\ "exhausted" \in Compaction
  /\ EndTurn("not_started")
  /\ UNCHANGED <<conv, store, history>>

\* EvaluateAndActivate fails before the first iteration.
SkillsFail ==
  /\ pc = "top" /\ calls = 0 /\ "skills_fail" \in Environment
  /\ EndTurn("skill_activation_failed")
  /\ UNCHANGED <<conv, store, history>>

-----------------------------------------------------------------------------
(* runLoop, from the head of the loop to the provider call.                 *)

OutOfTurns ==
  /\ pc = "top" /\ ~HasMoreTurns
  /\ EndTurn("max_turns")
  /\ UNCHANGED <<conv, store, history>>

SeeCancelled ==
  /\ pc = "top" /\ HasMoreTurns /\ cancelled
  /\ EndTurn("cancelled")
  /\ UNCHANGED <<conv, store, history>>

CompactionFails ==
  /\ pc = "top" /\ HasMoreTurns /\ ~cancelled
  /\ "exhausted" \in Compaction
  /\ EndTurn("compaction_failed")
  /\ UNCHANGED <<conv, store, history>>

\* A conversation that is still over the hard limit after Compact is forced
\* through it again, and saved whether that shortened it or not.
PrepareCall ==
  /\ pc = "top" /\ HasMoreTurns /\ ~cancelled
  /\ GoTo("call")
  /\ calls' = calls + 1
  /\ \E c \in Compacted(conv) :
       \/ conv' = c /\ UNCHANGED snap
       \/ conv' \in Compacted(c) /\ SaveSnapshot(conv')
  /\ UNCHANGED <<turn, cancelled, ls, batch, log, history>>

-----------------------------------------------------------------------------
(* streamWithRecovery.  A recovery returns to the head of the loop with the *)
(* turn count as it was.                                                    *)

CallStreams ==
  /\ pc = "call"
  /\ GoTo("recv")
  /\ UNCHANGED <<ls, batch, control, conv, store, history>>

\* reactiveCompact, or DrainMessages when that did not shorten the conversation.
RecoverTooLong ==
  /\ pc = "call" /\ "too_long" \in ProviderErrors
  /\ ls.promptTooLong < RecoveryLimit
  /\ \/ Shrinkable(conv) /\ conv' = Truncated(conv)
     \/ Drainable(conv) /\ conv' = Drained(conv)
  /\ GoTo("top")
  /\ ls' = [ls EXCEPT !.promptTooLong = @ + 1]
  /\ SaveSnapshot(conv')
  /\ UNCHANGED <<batch, control, log, history>>

TooLongFails ==
  /\ pc = "call" /\ "too_long" \in ProviderErrors
  /\ (ls.promptTooLong >= RecoveryLimit \/ ~Drainable(conv))
  /\ EndTurn("context_overflow")
  /\ UNCHANGED <<conv, store, history>>

\* The output limit is raised once per turn ...
Escalate ==
  /\ ls.escalated = 0
  /\ GoTo("top")
  /\ ls' = [ls EXCEPT !.escalated = 1]
  /\ UNCHANGED <<batch, control, conv, store>>

\* ... and then the model is asked to continue what it wrote.
Continue(partial) ==
  /\ MayContinue
  /\ GoTo("top")
  /\ ls' = [ls EXCEPT !.maxTokens = @ + 1]
  /\ conv' = Append(conv \o partial, Note)
  /\ log' = log \o partial
  /\ SaveSnapshot(conv')
  /\ UNCHANGED <<batch, control>>

RecoverMaxTokens ==
  /\ pc = "call" /\ "max_tokens" \in ProviderErrors
  /\ Escalate \/ Continue(<<>>)
  /\ UNCHANGED history

MaxTokensFails ==
  /\ pc = "call" /\ "max_tokens" \in ProviderErrors
  /\ ls.escalated = 1 /\ ~MayContinue
  /\ EndTurn("max_output_tokens")
  /\ UNCHANGED <<conv, store, history>>

\* The fallback model is tried within the same call.
FallBack ==
  /\ pc = "call" /\ "overloaded" \in ProviderErrors
  /\ conv' = Tombstoned(conv)
  /\ \/ GoTo("recv") /\ UNCHANGED <<ls, batch, control>>
     \/ EndTurn("provider_error")
  /\ UNCHANGED <<store, history>>

CallFails ==
  /\ pc = "call"
  /\ "other" \in ProviderErrors \/ cancelled
  /\ EndTurn("provider_error")
  /\ UNCHANGED <<conv, store, history>>

-----------------------------------------------------------------------------
(* consumeProviderStream and assembleAssistantTurn, for one streamed reply. *)

\* Calls started while the reply still streams: the safe ones up to the first
\* call that is an ordering barrier.  A call that is not concurrency-safe is one;
\* another may be, if it writes or if its approval hides that it is not safe.
Barriers(tools) ==
  {b \in DOMAIN tools : \A j \in 1..(b - 1) : tools[j] \notin {"serial", "complete"}}
Streamed(tools) ==
  IF tools = <<>> THEN {{}}
  ELSE {{k \in 1..b : tools[k] = "safe"} : b \in Barriers(tools)}

\* The handlers of the calls in K run; a gate of the pipeline, a sibling's
\* failure or the cancellation may stop a call before its handler.
RunSome(K) ==
  \E ids \in SUBSET {ToolId(k) : k \in K} :
    ran' = ran \cup ids /\ twice' = twice \cup (ids \cap ran)

\* The partial reply is discarded; calls already running finish and their
\* results go to the event channel only.
StreamFails(r) ==
  /\ r.stop = "error"
  /\ \E S \in Streamed(r.tools) : RunSome(S)
  /\ conv' = Sealed(conv)
  /\ EndTurn("provider_error")
  /\ UNCHANGED <<store, delivered>>

RecoverTruncated(r) ==
  /\ r.stop = "max_tokens" /\ r.tools = <<>>
  /\ Escalate \/ Continue(<<Assistant(ReplyId, 0, r.text)>>)
  /\ UNCHANGED history

\* A reply with neither text nor tools is given a placeholder text.
CommitReply(r) ==
  /\ r.stop # "error"
  /\ \/ r.stop = "end"
     \/ r.tools # <<>>
     \/ ls.escalated = 1 /\ ~MayContinue
  /\ GoTo("hooks")
  /\ LET m == Assistant(ReplyId, Len(r.tools), r.text \/ r.tools = <<>>)
     IN  conv' = Append(conv, m) /\ log' = Append(log, m)
  /\ \E S \in Streamed(r.tools) :
       /\ RunSome(S)
       /\ batch' = [NoBatch EXCEPT !.tools = r.tools, !.text = r.text, !.results = S]
  /\ UNCHANGED <<ls, control, snap, delivered>>

Receive ==
  /\ pc = "recv"
  /\ \E r \in Replies : StreamFails(r) \/ RecoverTruncated(r) \/ CommitReply(r)

\* runStopHooks.  A hook that prevents continuation ends the turn with the
\* reply's tool calls unanswered.
RunStopHooks ==
  /\ pc = "hooks"
  /\ \/ UNCHANGED conv
     \/ "message" \in HookOutcomes /\ conv' = Append(conv, Note)
  /\ \/ GoTo("tools") /\ UNCHANGED <<ls, batch, control>>
     \/ "prevent" \in HookOutcomes /\ EndTurn("stop_hook")
  /\ UNCHANGED <<store, history>>

-----------------------------------------------------------------------------
(* runToolPhase.                                                            *)

\* One group per call, in call order, for the calls in K.
Singly(K) == [i \in 1..Cardinality(K) |-> {InOrder(K)[i]}]

\* The calls executeTools has still to run; its mutant forgets that some were
\* streamed.
Remaining_WithStreamed == DOMAIN batch.tools
Remaining              == DOMAIN batch.tools \ batch.results

\* executeTools: streamed and denied calls have their results; the others run
\* as one parallel group, then the ones that may not run in parallel, then
\* the ones that need approval.
StartBatch(after) ==
  LET Of(kinds) == {k \in Remaining : batch.tools[k] \in kinds}
      parallel  == IF Of({"safe"}) = {} THEN <<>> ELSE <<Of({"safe"})>>
  IN  /\ GoTo("exec")
      /\ batch' = [batch EXCEPT
           !.results = @ \cup Of({"deny"}),
           !.todo = parallel \o Singly(Of({"serial", "complete"}))
                             \o Singly(Of({"ask"})),
           !.after = after]
      /\ UNCHANGED control

\* No tool calls: the reply is the answer.  No snapshot is taken.
Complete ==
  /\ pc = "tools" /\ batch.tools = <<>>
  /\ EndTurn("completed")
  /\ delivered' = delivered \cup {ReplyId}
  /\ UNCHANGED <<conv, store, ran, twice>>

StopForBudget ==
  /\ pc = "tools" /\ batch.tools # <<>> /\ "budget" \in Environment
  /\ StartBatch("budget")
  /\ UNCHANGED <<ls, conv, store, history>>

\* The budget's nudge enters the conversation once per turn, before the tool
\* results.  A batch that repeats the last one without any text, for the
\* MaxRepeatedRounds-th time, ends the turn and is not run.  Calls of the same
\* kinds may be the same calls.
Rounds == {1} \cup (IF ~batch.text /\ batch.tools = ls.lastSig THEN {ls.repeats + 1} ELSE {})

RunTools ==
  LET Has(kind) == \E k \in DOMAIN batch.tools : batch.tools[k] = kind
  IN  /\ pc = "tools" /\ batch.tools # <<>>
      /\ conv' = IF ls.nudged THEN conv ELSE Append(conv, Note)
      /\ \E n \in Rounds :
           IF n >= MaxRepeatedRounds
           THEN EndTurn("no_progress")
           ELSE /\ ls' = [ls EXCEPT !.nudged = TRUE, !.repeats = n, !.lastSig = batch.tools]
                /\ StartBatch(IF Has("complete") THEN "complete" ELSE "next")
      /\ UNCHANGED <<store, history>>

RunGroup ==
  /\ pc = "exec" /\ batch.todo # <<>> /\ ~cancelled
  /\ RunSome(Head(batch.todo))
  /\ batch' = [batch EXCEPT !.results = @ \cup Head(batch.todo), !.todo = Tail(@)]
  /\ UNCHANGED <<pc, ls, exit, control, conv, store, crashes, delivered>>

\* All groups ran, or the cancellation was seen before the next one.  The
\* mutant does not look at the context.
StopRunning_WhenDone ==
  /\ pc = "exec" /\ batch.todo = <<>>
  /\ GoTo("commit")
  /\ UNCHANGED <<ls, batch, control, conv, store, history>>
StopRunning ==
  /\ pc = "exec"
  /\ batch.todo = <<>> \/ cancelled
  /\ GoTo("commit")
  /\ UNCHANGED <<ls, batch, control, conv, store, history>>

\* commitToolResults, one result: in the order of the calls.
\* The mutants drop what a cancelled batch produced, and commit the results
\* in whatever order they came.
Uncommitted_Dropped == IF cancelled THEN {} ELSE batch.results \ batch.done
Uncommitted         == batch.results \ batch.done

NextResult_Any(k) == k \in Uncommitted
NextResult(k)     == k \in Uncommitted /\ \A j \in Uncommitted : k <= j

CommitResult ==
  /\ pc = "commit"
  /\ \E k \in Uncommitted :
       /\ NextResult(k)
       /\ conv' = Append(conv, Result(ToolId(k)))
       /\ log' = Append(log, Result(ToolId(k)))
       /\ batch' = [batch EXCEPT !.done = @ \cup {k}]
  /\ UNCHANGED <<pc, ls, exit, control, snap, crashes, history>>

\* The end of executeToolsSealingCancellation and of runToolPhase.
SettleCancelled ==
  /\ pc = "commit" /\ Uncommitted = {} /\ cancelled
  /\ conv' = Sealed(conv) /\ SaveSnapshot(conv')
  /\ EndTurn(IF batch.after = "budget" THEN "budget_exceeded" ELSE "cancelled")
  /\ UNCHANGED <<log, history>>

SettleAndStop ==
  /\ pc = "commit" /\ Uncommitted = {} /\ ~cancelled /\ batch.after # "next"
  /\ SaveSnapshot(conv)
  /\ EndTurn(IF batch.after = "budget" THEN "budget_exceeded" ELSE "task_complete")
  /\ UNCHANGED <<conv, log, history>>

\* A pending wake event of a background subagent is added after the snapshot.
SettleAndGoOn ==
  /\ pc = "commit" /\ Uncommitted = {} /\ ~cancelled /\ batch.after = "next"
  /\ GoTo("top")
  /\ SaveSnapshot(conv)
  /\ ls' = [ls EXCEPT !.turnCount = @ + 1]
  /\ batch' = NoBatch
  /\ \/ UNCHANGED <<conv, log>>
     \/ /\ "wake" \in Environment
        /\ conv' = Append(conv, Note) /\ log' = Append(log, Note)
  /\ UNCHANGED <<control, history>>

-----------------------------------------------------------------------------
(* What runs against the loop.                                              *)

Cancel ==
  /\ pc \notin {"idle", "down"} /\ "cancel" \in Environment /\ ~cancelled
  /\ cancelled' = TRUE
  /\ UNCHANGED <<pc, turn, calls, ls, batch, exit, conv, store, crashes, history>>

\* A hook, an approval callback or a provider panics; Turn recovers.
Panic ==
  /\ pc \notin {"idle", "begun", "down"} /\ "panic" \in Environment
  /\ conv' = Sealed(conv)
  /\ EndTurn("panic")
  /\ UNCHANGED <<store, history>>

\* The process dies or exits; what is not in the store is gone.
Crash ==
  /\ pc # "down" /\ crashes < MaxCrashes
  /\ pc' = "down" /\ crashes' = crashes + 1
  /\ conv' = <<>> /\ ls' = FreshLoop /\ batch' = NoBatch /\ ran' = {}
  /\ UNCHANGED <<exit, control, store, twice, delivered>>

\* ResumeSession: the snapshot if there is one, else the message log.
Resume ==
  /\ pc = "down"
  /\ pc' = "idle" /\ exit' = "resumed"
  /\ conv' = Sealed(Loaded)
  /\ UNCHANGED <<ls, batch, control, store, crashes, history>>

LoopStep ==
  \/ EnterTurn \/ EnterTurnFails \/ SkillsFail
  \/ OutOfTurns \/ SeeCancelled \/ CompactionFails \/ PrepareCall
  \/ CallStreams \/ RecoverTooLong \/ TooLongFails \/ RecoverMaxTokens
  \/ MaxTokensFails \/ FallBack \/ CallFails
  \/ Receive \/ RunStopHooks
  \/ Complete \/ StopForBudget \/ RunTools \/ RunGroup \/ StopRunning
  \/ CommitResult \/ SettleCancelled \/ SettleAndStop \/ SettleAndGoOn

Next == LoopStep \/ StartTurn \/ Cancel \/ Panic \/ Crash \/ Resume

\* The loop goes on whenever it can: provider calls, hooks, approvals and tools
\* return.  Nothing is assumed of the user, the context or the process.
Fairness == WF_vars(LoopStep)

Spec == Init /\ [][Next]_vars /\ Fairness

-----------------------------------------------------------------------------
(* Properties.                                                              *)

LoopStates == [turnCount : Nat, promptTooLong : Nat, maxTokens : Nat,
               escalated : {0, 1}, repeats : Nat, lastSig : Seq(ToolKinds),
               nudged : BOOLEAN]
Batches    == [tools : Seq(ToolKinds), text : BOOLEAN, results : SUBSET Nat,
               todo : Seq(SUBSET Nat), done : SUBSET Nat,
               after : {"next", "complete", "budget"}]
Messages   == [kind : {"user", "note", "assistant", "result", "tombstone"},
               id : Seq(Nat), uses : SUBSET Nat, ok : BOOLEAN]
ExitReasons == {"none", "not_started", "completed", "cancelled", "max_turns",
                "skill_activation_failed", "compaction_failed", "provider_error",
                "context_overflow", "max_output_tokens", "stop_hook", "no_progress",
                "task_complete", "budget_exceeded", "panic", "resumed"}
Working    == {"top", "call", "recv", "hooks", "tools", "exec", "commit"}

\* Every variable has its type, and the counters of one turn stay within the
\* limits the loop checks them against.
PlaceOK ==
  /\ pc \in Working \cup {"idle", "begun", "down"} /\ exit \in ExitReasons
  /\ turn \in 0..MaxPrompts /\ calls \in Nat /\ cancelled \in BOOLEAN
  /\ crashes \in 0..MaxCrashes

LoopStateOK ==
  /\ ls \in LoopStates
  /\ ls.promptTooLong <= RecoveryLimit /\ ls.maxTokens <= RecoveryLimit
  /\ ls.turnCount <= MaxTurns

BatchOK == batch \in Batches

MessagesOK ==
  /\ conv \in Seq(Messages) /\ log \in Seq(Messages)
  /\ snap \in [exists : BOOLEAN, msgs : Seq(Messages)]

HistoryOK ==
  /\ ran \subseteq Seq(Nat) /\ twice \subseteq Seq(Nat)
  /\ delivered \subseteq Seq(Nat)

TypeOK == PlaceOK /\ LoopStateOK /\ BatchOK /\ MessagesOK /\ HistoryOK

\* One prompt costs a bounded number of provider calls, whatever mix of
\* prompt-too-long retries, escalation, continuations and tool rounds it goes
\* through: each recovery gives its turn back (turnCount--) but has a limit of
\* its own.  (runLoop, streamWithRecovery, assembleAssistantTurn)
CallsBounded == calls <= MaxTurns + 2 * RecoveryLimit + 1

\* No tool call runs twice: what ran while the reply streamed is not run again
\* by executeTools.  (consumeProviderStream, executeTools)
NoToolTwice == twice = {}

\* Sealing a cancelled batch never says "did not complete" of a call whose
\* handler ran: its result is committed before the sweeper looks.
\* (commitAndReportCancelled, executeToolsSealingCancellation)
CancelSealsOnlyUnrun ==
  [][pc = "commit" /\ pc' = "idle" /\ exit' # "panic" =>
       \A i \in DOMAIN conv' : i > Len(conv) => conv'[i].id \notin ran]_vars

\* When the model is about to be called, every tool result the conversation
\* holds is also in the snapshot a resume would load: work that was reported to
\* the model is never forgotten by a crash.  (executeTools, loadSessionHistory)
SnapshotCoversResults ==
  pc \in {"top", "call"} => RealResults(conv) \subseteq RealResults(Loaded)

\* However a turn ends, every tool call of it that the conversation holds is
\* answered by a later message, or was answered before a fallback tombstoned what
\* followed it.  The two exits that seal nothing, no-progress and a stop hook,
\* leave open the calls of the reply they refuse and no other.
\* (SealOrphanedToolUses and its callers, runStopHooks, runToolPhase)
AnsweredIn(c, i, k) ==
  \E j \in DOMAIN c :
    /\ i < j
    /\ \/ c[j].kind = "tombstone"
       \/ c[j].kind = "result" /\ c[j].id = <<c[i].id[1], c[i].id[2], k>>

EveryUseAnswered ==
  pc = "idle" =>
    \A i \in At(conv, "assistant") :
      \/ conv[i].id[1] # turn
      \/ \A k \in conv[i].uses : AnsweredIn(conv, i, k)
      \/ exit \in {"no_progress", "stop_hook"} /\ conv[i].id = ReplyId

\* What is sent to the model pairs up: every tool result answers a tool call of
\* an earlier message, and no call is answered twice.  (normalizeMessages,
\* commitToolResults, SealOrphanedToolUses)
RequestWellFormed ==
  pc = "call" =>
    LET req == Request(conv)
    IN  \A i \in At(req, "result") :
          /\ \E j \in At(req, "assistant") : j < i /\ req[i].id \in Uses(req[j])
          /\ \A j \in At(req, "result") : req[j].id = req[i].id => j = i

\* The results of one reply appear in the conversation in the order of its tool
\* calls, in whatever order the tools ran.  (commitToolResults)
ResultsInCallOrder ==
  \A i, j \in At(conv, "result") :
    /\ i < j /\ conv[i].ok /\ conv[j].ok
    /\ <<conv[i].id[1], conv[i].id[2]>> = <<conv[j].id[1], conv[j].id[2]>>
    => conv[i].id[3] < conv[j].id[3]

\* Every turn that starts ends, or the process dies first.
TurnEnds == pc = "begun" ~> pc \in {"idle", "down"}

-----------------------------------------------------------------------------
(* What the repository says of the program and the program does not do.     *)

\* "All previous messages (user inputs and agent responses) are restored":
\* a resumed conversation holds every final reply that was delivered.
ResumeRestoresReplies ==
  exit = "resumed" /\ pc = "idle" =>
    delivered \subseteq {conv[i].id : i \in At(conv, "assistant")}
=============================================================================
