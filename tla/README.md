# Verification of rubichan

rubichan is a coding agent written in Go: a terminal or headless driver sends a
user's prompts to an agent, the agent asks a language model, runs the tools the
model asks for, and goes on until the model answers. This directory holds TLA+
models of the parts whose behaviour is hard to test, the TLC configurations that
check them on small instances, and TLAPS proofs of what holds for every value of
their constants.

Paths below are relative to the repository's root; `PROJECT.json` gives for every
definition of a model the lines it stands for, the hazards each property is for,
and the disagreements found between the code and what the repository says of it.

## How to run

    tlc -workers 2 -config AgentTurn_history.cfg MCAgentTurn.tla
    tlapm AgentTurn_proofs.tla

## Contents

| module | what it is |
| --- | --- |
| `AgentTurn` | the turn loop of `internal/agent`: prompt, provider calls, recoveries, tools, conversation, log, snapshot, crash and resume |
| `MCAgentTurn` | its instances: the replies the model may stream in each run |
| `AgentTurn_proofs` | type correctness, the bound on provider calls, no call run twice, results in call order |
| `UndoLog` | abstract specification: a log of edits that can be undone |
| `Checkpoint` | `internal/checkpoint` and the capture middleware: stack, memory budget, spill files, undo, rewind, disk faults |
| `MCCheckpoint` | its instance: two files, four contents |
| `UndoLog_proofs` | every noted edit can be undone |
| `Checkpoint_proofs` | spilled data is kept; `Checkpoint` implements `UndoLog`; every captured edit can be undone |
| `WsHub` | `internal/transport/ws`: connections, locks, sequence numbers, ring buffer, resume and replay, UI requests, turns, close |
| `MCWsHub` | its instances |
| `WsHub_proofs` | until the hub closes, every turn that is not cancelled can still be; a resumed client misses no event; types and capacities |
| `AcpConn` | `internal/acp/conn.go`: the read loop, requests in both directions, notifications, cancellation, the end of the stream |
| `MCAcpConn` | its instance |
| `AcpServe` | `internal/agent/acp_session.go` and `internal/acp/session.go` over `AcpConn`: handshake, one session, one turn |
| `MCAcpServe` | its instance |
| `Acp_proofs` | answers reach their own call, the loop never waits for a caller, no entry is lost, every request is answered, notifications keep their order; `AcpServe` implements `AcpConn`; one session, one turn |
| `ToolExec` | `internal/agent/stream_tool_exec.go`, `executeTools`, `internal/toolexec/batch.go`: the calls of one reply as goroutines |
| `MCToolExec`, `ToolExec_proofs` | its instance; exclusion, order, parallelism, no result lost, no call given up without a cause |
| `ProcManager` | `internal/tools/process_manager.go`: start, end, kill and shutdown of long-running processes |
| `MCProcManager`, `ProcManager_proofs` | its instance; the limit, that a kill ends its process, that the end is told once |
| `SkillRuntime` | `internal/skills/runtime.go`: discovery, activation and its rollbacks, deactivation |
| `MCSkillRuntime` | its instance: two skills with a tool name in common |
| `SkillRuntime_proofs` | one goroutine activates an object, no tool without an active skill, no backend unaccounted for |

## The system

### Turn loop (`internal/agent/agent.go`, `loopstate.go`, `provider_call.go`, `consume_stream.go`, `assemble_turn.go`, `tool_phase.go`, `conversation.go`)

State: the conversation (messages in memory), the message log and the snapshot
row in SQLite, and per turn `loopState` (turn count, recovery counters, repeat
detection) and the executor of the tools that were started while a reply
streamed.

Operations: `Turn` (append the prompt, compact, snapshot, start `runLoop`), the
head of the loop (cancellation, turn limit, compaction), `streamWithRecovery`
(prompt too long, output limit, overloaded model, fallback model),
`consumeProviderStream`, `assembleAssistantTurn`, stop hooks, `runToolPhase`,
`executeTools`, `commitToolResults`, and the sweeper `SealOrphanedToolUses` that
every failing exit calls, and `ResumeSession`.

What is hard: a dozen exits, each of which must leave the conversation in a form
the provider accepts; recoveries that take their turn back and must still end;
calls run early, in parallel, one by one or not at all, whose results must be
committed once and in call order; cancellation between any two of these steps; a
crash between the log and the snapshot, which are written at different moments.

What makes it correct: every tool call in the conversation is answered exactly
once and after it; no call runs twice; a result reported to the model survives a
crash; the cost of a prompt is bounded and the turn ends.

### Checkpoints (`internal/checkpoint/manager.go`, `internal/toolexec/checkpoint.go`)

State: a stack of file snapshots, the memory they use, spill files on disk and a
manifest that names them. Operations: `Capture` before a write, with eviction of
the oldest snapshots at the memory budget; `Undo`; `RewindToTurn`; the middleware
that calls `Capture` and goes on when it fails.

What is hard: the accounting of memory through evictions and restores; a rewind
that fails half way; a mix of writes to several files that must unwind to the
right content of each; turn numbers that restart with every prompt.

What makes it correct: whatever is in memory or on disk, the stack acts as a log
of edits that can be undone from the newest on.

### WebSocket hub (`internal/transport/ws/hub.go`, `client.go`, `buffer.go`, `server.go`)

State: the sessions and the clients of the hub under `Hub.mu`; per session the
clients, the pending UI requests and the cancel function of the last turn under
`SessionState.mu`, an atomic sequence number, and a ring buffer of the last
events; per client a bounded send channel and a `done` channel. Operations: the
handlers of client messages (create, resume, user message, UI response, cancel),
broadcasts by event sinks, by turns and by UI requests, `Send`, the two pumps of
a connection, and `Close`.

What is hard: two mutexes taken in two orders; events numbered, buffered and sent
in separate steps while clients resume; channels and buffers that overflow; a
session pointer read under one lock and used after it, while the hub closes.

What makes it correct: a client that resumes gets every event that is still
buffered or comes later; every turn can be cancelled, by `Close` too; a UI request
that is answered returns; the goroutines never wait for each other.

### ACP connection and its session (`internal/acp/conn.go`, `session.go`, `handshake.go`, `internal/agent/acp_session.go`)

State: the requests that wait for an answer by id (`pending`, a channel of one
each), whether the connection is closed, the bounded channel of notifications; the
handshake, whether the one session is claimed, and whether its turn runs.
Operations: `Serve` (read, dispatch, fail what is pending, drain), `Request`,
`Notify`, the goroutine of each request, the worker of the notifications,
`initialize`, `session/new`, `session/prompt`.

What is hard: calls in both directions over one stream whose end must release
both sides; a response that comes late, twice or after its call was cancelled;
the order of `failPending` and the drain; requests that the client pipelines, so
that their handlers race for one session and one turn.

What makes it correct: an answer reaches the call it belongs to and nothing else;
the read loop waits for nobody; when the stream ends every call returns and every
request taken has been answered; the agent hosts one session and one turn of it.

### Tool executors (`internal/agent/stream_tool_exec.go`, `agent.go`, `internal/toolexec/batch.go`)

State: the calls that were dispatched while the reply streams, the barrier, the
slots of the semaphore, the context the siblings of a batch share, the results by
call. Operations: offer a call, give up or end the stream, wait, plan the batches,
run a batch together or one by one, ask for approval, commit.

What is hard: goroutines that wait for a slot while the turn is cancelled or a
sibling fails; two executors, one of which starts before the reply is complete, and
which must together keep the order around a call that is not safe to overlap.

What makes it correct: such a call runs alone and in its place; a call is given
up only for a cause of its own; every call that ran has its result; the phase ends.

### Process tool (`internal/tools/process_manager.go`)

State: the map of processes (a placeholder while one is being started), each with
its status and a channel that closes at its end. Operations: `Exec`, `ReadOutput`,
`WriteStdin`, `Kill`, `List`, `Shutdown`, and the goroutine that waits for the end.

What is hard: the status is written by the killer and by the waiter; starting
happens outside the lock; a process may ignore SIGTERM, end on its own at any
moment, or be killed twice.

What makes it correct: the limit counts what is being started; a kill that returns
has ended its process or sent it SIGKILL; the end is told once.

### Skill runtime (`internal/skills/runtime.go`, `types.go`)

State: the discovered skill objects and the active ones, their lifecycle state,
the registry of tools, hooks and prompt fragments, the admission gate. Operations:
`Discover`, `EvaluateAndActivate`, `Activate`, `Deactivate`.

What is hard: an activation leaves the lock while it loads a backend; it may fail
at the load and at each registration; a discovery replaces the objects others hold.

What makes it correct: no backend, tool or hook is left without an active skill
behind it, one goroutine activates a skill, and none is stuck half way.

### The other parts

| part | state and operations | what is hard |
| --- | --- | --- |
| checkpoint recovery (`checkpoint/recovery.go`) | manifests of dead sessions; detect, recover, clean up | a crash between a spill and the manifest; undo that leaves stale entries |
| background subagents (`agent/wake.go`, `subagents`) | 16 wake slots, running tasks | a full channel blocks the task that completes |
| turn retry (`agent/turnretry.go`, `ratelimiter.go`) | attempts and backoff of one provider call | cancellation between attempts; a fallback taken once |
| compaction strategies, budgets (`agent/compaction_*.go`, `budget_*.go`) | messages rewritten under a token limit; counters | a call kept without its result; limits met exactly |
| subagents, memory and prompts of the agent (`agent/subagent.go`, `session_memory.go`, ...) | nested turn loops; notes kept between sessions | a parent that ends before its child |
| tool pipeline (`toolexec`) | order of validation, rules, approval, hooks | a gate that is passed by |
| agent teams (`team`) | mailboxes, coordinator | delivery to a member that stops |
| worktrees (`worktree`) | git worktrees, lock file | two processes creating and removing |
| approvals (`permissions`, `folderaccess`) | allow lists | verdict cached and changed later |
| sessions, runner, SDK (`session`, `runner`, `pkg/agentsdk`) | event sinks, headless driver, a smaller loop | events dropped at the end of a turn |
| providers, tools, shell, TUI, commands, knowledge graph, scanners, wiki, configuration, command line, test helpers | clients of HTTP, files and processes; rendering; parsing | input and output rather than states of their own |

How they interact: the drivers call `Turn` and read its channel of events; the
loop calls the provider, the skill runtime (prompt fragments, hooks), the tool
pipeline (whose middleware captures checkpoints) and the store; background
subagents reach the loop through the wake channel; the hub and the ACP server
are drivers that forward events to remote clients and approvals back.

## AgentTurn

`Turn` takes `turnMu` and keeps it until the last event of the turn, so the loop
is one sequential process and `pc` is the place it has reached; what runs against
it is the cancellation of its context, a panic, and the death of the process.

| model | code |
| --- | --- |
| `conv`, `log`, `snap` | `Conversation.messages`; the rows of `messages` and `session_snapshots` |
| `ls` | `loopState` |
| `batch` | the tool calls of the last reply: `results` so far, groups `todo`, committed (`done`) |
| `StartTurn`, `EnterTurn`, `EnterTurnFails` | `Turn` up to the goroutine |
| `OutOfTurns`, `SeeCancelled`, `CompactionFails`, `SkillsFail`, `PrepareCall` | the head of `runLoop` |
| `CallStreams`, `RecoverTooLong`, `TooLongFails`, `RecoverMaxTokens`, `MaxTokensFails`, `FallBack`, `CallFails` | `streamWithRecovery`, by class of error |
| `Receive` (`StreamFails`, `RecoverTruncated`, `CommitReply`) | `consumeProviderStream` and `assembleAssistantTurn` |
| `RunStopHooks` | `runStopHooks` |
| `Complete`, `StopForBudget`, `RunTools`, `SettleCancelled`, `SettleAndStop`, `SettleAndGoOn` | `runToolPhase` and the end of `executeTools` |
| `RunGroup`, `StopRunning`, `CommitResult` | the groups of `executeTools`, the check of the context between them, `commitToolResults` |
| `Panic`, `Crash`, `Resume` | the deferred recovery in `Turn`; the end of the process; `ResumeSession` and `loadSessionHistory` |
| `Sealed`, `Tombstoned`, `Drained`, `Truncated`, `Request` | `SealOrphanedToolUses`, `TombstoneSinceLastAssistant`, `DrainMessages`, `truncateStrategy`, `normalizeMessages` |

A message is identified by the turn and the provider call it belongs to, a tool
call by its place in the reply. A reply is any member of the constant `Replies`;
its tool calls are of five kinds, which is what the loop distinguishes: `safe`
(parallel and auto-approved), `serial` (auto-approved, one by one), `ask` (needs
approval), `deny` (refused by the gate) and `complete` (the tool that ends the
task).

### Runs

| run | shows |
| --- | --- |
| `AgentTurn_faults` | one prompt under every error class, compaction that shrinks or is exhausted, stop hooks, cancellation, panic, budget and wake: counters stay within their limits (`TypeOK`), the number of provider calls is bounded (`CallsBounded`), no exit leaves a call of the turn unanswered, except that the two that seal nothing leave those of the reply they refuse (`EveryUseAnswered`), and the turn ends (`TurnEnds`) |
| `AgentTurn_history` | two prompts with batches that mix parallel, serial and approved calls, cancelled anywhere and with one crash and resume: no call runs twice (`NoToolTwice`), what was reported to the model is in what a resume loads (`SnapshotCoversResults`), each request pairs results with earlier calls (`RequestWellFormed`), results are in call order (`ResultsInCallOrder`), and cancellation seals only what did not run (`CancelSealsOnlyUnrun`) |
| `AgentTurn_resume` | `ResumeRestoresReplies`, violated: a resumed session has lost the final reply, because the snapshot is preferred to the log and no snapshot follows the last reply |

Bounds. Two turns of the loop, one recovery of
each kind and two or three repeated rounds are the least values at which each
limit is both within reach and not yet reached; batches have up to three calls,
enough for a call of one group between two of another. Two prompts let one turn
follow an interrupted one; one crash is enough because a resume depends on the
log and the snapshot alone. The runs share these bounds with the code's own
constants (`MaxTurns`, `RecoveryLimit`, `MaxRepeatedRounds`, `MinDrainPairs`);
`MaxPrompts` and `MaxCrashes` are bounds of the model. Deadlock is not checked:
when `MaxPrompts` is reached the user has stopped asking.

Fairness. `WF_vars(LoopStep)`: provider calls, hooks, approvals and tools return,
and the reader of the events drains the channel, so a step of the loop that stays
enabled is taken. Every blocking call in the loop takes the turn's context or a
timeout. Nothing is assumed of the user, the cancellation or the process: `TurnEnds`
allows for its death.

Abstractions. `RunSome` lets any subset of a group reach its handlers, which
stands for the gates of the pipeline, the sibling abort and the cancellation;
`ToolExec` models how they come about.
`Streamed` gives every set of calls the executor may have started early: a call that
is not safe to overlap is always a barrier, another one may be (it writes, or its
approval hides that it is not safe). Two rounds with calls of the same kinds may be
the same calls or not (`Rounds`); the code compares names and inputs. One round of
truncation stands for the compaction strategies. `Compact` and the hooks are taken at
their outcomes; `PrepareCall` saves the conversation after a forced compaction whether
that shortened it or not. The budget's nudge is emitted once per turn,
as it is when the context window is larger than the output limit; other configurations, which
leave no room for a conversation, are not modelled.

`EveryUseAnswered` covers every exit. Two of them return without sealing, the repeat
detection (`no_progress`, `tool_phase.go:78`) and a stop hook: they leave open the calls
of the reply they refuse, which are the only ones the property excepts. Those
are sealed by a later stream error, cancellation, panic or resume at best, although
`docs/superpowers/plans/2026-04-13-agent-loop-hardening.md:15` wants every call
answered before the loop exits. A result a fallback has made a tombstone of counts: what it
answered is in the conversation without its answer, and `Request` drops it. Among the
replies of `AgentTurn_faults` is one of a single safe call without text, so that the
repeat detection is reached.

## Checkpoint and UndoLog

`UndoLog` says what checkpoints promise, with no memory and no disk: an edit is
announced and noted with the content before it, or not noted and then the file is
`lost`; the newest edits can be undone, each file going back to the content
before the oldest of them.

`Checkpoint` is the code: `Capture` with `CaptureLarge` (written to disk at once)
and `CaptureSmall` (which evicts the oldest while the budget is passed),
`CaptureFails`, `Write`, `WriteFails`, `Undo`, `RewindToTurn` (`Popped`, `Reverted`), and the turn
numbers of the loop (`NextTurn`, `NewPrompt`). With `DiskFaults`, evictions,
removals of spill files and restores may fail, a rewind stopping half way
(`RestoreStops`). Every scan for something to evict tries all candidates again, so
with a disk that fails now and then any of them may be what was evicted (`Evicts`). A
write that fails, of the file tool or of a restore, may leave its file truncated
(`Truncations`); the abstract log allows for it (`UndoStops`), and the checkpoint that
was to be restored is still there to try again. The file tool is a barrier of the executor and `/undo` is read between turns, so at
most one write is pending.

| run | shows |
| --- | --- |
| `Checkpoint_storage` | with disk faults: `memUsed` is the size of what is in memory (`MemAccounted`); the budget is kept as long as evictions reach the disk (`BudgetKept`); what was spilled can be read (`SpillsKept`); the stack implements `UndoLog` (`RefinesUndoLog`); files with captured writes can be brought back (`EditsUndoable`) |

Bounds. Sizes 0, 1, 2 and 4 with a threshold of 2 and a budget of 3: absent files,
files that fit together, files that push each other out, and files that go
straight to disk. Two files and three edits give one file edited twice around the
other; two turn numbers are enough for one to come back. Deadlock is checked.

## WsHub

Every goroutine of the hub is a process: the `readPump` of a connection (`conn[c]`,
with the handler it is in), each broadcast (`task[s]`), and the caller of `Close`.

| model | code |
| --- | --- |
| `hOwner`, `sOwner` | `Hub.mu`, `SessionState.mu`, while they are held across another wait |
| `session`, `attached`, `members` | `Hub.sessions`, `Hub.clients`, `SessionState.Clients` |
| `seq`, `buffer` | `SessionState.seq`, the ring buffer |
| `open`, `outbox` | `Client.done` not closed, `Client.send` |
| `uiWait`, `answers` | `SessionState.uiWait`, response channels that are full |
| `turn`, `current` | the contexts of the turns; the one `SessionState.cancel` cancels |
| `peer`, `got` | the remote client: the connection it uses, what each brought it |
| `Connect`, `Drop`, `WritePump`, `Send` | `handleWebSocket`, `Client.close`, `writePump`, `Client.Send` |
| `Create`, `Register`, `Join` | `handleSessionCreate`, `registerClient` |
| `Resume`, `Snapshot`, `Gap`, `Attach`, `Replay` | `handleSessionResume`, `snapshotAndRegisterClient` |
| `UserMessage`, `Swap`, `CheckTurn`, `StartTurn`, `EndTurn` | `handleUserMessage`, `Agent.Turn` of the SDK, the goroutine that reads the turn's events |
| `CancelMessage`, `UIResponse` | `handleCancel`, `handleUIResponse` |
| `Unregister`, `Leave` | `unregisterClient` when `readPump` returns |
| `Emit`, `Request`, `Number`, `Return` | `Emit`, `SessionEmitter`, `BroadcastTurnEvent`; `requestFromSession` |
| `PushEvent`, `Push`, `SnapshotClients`, `SendLive`, `Publish` | `broadcastToSession` and `RingBuffer.Push` |
| `CloseHub`, `CloseSessions`, `CloseClient`, `doomed` | `Close`, which takes `h.mu` and then each `ss.mu`, and closes the clients it had (`doomed`) one by one after `h.mu` |

A critical section that waits for nothing inside is one step; those that take a
second lock with the first held are two. An event is its number.

| run | shows |
| --- | --- |
| `WsHub_delivery` | two goroutines that broadcast, a client that loses its connection and resumes, a ring buffer and a send channel of one entry: a connection that is still up and has nothing outstanding has brought every event after its `last_seq` that was buffered at the resume or came later (`NoEventMissed`) |
| `WsHub_turns` | user and cancel messages on two connections, a UI request that delays the end of a turn, and `Close` at any moment: as long as the hub has the session, a turn that starts or runs and is not cancelled is the one the cancel function stands for (`TurnCancellable`), and a UI request answered at any moment after its broadcast, before its wait included, returns unless the two locks are held against each other (`AnsweredRequestReturns`) |
| `WsHub_locks` | `NoLockCycle`, violated: both locks are held by goroutines that wait for the other one |

Bounds. Two connections are one that is lost, lingers and is still served, and one
that resumes; two broadcasts overlap and overflow a buffer of one entry. The
delivery run has also been checked once with three events and a buffer of two
(7,051,949 states, two and a half minutes; set `MaxEvents = 3`, `Capacity = 2`).
Two turns are one that is replaced and one that replaces it. `Capacity` and
`SendBuffer` are the code's own limits; `MaxConns`, `MaxEvents`, `MaxTurns` and
`MayClose` bound the model. Emitters are interchangeable, hence the symmetry of the delivery run, which checks
invariants only. Deadlock is not checked: the hub may deadlock (`WsHub_locks`), and
the peer may stop asking.

Fairness. Weak fairness of what each `readPump` does on its own, of each broadcast
once it has begun, and of `Close` once it holds its lock: goroutines that can go on
are scheduled. Nothing is assumed of the peer, the network, the agent or the
emitters: an event may never come, a client may never answer.

Abstractions. One session and one remote client that reconnects; a connection
resumes at most once and only when it is not attached. Messages without a sequence number
(session info, lists, pongs, errors) are left out, so they take no place in the
send channel. The peer answers a UI request only after it got it. `Publish` is the
read of the bridges under `h.mu`; what a bridge does with an event is outside.
`Hub.Request` without a session in its context looks for the only session that has
clients, which here is the one. The agent is the SDK's: `Turn` looks at its
context, waits for the turn before it, and runs.

A message that is being handled while the hub closes may start its turn afterwards.
Its session still holds the cancel function, but the hub has forgotten the session
and the client, so no later message and no second `Close` gets to it: only a user message that
was under way as well can replace the turn. `TurnCancellable` therefore speaks of the time
in which the hub has the session, and of no turn that escapes `Close`. `UIResponse` is one step where
the code looks the request up and then sends: the channel is buffered, so the send waits for
nobody, and if the request goes in between the answer ends in a channel nobody reads.

## AcpConn and AcpServe

`AcpConn` is the connection with any handlers: the loop of `Serve`, the worker of
the notifications, a goroutine per request, and the calls of `Request` by those
goroutines and by others.

| model | code |
| --- | --- |
| `unsent`, `noted`, `replies`, `inbox`, `eof`, `writer` | the peer and the two directions of the stream |
| `loop`, `inHand` | where `Serve` is, and the message `dispatch` holds |
| `pending`, `nextID`, `closed`, `notes` | the fields of `Conn` |
| `slot[c]` | the channel of capacity one a call of `Request` waits on |
| `ReadRequest`, `ReadMalformed`, `ReadNote`, `Push`, `PushGivesUp` | `serveRequest` |
| `ReadResponse`, `Route` | `routeResponse`: take the entry out of `pending`, then send without the lock |
| `Stop`, `FailPending`, `DrainInFlight` | the end of `Serve`: `failPending`, then `drainInFlight` |
| `TakeNote`, `FinishNote` | the worker |
| `Register`, `SendCall`, `Receive`, `GiveUp`, `Reclaim` | `Request`, and its deferred removal |
| `Notify`, `NotifyWrites`, `Answer` | `Notify` by a handler; the answer to a request |

`AcpServe` adds the handlers of `ServeACP`, each a process of its own on the
connection: `Refuse`, `Initialize`, `NewSession` with `AddSession` or `ReleaseSole`,
`BeginTurn` and `EndTurn`.

| run | shows |
| --- | --- |
| `AcpConn_calls` | calls in both directions while the peer answers late, twice, to unknown ids or never, and the stream breaks or ends: an answer is returned by its own call (`OwnAnswer`); the loop never waits for a caller (`RoutingNeverBlocks`); no entry stays in `pending` (`NoEntryLeaked`); a `Serve` that was not cancelled has answered every request it took (`AnsweredBeforeReturn`); every call returns once `Serve` is over (`NoCallerLeftWaiting`); the end of the stream ends `Serve` although handlers may be in the middle of a call (`ServeEnds`) |
| `AcpServe_sessions` | a client that pipelines its requests and may stop reading: one session, whose slot a failed `session/new` gives back (`SoleSession`); one turn at a time, and the slot free when no turn runs (`TurnSlot`); notifications in the order they were sent, none dropped (`NotesInOrder`) |

Bounds. `AcpConn_calls`: one request whose handler may call, one caller outside, one
notification and two responses, so that one call can be answered twice, or be
answered under the other's id; a malformed request and a writer that stalls are in
`AcpServe_sessions`, which has one `initialize`, two `session/new`, two
`session/prompt`, a malformed request and two notifications through a channel of one
place. The inbox of one message loses nothing: the peer chooses what it sends when
the loop has taken the last one. `MaxNotes`, `MaxInbox` and `MaxAnswers` are bounds
of the model, `Backlog` is the code's. Requests of one method are interchangeable,
hence the symmetry of `AcpServe_sessions`, which checks invariants only. Deadlock is
not checked: `Serve` ends, and a peer may fall silent.

Fairness (`AcpConn` only). The loop, the worker and the calls are goroutines that run
when they can. A handler returns, but may send any number of notifications first,
so its answer needs strong fairness: each notification disables it for a while. Nothing
is assumed of the peer or of any context, so the liveness properties except a peer
that keeps the stream open and does not read.

Abstractions. Ids are numbers given out in order; parameters and results have no
content. What `session/prompt` runs is between `BeginTurn` and `EndTurn`, with
`Notify` for its updates; its turn is that of `AgentTurn`. It has no context of the
connection (`session.go:310`), so it may outlive a cancelled `Serve`.

## ToolExec

The calls of one reply, each with the kind the executors ask about: safe to overlap,
a shell tool, the verdict of the approval, the parallel policy, a write.

| model | code |
| --- | --- |
| `phase` | where the turn is, from the stream to `commitToolResults` |
| `task[c]`, `result[c]` | the goroutine of a call (`queued` waits for a slot), its result |
| `barrier`, `streamed`, `aborted`, `together` | `barrierSeen`, the futures, the sibling context, the batch that runs |
| `Offer`, `StreamGivesUp`, `StreamEnds` | `OnToolFinalized` with `Dispatch`; a failed stream with its `Discard`; a complete one |
| `Drain`, `Plan` | `Drain`; the division into batches, sequential calls and refusals |
| `StartBatch`, `Looks`, `Acquire`, `BatchGivesUp`, `EndBatch` | `executeConcurrently` |
| `RunSerially`, `FinishAlone` | `executeSerially` |
| `NextAlone`, `RunAlone`, `Refuse` | the sequential rest of `executeTools` |
| `Finish`, `Commit`, `Cancel` | a handler that returns; `commitToolResults`; the turn's context |

`ToolExec_batches` checks every reply of four calls of six kinds (a read, an edit, a
shell query that is safe to overlap, a call the parallel policy keeps out, one that
needs approval, one that is denied), with a failing call and a cancellation at any
moment: types, and that what is done has a result (`TypeOK`); a call that is not safe
to overlap runs alone (`UnsafeRunsAlone`) and in its place among the approved ones
(`UnsafeKeepsOrder`); a call is aborted because a shell call of its own batch failed
or the turn was cancelled (`AbortHasCause`); when the phase is over what ran has its
result, and without a cancellation every call has (`ResultsKept`); and the phase ends
(`ToolsEnd`). Four calls give two batches of two, a batch around an unsafe call, and
with `MaxParallel = 2` a call that waits for a slot behind two others. Weak fairness
of the turn and of each goroutine: handlers and the provider's stream end. Deadlock is
not checked, because the phase is over at the end.

## ProcManager

Every call of `Exec` stands for its process; `Callers` are the calls of the other
methods. A step is what the code does between two releases of a lock.

| model | code |
| --- | --- |
| `exec[p]`, `entry[p]`, `status[p]` | where `Exec` is; the entry of the map; `managedProcess.status` |
| `os[p]`, `forced` | the process, and whether it was sent SIGKILL |
| `waiter[p]` | `waitLoop`: `Reap`, `MarkExited`, `CloseDone` |
| `Reserve`, `StartFails`, `Start`, `Publish`, `ExecReturns` | `Exec` |
| `Find`, `Read`, `Write`, `UsePlaceholder` | the look-up of each method and what it does with the entry |
| `Terminate`, `Grace`, `SendKill`, `MarkKilled`, `Await`, `Killed` | `killProcess` |
| `Shutdown`, `ShutdownNext`, `ShutdownEnds` | `Shutdown` over its snapshot of the map |

`ProcManager_ends`: two processes for one place and two concurrent calls, the least
with which two calls of `Exec`, two kills, a kill and a shutdown, and each with the
process's own end race. What is alive and not told to die, with what is being
started, stays within the limit (`LimitKept`); after a kill or a shutdown's turn the
process is dead or was sent SIGKILL (`EndedIsEnded`); a status once told stays
(`StatusFinal`); a kill or a shutdown whose entries are those of published processes
comes back, and does not panic (`KillsReturn`).

A call that holds the placeholder of a process being started ends in `panicked` when it
comes to it, where the code dereferences nil (`UsePlaceholder`); a `Shutdown` then leaves
the rest of its list alive. `KillsReturn` leaves out the calls that hold a placeholder,
and no others.

Fairness: goroutines and calls go
on when they can, and the system ends what was sent SIGKILL; a process need not end
on its own. The output of a process, its buffer and the goroutine that fills it are left
out; SIGTERM changes nothing by itself: a process may end at any moment, or never.

## SkillRuntime

| model | code |
| --- | --- |
| `current`, `active` | `rt.skills`, `rt.active`: which of the skill's objects they point to |
| `state[n][v]` | `Skill.State` of an object |
| `registry`, `wired`, `loaded` | names in the registries, hooks and prompts, backends loaded and not unloaded |
| `Scan`, `Discover` | `Discover`: the loader outside the lock, the objects under it |
| `Evaluate`, `EvaluateNext` | `EvaluateAndActivate` |
| `Activate`, `Refused`, `AlreadyActive`, `Begin`, `Load`, `LoadFails`, `Register`, `RegisterFails` (`Registered`, `TakenBack`), `Unload` | `Activate` with its rollbacks |
| `Deactivate`, `SetToolAdmissionFunc`, `DiskChanges` | those methods; the skill directories |

`SkillRuntime_activation`: two skills that share a tool name, two goroutines, two
objects per skill, so that one discovery can come between any two steps of an
activation. Every backend loaded belongs to the active skill or to a goroutine
about to register or unload it, and hooks are there once (`BackendsAccounted`, for
skills that register a name: see below); a registered tool has an active skill
(`NoOrphanTools`); an object is activated by one goroutine to the end
(`OneActivator`) and is not left in `activating` (`ActivationsSettle`), under weak
fairness of a goroutine inside a call: the factories and the backends return. Deadlock is
not checked: `MaxObjects` bounds the discoveries.

A registration that fails (`RegisterFails`) has registered any of the names that were
free (`Registered`) before it came to one that was not; the rollback takes them back
(`TakenBack`), by name and from a registry that does not ask who put them there. The
runtime's lock is held from the first name to the last rollback, so this is one step for
everything that goes through the runtime. A turn reads the tool registry under a lock of
the registry's own and may see a name half way; that is not modelled.

What `rt.skills` shows as active need not be loaded: a discovery replaces the object, and a
deactivation then changes the old one. `BackendsAccounted`, `NoOrphanTools` and
`OneActivator` hold all the same, because they count what `rt.active` knows: none of them
would see the object that stays active.

## What the models show besides

Each of these is what the code does and a model does too. The passing runs hold with
it; where a property would deny it, the property says what it leaves out.

- The fallback to another model tombstones what follows the last assistant message,
  the prompt included (`conversation.go:217`); `provider_call.go:118` speaks of
  partial messages only. `FallBack`.
- Calls are regrouped by approval and policy (`agent.go:1837`), so a read may run before a
  write that stands ahead of it and needs approval, against
  `consume_stream.go:93`. `RunGroup`, `Batched`.
- `DrainMessages` tests for the role `tool_result` (`conversation.go:133`), which no message
  has, so a result may become the first message, against `:122`. `Drained`.
- Turn numbers restart with every prompt, so `rewindLocked` (`manager.go:286`) may keep
  checkpoints of later turns, against `:267`. `NewPrompt`, `Cutoff`.
- The test for a gap in the ring buffer (`hub.go:124`) asks for no entries after
  `last_seq` and an oldest entry above it, which exclude each other: a resume is never
  refused. `Gap`.
- The replay is sent after `ss.mu` is released, so a live event may come first
  (`hub.go:607`, against `:605`). `Replay`.
- A user message handled while the hub closes may start its turn after `Close` has
  cancelled the session's turns and forgotten the session (`hub.go:511`, against `:753`
  and `:775`). `Swap`, `CloseSessions`.
- While the reply streams, calls that are safe to overlap are dispatched without asking
  the parallel policy (`consume_stream.go:77`, against `agent.go:266`). `Eligible`.
- The placeholder of a process that is being started can be found by every method and
  has no command or pipes (`process_manager.go:123`), so a call on it dereferences
  nil, against `:54`. `UsePlaceholder`.
- `Discover` replaces the object of an active skill (`runtime.go:129`); `Deactivate` sets the
  state of the old one (`:526`), the new one stays active, and a later activation
  fails at `TransitionTo` (`:230`), which ends the turn that triggered it
  (`agent.go:1438`), against `:458`. `Deactivate`, `Refused`.
- A discovery during an activation leaves a fresh object that a second goroutine can
  activate. The registry turns that one away, but only if the skill registers a name;
  otherwise the first backend is lost.

## Proofs

All are checked by `tlapm` from nothing.

- `AgentTurn_proofs`: `TypeCorrect` (`Spec => []TypeOK`), `CostBounded`
  (`Spec => []CallsBounded`), `ToolsRunOnce` (`NoToolTwice`) and `ResultsOrdered`
  (`ResultsInCallOrder`). The inductive invariant `IInv` adds to the types
  the accounting `CallsPaid`: a provider call is paid for by a turn, a
  prompt-too-long retry, the escalation or a continuation, so `calls` equals the
  sum of the counters, plus one while a call is under way. `CallsBounded` alone is
  not inductive: only the sum relates the calls to the limits the loop checks.
  `OnceInv` adds what separates one reply from the next: what ran is named after a
  provider call made earlier, and of the current reply it has its result or is not
  among the groups still to run, which are disjoint. `OrderInv` says that results are
  committed in ascending order and that every other step only thins the conversation,
  the log and the snapshot, or copies one to another.
  `SnapshotCovers` (`SnapshotCoversResults`): from the head of the loop until the next
  batch, not only when the model is called, a resume would load every result the
  conversation has (`Covered`).
  `UsesAnswered` (`EveryUseAnswered`), for every exit: each call of the last reply has
  its result or waits in a group still to run, and no other call of the turn is open,
  except while a batch runs or waits to be refused, when the reply is at a known place with
  the results committed so far behind it (`AnswerInv`). So the exits that seal nothing
  can leave open that reply's calls and no others.
  `CancelSealsUnrun` (`CancelSealsOnlyUnrun`): once a batch is over, what ran of it has a
  result (`RanCommitted`), and the results are committed before the sweeper looks.
  `NoSecondAnswer` and `RequestsPaired` (`RequestWellFormed`) share `PairInv`: replies
  and results have names of their own, a result stands behind its reply, and nothing is
  named after the call under way. The first holds without a condition. The second
  assumes `NoCuts`, that neither a compaction nor a prompt-too-long error cuts the front
  of the conversation off: such a cut may take a call and leave its result, so the
  request could then hold a result without its call. The run that checks it makes the
  same assumption.
- `UndoLog_proofs`: `AlwaysRestorable`. The invariant says that the oldest entry of
  a file holds its original content, that a file without entries is unchanged
  unless it is lost, and that a pending file has been noted or is lost.
- `Checkpoint_proofs`: `SpillsAlwaysKept`, `ImplementsUndoLog` and
  `EditsAlwaysUndoable`. The invariant: identifiers grow along the stack
  (`IdsGrow`), what is in memory has no spill file (`MemoryUnspilled`), spill
  files belong to identifiers already given out (`SpillsOld`) and every spilled
  checkpoint has its file (`SpillsKept`). Without the first three an eviction or
  a removal could touch the file of another checkpoint. Every action is shown to be
  a step of `UndoLog` or to leave it unchanged, and `EditsAlwaysUndoable` follows from
  the refinement and `AlwaysRestorable`.
  `TypeCorrect`, `MemAlwaysAccounted` (`MemAccounted`), `BudgetAlwaysKept`
  (`BudgetKept`): `memUsed` is the sum of the sizes in memory and each of those is the
  size of the content it stands for (`Accounted`). The budget needs both: when every
  candidate is evicted and the new checkpoint still does not fit, what stays in memory
  are records of absent files, whose size is 0, and a checkpoint kept in memory is
  below the spill threshold. The sum is the library's fold over a set. Its facts (it
  exists, any element may be taken first, it is additive over disjoint sets) are proved
  by a least counterexample over the size of the set.
- `WsHub_proofs`: `TurnsStayCancellable` (`Spec => []TurnCancellable`), while the hub has the session. A turn is known to the
  handler that started it before it runs, so the invariant ties `turn` to the
  places of the handlers: a turn is given out once (`started`), and whoever
  replaces `current` cancels the turn it stood for in the same critical section.
  `TypeCorrect` and `ResumeMissesNothing` (`NoEventMissed`). The property speaks of a
  client with nothing outstanding; the invariant says where each event is before
  that. An event with a number is in the ring buffer, was pushed out of it, or its
  broadcast is about to push it (`Buffered`); so at a resume, what the client may not
  miss is in the replay or held by a broadcast that has not looked at the clients yet.
  From then on the client is one of those, and each such event has been received, is in
  the client's channel or replay, or is carried by a broadcast that will still send it
  (`NothingLost`). A channel that is full closes the client instead, and a client that
  is let go was closed (`LeftClosed`). What `RingBuffer.Since` returns is shown of its
  loop, by a least counterexample over the loop's states.
- `ToolExec_proofs`: `TypeCorrect`, `Exclusion`, `Order`, `Parallelism`, `NothingLost`,
  `AbortsHaveCause`. The
  invariant says, phase by phase, which calls have a goroutine (the streamed ones,
  those of one safe batch, a single call, none), that no call was streamed behind an
  unsafe one, and what has been answered once the streamed calls were waited for.
  Exclusion is not inductive without the first two. For the causes of an abort,
  `AbortInv` adds that a batch is made of siblings, and that its context is cancelled
  only once a shell call of that batch has failed: neither a streamed call's failure
  nor an earlier batch's reaches it.
- `ProcManager_proofs`: `TypeCorrect`, `KillsEnd`, `LimitHolds`, `StatusTold`. The invariant
  ties the map to the processes: a place is held from before a process starts, a
  status other than running belongs to a process that is dead or was sent SIGKILL,
  a call in the middle of a kill holds a published entry, and what counts against the limit is bounded
  (only `Reserve` takes a place, and it looks first).
- `Acp_proofs`, of the connection: `TypeCorrect`, `AnswersAreOwn`, `RoutingIsFree`,
  `NothingLeaks`, `ServeAnswersAll`, `NotesServedInOrder`. One invariant follows a call
  (ids are unique, an entry of `pending` has an empty slot, a slot holds the call's own
  id, what the loop routes belongs to a call that has left `pending`), another a request
  (it is on the stream once, it is written once, it was written or the writer broke once
  its goroutine is over), the third the notifications: those served, the one in the
  worker, those in the channel and the one the loop pushes form one line that goes up
  and that the stream continues (`OrderInv`). Of the agent on it: `ServeImplementsConn`
  shows each step of `AcpServe` to be a step of `AcpConn` or none, so all of the above
  holds of the agent (`ServeNotesInOrder` states one);
  `ServeTypeCorrect`, `OneSession` (`SoleSession`) and `OneTurn` (`TurnSlot`), whose
  invariants hold for any number of requests: whoever claims the slot is alone to
  make or to have the session, and it goes back only from there.
- `SkillRuntime_proofs`: `TypeCorrect`, `ActivatedByOne` (`OneActivator`),
  `ToolsHaveOwners` (`NoOrphanTools`), `BackendsHaveOwners` (`BackendsAccounted`).
  `ObjectInv`: an object is taken by at most one goroutine, the active one by none.
  `RegistryInv`: a name is registered by an active skill that brings it, and an active
  skill holds all its admitted names. The count of the backends needs that: a second
  activation of a skill, of an object made by a discovery meanwhile, is turned away by the registry and
  unloads what it loaded (`CountInv`).

The assumptions are those named in the modules: limits are natural numbers,
`MinDrainPairs` is positive, replies and errors have their types; the spill
threshold is at most the budget and an absent file has size 0; the requests and
callers of a connection, the processes, and the goroutines of the skill runtime are
finite sets; each handler of `AcpServe` is of one method, and no skill is called
`none`, which in the model is nobody; at least one call may run at a time.

Only model-checked: the liveness properties (`TurnEnds`, `AnsweredRequestReturns`,
`NoCallerLeftWaiting`, `ServeEnds`, `ToolsEnd`, `KillsReturn`, `ActivationsSettle`), which
the prover does not reach. Every safety property of a passing run is stated by a theorem;
`RequestsPaired` is the only one under a condition on what the environment does. No
module declares a recursive operator. The library's induction theorems cannot be used
here, so what a sum or a loop computes is proved by a least counterexample instead.

## Not modelled

In the turn loop: the events and their delivery, `executePlannedToolsSequential`
(an agent without an approval checker), the joining of adjacent assistant
messages in a request, the compaction strategies other than truncation, a
configured output limit at or above the escalated one, tools called as text by
models without native calls (they are like calls that were not streamed), and
the truncation of results. The rate limiter's exit is part of `CallFails`.

In the checkpoints: `Cleanup`, the resolution of paths, partial writes of a spill
file, and recovery of a crashed session. In the hub: several sessions at once (a
connection that moves to a second session stays a client of the first), `AddBridge`
and the bridges, authentication and framing. In ACP: the content of the messages, the
older stdio transport, `acp_handlers.go`. In the executors: what tools do, `Barrier`
(which only tests call). In the process tool: the output. In the skill runtime:
prefetch, the dispatch of hooks, workflows, the lists for the UI. In `UndoLog` nothing
models code: it is the promise.

The modules stand for about 4,500 lines of the repository's 88,000. Most of the rest
has no state whose order matters: terminal UI (rendering and keys), the command
line (wiring), providers, shell and file tools (input and output), the security
scanners, the knowledge graph and the wiki (analyses run once), configuration,
parsers, and value types. To model those would be to write them again. The parts
with a state of their own that are left are those of the plan.

## Plan

1. `ToolExec` under `AgentTurn`: show that `RunSome` covers what the executors do.
2. `WakeManager`: the wake channel at its limit; liveness of `Complete` against the
   loop that drains it.
3. Checkpoint recovery: spill, manifest and crash; what a new session can restore.
4. Mailboxes of teams, worktree locks, the order of the gates of the tool pipeline.
5. Compaction as pure operators against a reference definition.

Proofs, in order: an abstract log from which each client reads from a position on, and
the hub as its refinement; the phase `RunSome` of `AgentTurn` as a refinement of what
`ToolExec` does; what `RequestWellFormed` becomes when the front of the conversation is
cut off.
