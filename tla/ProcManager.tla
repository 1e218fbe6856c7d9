---------------------------- MODULE ProcManager ----------------------------
(***************************************************************************)
(* Long-running processes of the process tool: ProcessManager of           *)
(* internal/tools/process_manager.go, over the pipes of process_io.go.     *)
(*                                                                         *)
(* Exec takes a place under the manager's lock, starts the process outside *)
(* it and then publishes it; a goroutine per process waits for its end     *)
(* (the one that reads its output is left out, with the output).  Kill and *)
(* Shutdown ask the process to end (SIGTERM), give it a grace period,      *)
(* force it (SIGKILL) and wait for the first goroutine.  Every lock the    *)
(* code takes is held within one step; the steps are the places where it   *)
(* holds none.                                                             *)
(***************************************************************************)
EXTENDS Integers, FiniteSets

CONSTANTS
  Procs,        \* the calls of Exec; each call's process goes by its name
  Callers,      \* the calls of ReadOutput, WriteStdin, Kill and Shutdown
  MaxProcesses  \* maxProcesses

ASSUME ProcAssumption == IsFiniteSet(Procs) /\ MaxProcesses \in Nat

VARIABLES
  exec,    \* [Procs -> where the call of Exec is]
  entry,   \* pm.processes: [Procs -> "none", "placeholder", "proc"]
  status,  \* managedProcess.status of the published process
  os,      \* [Procs -> "none", "alive", "dead"]: the system's process
  forced,  \* the processes that were sent SIGKILL
  waiter,  \* waitLoop: [Procs -> "none", "waiting", "reaped", "marked", "gone"]
  pc,      \* [Callers -> where the call is]
  op,      \* [Callers -> "none", "read", "write", "kill", "shutdown"]
  target,  \* [Callers -> the entry it holds, or NoEntry]
  todo,    \* [Callers -> the rest of a shutdown's snapshot]
  ended    \* [Callers -> the processes its killProcess returned from]

execVars == <<exec, entry, status, os, forced, waiter>>
callVars == <<pc, op, target, todo, ended>>
vars == <<execVars, callVars>>

\* An entry of the map as a call got it: the placeholder or the process.
Entries == [proc : Procs, published : BOOLEAN]
NoEntry == [proc |-> "none", published |-> FALSE]

TypeOK ==
  /\ exec \in [Procs -> {"idle", "refused", "reserved", "failed", "started",
                         "published", "returned"}]
  /\ entry \in [Procs -> {"none", "placeholder", "proc"}]
  /\ status \in [Procs -> {"running", "exited", "killed"}]
  /\ os \in [Procs -> {"none", "alive", "dead"}] /\ forced \subseteq Procs
  /\ waiter \in [Procs -> {"none", "waiting", "reaped", "marked", "gone"}]
  /\ pc \in [Callers -> {"idle", "next", "found", "write", "grace", "force", "mark",
                         "await", "returned", "panicked"}]
  /\ op \in [Callers -> {"none", "read", "write", "kill", "shutdown"}]
  /\ target \in [Callers -> Entries \cup {NoEntry}]
  /\ todo \in [Callers -> SUBSET Entries]
  /\ ended \in [Callers -> SUBSET Procs]
  /\ \A p \in Procs : waiter[p] # "none" <=> entry[p] = "proc"

Init ==
  /\ exec = [p \in Procs |-> "idle"] /\ entry = [p \in Procs |-> "none"]
  /\ status = [p \in Procs |-> "running"] /\ os = [p \in Procs |-> "none"]
  /\ forced = {}
  /\ waiter = [p \in Procs |-> "none"]
  /\ pc = [k \in Callers |-> "idle"] /\ op = [k \in Callers |-> "none"]
  /\ target = [k \in Callers |-> NoEntry] /\ todo = [k \in Callers |-> {}]
  /\ ended = [k \in Callers |-> {}]

-----------------------------------------------------------------------------
(* Exec.                                                                   *)

\* What counts against the limit: a placeholder's status is "running" too.
\* The mutant counts what is published only.
Counted_Published == {p \in Procs : entry[p] = "proc" /\ status[p] = "running"}
Counted == {p \in Procs : \/ entry[p] = "placeholder"
                          \/ entry[p] = "proc" /\ status[p] = "running"}

ExecGoes(p, state) == exec' = [exec EXCEPT ![p] = state]

Reserve(p) ==
  /\ exec[p] = "idle"
  /\ IF Cardinality(Counted) >= MaxProcesses
     THEN ExecGoes(p, "refused") /\ UNCHANGED entry
     ELSE ExecGoes(p, "reserved") /\ entry' = [entry EXCEPT ![p] = "placeholder"]
  /\ UNCHANGED <<status, os, forced, waiter, callVars>>

\* The pipes or the process cannot be had: the place is given back.
StartFails(p) ==
  /\ exec[p] = "reserved"
  /\ ExecGoes(p, "failed") /\ entry' = [entry EXCEPT ![p] = "none"]
  /\ UNCHANGED <<status, os, forced, waiter, callVars>>

Start(p) ==
  /\ exec[p] = "reserved"
  /\ ExecGoes(p, "started") /\ os' = [os EXCEPT ![p] = "alive"]
  /\ UNCHANGED <<entry, status, forced, waiter, callVars>>

Publish(p) ==
  /\ exec[p] = "started"
  /\ ExecGoes(p, "published") /\ entry' = [entry EXCEPT ![p] = "proc"]
  /\ waiter' = [waiter EXCEPT ![p] = "waiting"]
  /\ UNCHANGED <<status, os, forced, callVars>>

\* The process is over, a second has passed, or the call's context is done.
ExecReturns(p) ==
  /\ exec[p] = "published"
  /\ ExecGoes(p, "returned")
  /\ UNCHANGED <<entry, status, os, forced, waiter, callVars>>

-----------------------------------------------------------------------------
(* The process, and waitLoop.  A process may end at any time, for SIGTERM  *)
(* or for a reason of its own; one that was sent SIGKILL does.             *)

Ends(p) ==
  /\ os[p] = "alive" /\ os' = [os EXCEPT ![p] = "dead"]
  /\ UNCHANGED <<exec, entry, status, forced, waiter, callVars>>

Reap(p) ==
  /\ waiter[p] = "waiting" /\ os[p] = "dead"
  /\ waiter' = [waiter EXCEPT ![p] = "reaped"]
  /\ UNCHANGED <<exec, entry, status, os, forced, callVars>>

\* The mutant writes the status without looking at it.
MarkExited_Always(p) ==
  /\ waiter[p] = "reaped"
  /\ waiter' = [waiter EXCEPT ![p] = "marked"]
  /\ status' = [status EXCEPT ![p] = "exited"]
  /\ UNCHANGED <<exec, entry, os, forced, callVars>>

MarkExited(p) ==
  /\ waiter[p] = "reaped"
  /\ waiter' = [waiter EXCEPT ![p] = "marked"]
  /\ status' = [status EXCEPT ![p] = IF @ = "running" THEN "exited" ELSE @]
  /\ UNCHANGED <<exec, entry, os, forced, callVars>>

\* The mutant leaves the channel open when the process was killed.
CloseDone_NotKilled(p) ==
  /\ waiter[p] = "marked" /\ status[p] # "killed"
  /\ waiter' = [waiter EXCEPT ![p] = "gone"]
  /\ UNCHANGED <<exec, entry, status, os, forced, callVars>>

CloseDone(p) ==
  /\ waiter[p] = "marked"
  /\ waiter' = [waiter EXCEPT ![p] = "gone"]
  /\ UNCHANGED <<exec, entry, status, os, forced, callVars>>

-----------------------------------------------------------------------------
(* ReadOutput, WriteStdin, Kill and Shutdown.  A call takes an entry under *)
(* the manager's lock and uses it afterwards.  List shows placeholders     *)
(* too, so a name is known before Exec has returned it.                    *)

Goes(k, state) == pc' = [pc EXCEPT ![k] = state]
Listed == {p \in Procs : entry[p] # "none"}
Returns(k, state) ==
  /\ Goes(k, state)
  /\ op' = [op EXCEPT ![k] = "none"] /\ target' = [target EXCEPT ![k] = NoEntry]

Taken(p) == [proc |-> p, published |-> entry[p] = "proc"]
At(k) == target[k].proc

Find(k, o, p) ==
  /\ pc[k] = "idle" /\ p \in Listed
  /\ Goes(k, "found") /\ op' = [op EXCEPT ![k] = o]
  /\ target' = [target EXCEPT ![k] = Taken(p)]
  /\ UNCHANGED <<todo, ended, execVars>>

Shutdown(k) ==
  /\ pc[k] = "idle"
  /\ Goes(k, "next") /\ op' = [op EXCEPT ![k] = "shutdown"]
  /\ todo' = [todo EXCEPT ![k] = {Taken(p) : p \in Listed}]
  /\ UNCHANGED <<target, ended, execVars>>

\* The snapshot is gone through in any order, one process at a time.
ShutdownNext(k, e) ==
  /\ pc[k] = "next" /\ e \in todo[k]
  /\ Goes(k, "found") /\ target' = [target EXCEPT ![k] = e]
  /\ todo' = [todo EXCEPT ![k] = @ \ {e}]
  /\ UNCHANGED <<op, ended, execVars>>

ShutdownEnds(k) ==
  /\ pc[k] = "next" /\ todo[k] = {} /\ Returns(k, "returned")
  /\ UNCHANGED <<todo, ended, execVars>>

\* A placeholder has no command, no pipes and no buffer: what the call does
\* with it dereferences nil.
UsePlaceholder(k) ==
  /\ pc[k] = "found" /\ ~target[k].published
  /\ Returns(k, "panicked")
  /\ UNCHANGED <<todo, ended, execVars>>

Read(k) ==
  /\ pc[k] = "found" /\ target[k].published /\ op[k] = "read"
  /\ Returns(k, "returned")
  /\ UNCHANGED <<todo, ended, execVars>>

\* A write to a running process ends when the process reads or the pipe
\* breaks.
Write(k) ==
  /\ \/ /\ pc[k] = "found" /\ target[k].published /\ op[k] = "write"
        /\ IF status[At(k)] = "running" THEN Goes(k, "write") /\ UNCHANGED <<op, target>>
           ELSE Returns(k, "returned")
     \/ pc[k] = "write" /\ Returns(k, "returned")
  /\ UNCHANGED <<todo, ended, execVars>>

\* killProcess returns: a kill is over, a shutdown goes on.
Killed(k) ==
  /\ IF op[k] = "kill" THEN Returns(k, "returned")
     ELSE Goes(k, "next") /\ UNCHANGED <<op, target>>
  /\ ended' = [ended EXCEPT ![k] = @ \cup {At(k)}]
  /\ UNCHANGED todo

\* It looks at the status, and sends SIGTERM.
Terminate(k) ==
  /\ pc[k] = "found" /\ target[k].published /\ op[k] \in {"kill", "shutdown"}
  /\ IF status[At(k)] = "running"
     THEN Goes(k, "grace") /\ UNCHANGED <<op, target, todo, ended>>
     ELSE Killed(k)
  /\ UNCHANGED execVars

\* It waits for the process, or for the grace period or the context to end.
Grace(k) ==
  /\ pc[k] = "grace"
  /\ \/ waiter[At(k)] = "gone" /\ Killed(k)
     \/ Goes(k, "force") /\ UNCHANGED <<op, target, todo, ended>>
  /\ UNCHANGED execVars

SendKill(k) ==
  /\ pc[k] = "force"
  /\ forced' = forced \cup {At(k)} /\ Goes(k, "mark")
  /\ UNCHANGED <<exec, entry, status, os, waiter, op, target, todo, ended>>

\* The mutant marks the process before it is sent the signal.
MarkKilled_First(k) ==
  /\ pc[k] \in {"mark", "force"} /\ Goes(k, IF pc[k] = "mark" THEN "await" ELSE "force")
  /\ status' = [status EXCEPT ![At(k)] = IF @ = "running" THEN "killed" ELSE @]
  /\ UNCHANGED <<exec, entry, os, forced, waiter, op, target, todo, ended>>

MarkKilled(k) ==
  /\ pc[k] = "mark" /\ Goes(k, "await")
  /\ status' = [status EXCEPT ![At(k)] = IF @ = "running" THEN "killed" ELSE @]
  /\ UNCHANGED <<exec, entry, os, forced, waiter, op, target, todo, ended>>

Await(k) ==
  /\ pc[k] = "await" /\ waiter[At(k)] = "gone"
  /\ Killed(k)
  /\ UNCHANGED execVars

-----------------------------------------------------------------------------
ExecStep(p) == Reserve(p) \/ StartFails(p) \/ Start(p) \/ Publish(p) \/ ExecReturns(p)
LoopStep(p) == Reap(p) \/ MarkExited(p) \/ CloseDone(p)

CallStep(k) ==
  \/ \E e \in Entries : ShutdownNext(k, e)
  \/ ShutdownEnds(k) \/ UsePlaceholder(k) \/ Read(k) \/ Terminate(k) \/ Grace(k)
  \/ SendKill(k) \/ MarkKilled(k) \/ Await(k)

Asked(k) == Shutdown(k) \/ \E o \in {"read", "write", "kill"}, p \in Procs : Find(k, o, p)

Next ==
  \/ \E p \in Procs : ExecStep(p) \/ LoopStep(p) \/ Ends(p)
  \/ \E k \in Callers : CallStep(k) \/ Write(k) \/ Asked(k)

Spec == Init /\ [][Next]_vars

\* The goroutines and the calls go on when they can, and the system ends what
\* was sent SIGKILL; nothing makes a process end on its own.
FairSpec ==
  /\ Spec
  /\ \A p \in Procs : WF_vars(LoopStep(p)) /\ WF_vars(p \in forced /\ Ends(p))
  /\ \A k \in Callers : WF_vars(CallStep(k))

-----------------------------------------------------------------------------
(* The limit holds while calls of Exec overlap: what is alive and was not  *)
(* told to die, with what is about to start, stays within maxProcesses.    *)
LimitKept ==
  Cardinality({p \in Procs : \/ exec[p] = "reserved"
                             \/ os[p] = "alive" /\ p \notin forced}) <= MaxProcesses

(* When Kill, or Shutdown's turn for a process, is over, the process is    *)
(* dead or was sent SIGKILL, also when another call was at it first.       *)
EndedIsEnded == \A k \in Callers : \A p \in ended[k] : os[p] = "dead" \/ p \in forced

(* The end of a process is told once: a status that is not "running" stays *)
(* whether waitLoop or killProcess wrote it.                               *)
StatusFinal == [][\A p \in Procs : status[p] # "running" => status'[p] = status[p]]_vars

\* The entries a call still has to deal with.
Held(k) == (todo[k] \cup {target[k]}) \ {NoEntry}

(* Kill and Shutdown return, and do not panic, whatever the processes do   *)
(* with SIGTERM and whoever else kills them, provided the entries they     *)
(* took are those of published processes: a call that holds a placeholder  *)
(* is left out, it dereferences nil when it comes to it (UsePlaceholder).  *)
KillsReturn ==
  \A k \in Callers :
    op[k] \in {"kill", "shutdown"} /\ (\A e \in Held(k) : e.published)
      ~> pc[k] = "returned"
=============================================================================
