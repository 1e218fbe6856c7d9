-------------------------- MODULE ProcManager_proofs --------------------------
(***************************************************************************)
(* Proofs about ProcManager, for any number of processes and of calls.     *)
(*                                                                         *)
(* The invariant ties the manager's map to the system's processes: a place *)
(* is held from before a process starts, and a status is not "running"     *)
(* only when the process is dead or was sent SIGKILL.  What a call of Kill *)
(* or Shutdown holds is a published process, which stays in the map.       *)
(***************************************************************************)
EXTENDS ProcManager, FiniteSetTheorems, TLAPS

\* Where the call of Exec is says what is in the map and in the system.
PlacesHeld ==
  \A p \in Procs :
    /\ exec[p] \in {"idle", "refused", "failed"} => entry[p] = "none" /\ os[p] = "none"
    /\ exec[p] = "reserved" => entry[p] = "placeholder" /\ os[p] = "none"
    /\ exec[p] = "started" => entry[p] = "placeholder" /\ os[p] # "none"
    /\ exec[p] \in {"published", "returned"} => entry[p] = "proc" /\ os[p] # "none"

\* What is told of a process is true of it.
EndsTold ==
  \A p \in Procs :
    /\ waiter[p] \in {"reaped", "marked", "gone"} => os[p] = "dead"
    /\ status[p] # "running" => entry[p] = "proc" /\ (os[p] = "dead" \/ p \in forced)

\* The entries calls hold.
EntriesHeld ==
  \A k \in Callers :
    /\ pc[k] \in {"grace", "force", "mark", "await"} => target[k].published
    /\ pc[k] = "mark" => At(k) \in forced
    /\ target[k].published => target[k] \in Entries /\ entry[At(k)] = "proc"
    /\ \A e \in todo[k] : e.published => entry[e.proc] = "proc"

PlacesBounded == Cardinality(Counted) <= MaxProcesses

ProcInv ==
  /\ TypeOK /\ PlacesHeld /\ EndsTold /\ EntriesHeld /\ PlacesBounded /\ EndedIsEnded

-----------------------------------------------------------------------------
LEMMA InitInv == Init => ProcInv
<1> SUFFICES ASSUME Init PROVE ProcInv
  OBVIOUS
<1> USE DEF Init
<1>1. TypeOK
  BY DEF TypeOK
<1>2. PlacesHeld /\ EndsTold /\ EndedIsEnded
  BY DEF PlacesHeld, EndsTold, EndedIsEnded
<1>3. EntriesHeld
  BY DEF EntriesHeld, NoEntry, At
<1>4. PlacesBounded
  <2>1. Counted = {}
    BY DEF Counted
  <2> QED
    BY <2>1, FS_EmptySet, ProcAssumption DEF PlacesBounded
<1> QED
  BY <1>1, <1>2, <1>3, <1>4 DEF ProcInv

\* A process a call holds is one of the manager's.
LEMMA HeldIsPublished ==
  ASSUME ProcInv, NEW k \in Callers, target[k].published
  PROVE  /\ At(k) \in Procs /\ entry[At(k)] = "proc"
         /\ target[k] = [proc |-> At(k), published |-> TRUE]
  BY DEF ProcInv, EntriesHeld, Entries, At

\* What no step but Reserve does: take a place.
LEMMA PlacesOnlyFreed ==
  ASSUME ProcInv, Counted' \subseteq Counted
  PROVE  PlacesBounded'
<1>1. IsFiniteSet(Counted) /\ Cardinality(Counted) <= MaxProcesses
  <2>1. Counted \subseteq Procs
    BY DEF Counted
  <2> QED
    BY <2>1, ProcAssumption, FS_Subset DEF ProcInv, PlacesBounded
<1>2. IsFiniteSet(Counted') /\ Cardinality(Counted') <= Cardinality(Counted)
  BY <1>1, FS_Subset
<1> QED
  BY <1>1, <1>2, FS_CardinalityType, ProcAssumption DEF PlacesBounded

-----------------------------------------------------------------------------
(* The steps of Exec.                                                      *)

LEMMA ReserveInv ==
  ASSUME ProcInv, NEW p \in Procs, Reserve(p)
  PROVE  ProcInv'
<1> USE DEF ProcInv, Reserve, ExecGoes, execVars, callVars
<1>1. TypeOK'
  BY DEF TypeOK, PlacesHeld
<1>2. PlacesHeld'
  BY DEF TypeOK, PlacesHeld
<1>3. EndsTold'
  BY DEF TypeOK, PlacesHeld, EndsTold
<1>4. EntriesHeld'
  BY DEF TypeOK, PlacesHeld, EntriesHeld, Entries, At
<1>5. PlacesBounded'
  <2>1. CASE Cardinality(Counted) >= MaxProcesses
    <3>1. Counted' \subseteq Counted
      BY <2>1 DEF Counted
    <3> QED
      BY <3>1, PlacesOnlyFreed
  <2>2. CASE ~(Cardinality(Counted) >= MaxProcesses)
    <3>1. IsFiniteSet(Counted)
      BY ProcAssumption, FS_Subset DEF Counted
    <3>2. Counted' = Counted \cup {p}
      BY <2>2 DEF Counted, TypeOK
    <3>3. Cardinality(Counted) \in Nat /\ MaxProcesses \in Nat
      BY <3>1, FS_CardinalityType, ProcAssumption
    <3>4. Cardinality(Counted') <= Cardinality(Counted) + 1
      BY <3>1, <3>2, <3>3, FS_AddElement
    <3>5. Cardinality(Counted') \in Nat
      BY <3>1, <3>2, FS_AddElement, FS_CardinalityType
    <3> QED
      BY <2>2, <3>3, <3>4, <3>5 DEF PlacesBounded
  <2> QED
    BY <2>1, <2>2
<1>6. EndedIsEnded'
  BY DEF EndedIsEnded
<1> QED
  BY <1>1, <1>2, <1>3, <1>4, <1>5, <1>6

LEMMA ExecInvariant ==
  ASSUME ProcInv, NEW p \in Procs,
         StartFails(p) \/ Start(p) \/ Publish(p) \/ ExecReturns(p)
  PROVE  ProcInv'
<1> USE DEF ProcInv, StartFails, Start, Publish, ExecReturns, ExecGoes, execVars, callVars
<1>1. TypeOK'
  BY DEF TypeOK, PlacesHeld
<1>2. PlacesHeld'
  BY DEF TypeOK, PlacesHeld
<1>3. EndsTold'
  BY DEF TypeOK, PlacesHeld, EndsTold
<1>4. EntriesHeld'
  BY DEF TypeOK, PlacesHeld, EntriesHeld, Entries, At
<1>5. Counted' \subseteq Counted
  BY DEF Counted, PlacesHeld, TypeOK
<1>6. EndedIsEnded'
  BY DEF EndedIsEnded, PlacesHeld, TypeOK
<1> QED
  BY <1>1, <1>2, <1>3, <1>4, <1>5, <1>6, PlacesOnlyFreed

-----------------------------------------------------------------------------
(* The process and waitLoop.                                               *)

LEMMA LoopInvariant ==
  ASSUME ProcInv, NEW p \in Procs, LoopStep(p) \/ Ends(p)
  PROVE  ProcInv'
<1> USE DEF ProcInv, LoopStep, Reap, MarkExited, CloseDone, Ends, execVars, callVars
<1>1. TypeOK'
  BY DEF TypeOK
<1>2. PlacesHeld'
  BY DEF TypeOK, PlacesHeld
<1>3. EndsTold'
  BY DEF TypeOK, EndsTold
<1>4. EntriesHeld'
  BY DEF TypeOK, EntriesHeld, Entries, At
<1>5. Counted' \subseteq Counted
  BY DEF Counted, TypeOK
<1>6. EndedIsEnded'
  BY DEF EndedIsEnded, TypeOK
<1> QED
  BY <1>1, <1>2, <1>3, <1>4, <1>5, <1>6, PlacesOnlyFreed

-----------------------------------------------------------------------------
(* The calls.  They leave the map and the processes alone, save that they  *)
(* force a process and mark it.                                            *)

\* What a call gets from the map.
LEMMA TakenTrue ==
  ASSUME ProcInv, NEW p \in Procs
  PROVE  Taken(p) \in Entries /\ (Taken(p).published => entry[Taken(p).proc] = "proc")
  BY DEF Taken, Entries

LEMMA AskedInvariant ==
  ASSUME ProcInv, NEW k \in Callers, Asked(k)
  PROVE  ProcInv'
<1> USE DEF ProcInv
<1>1. UNCHANGED execVars /\ UNCHANGED ended
  BY DEF Asked, Shutdown, Find
<1>2. PlacesHeld' /\ EndsTold' /\ EndedIsEnded'
  BY <1>1 DEF execVars, PlacesHeld, EndsTold, EndedIsEnded
<1>3. PlacesBounded'
  BY <1>1 DEF execVars, PlacesBounded, Counted
<1>4. TypeOK' /\ EntriesHeld'
  <2>1. CASE Shutdown(k)
    <3>1. \A e \in {Taken(p) : p \in Listed} :
            e \in Entries /\ (e.published => entry[e.proc] = "proc")
      BY TakenTrue DEF Listed
    <3>2. TypeOK'
      BY <2>1, <3>1 DEF Shutdown, Goes, execVars, TypeOK
    <3>3. EntriesHeld'
      BY <2>1, <3>1 DEF Shutdown, Goes, execVars, TypeOK, EntriesHeld, At
    <3> QED
      BY <3>2, <3>3
  <2>2. CASE \E o \in {"read", "write", "kill"}, p \in Procs : Find(k, o, p)
    <3>1. PICK o \in {"read", "write", "kill"}, p \in Procs : Find(k, o, p)
      BY <2>2
    <3>2. TypeOK'
      BY <3>1, TakenTrue DEF Find, Goes, execVars, TypeOK
    <3>3. EntriesHeld'
      BY <3>1, TakenTrue DEF Find, Goes, execVars, TypeOK, EntriesHeld, At
    <3> QED
      BY <3>2, <3>3
  <2> QED
    BY <2>1, <2>2 DEF Asked
<1> QED
  BY <1>2, <1>3, <1>4

\* Steps that only move a call on: to the next entry, or back to its caller.
LEMMA MoveInvariant ==
  ASSUME ProcInv, NEW k \in Callers,
         \/ \E e \in Entries : ShutdownNext(k, e)
         \/ ShutdownEnds(k) \/ UsePlaceholder(k) \/ Read(k) \/ Write(k)
  PROVE  ProcInv'
<1> USE DEF ProcInv
<1>1. UNCHANGED execVars /\ UNCHANGED ended
  BY DEF ShutdownNext, ShutdownEnds, UsePlaceholder, Read, Write
<1>2. PlacesHeld' /\ EndsTold' /\ EndedIsEnded'
  BY <1>1 DEF execVars, PlacesHeld, EndsTold, EndedIsEnded
<1>3. PlacesBounded'
  BY <1>1 DEF execVars, PlacesBounded, Counted
<1>4. TypeOK' /\ EntriesHeld'
  <2>1. ASSUME NEW e \in Entries, ShutdownNext(k, e)
        PROVE  TypeOK' /\ EntriesHeld'
    <3>1. TypeOK'
      BY <2>1 DEF ShutdownNext, Goes, execVars, TypeOK
    <3>2. EntriesHeld'
      BY <2>1 DEF ShutdownNext, Goes, execVars, TypeOK, EntriesHeld, Entries, At
    <3> QED
      BY <3>1, <3>2
  <2>2. CASE ShutdownEnds(k) \/ UsePlaceholder(k) \/ Read(k) \/ Write(k)
    <3> USE DEF ShutdownEnds, UsePlaceholder, Read, Write, Returns, Goes, execVars
    <3>1. TypeOK'
      BY <2>2 DEF TypeOK
    <3>2. EntriesHeld'
      BY <2>2 DEF TypeOK, EntriesHeld, NoEntry, At
    <3> QED
      BY <3>1, <3>2
  <2> QED
    BY <2>1, <2>2
<1> QED
  BY <1>2, <1>3, <1>4

\* killProcess returns from a process that is dead or was sent SIGKILL.
LEMMA KilledInvariant ==
  ASSUME ProcInv, NEW k \in Callers, target[k].published, Killed(k), UNCHANGED execVars,
         os[At(k)] = "dead" \/ At(k) \in forced
  PROVE  ProcInv'
<1> USE DEF ProcInv, Killed, Returns, Goes, execVars
<1>1. At(k) \in Procs
  BY HeldIsPublished
<1>2. TypeOK'
  BY <1>1 DEF TypeOK
<1>3. PlacesHeld' /\ EndsTold'
  BY DEF PlacesHeld, EndsTold
<1>4. EntriesHeld'
  BY DEF TypeOK, EntriesHeld, NoEntry, At
<1>5. PlacesBounded'
  BY DEF PlacesBounded, Counted
<1>6. EndedIsEnded'
  BY DEF TypeOK, EndedIsEnded
<1> QED
  BY <1>2, <1>3, <1>4, <1>5, <1>6

LEMMA KillInvariant ==
  ASSUME ProcInv, NEW k \in Callers,
         Terminate(k) \/ Grace(k) \/ SendKill(k) \/ MarkKilled(k) \/ Await(k)
  PROVE  ProcInv'
<1> USE DEF ProcInv
<1>1. /\ target[k].published /\ At(k) \in Procs /\ entry[At(k)] = "proc"
      /\ target[k] = [proc |-> At(k), published |-> TRUE]
  <2>1. target[k].published
    BY DEF Terminate, Grace, SendKill, MarkKilled, Await, EntriesHeld
  <2> QED
    BY <2>1, HeldIsPublished
<1>2. CASE Killed(k) /\ UNCHANGED execVars /\ (Terminate(k) \/ Grace(k) \/ Await(k))
  <2>1. CASE status[At(k)] # "running" \/ waiter[At(k)] = "gone"
    BY <1>1, <1>2, <2>1, KilledInvariant DEF EndsTold
  <2>2. CASE status[At(k)] = "running" /\ waiter[At(k)] # "gone"
    <3>1. pc'[k] \in {"grace", "force"}
      BY <1>2, <2>2 DEF Terminate, Grace, Await, Goes, TypeOK
    <3>2. pc'[k] \notin {"grace", "force"}
      BY <1>2 DEF Killed, Returns, Goes, TypeOK
    <3> QED
      BY <3>1, <3>2
  <2> QED
    BY <2>1, <2>2
<1>3. CASE /\ UNCHANGED execVars /\ UNCHANGED <<op, target, todo, ended>>
           /\ Goes(k, "grace") \/ Goes(k, "force")
  <2> USE <1>3 DEF Goes, execVars
  <2>1. TypeOK' /\ PlacesHeld' /\ EndsTold' /\ EndedIsEnded'
    BY DEF TypeOK, PlacesHeld, EndsTold, EndedIsEnded
  <2>2. EntriesHeld'
    BY <1>1 DEF TypeOK, EntriesHeld, At
  <2>3. PlacesBounded'
    BY DEF PlacesBounded, Counted
  <2> QED
    BY <2>1, <2>2, <2>3
<1>4. CASE SendKill(k)
  <2> USE <1>4 DEF SendKill, Goes
  <2>1. TypeOK'
    BY <1>1 DEF TypeOK
  <2>2. PlacesHeld' /\ EndsTold' /\ EndedIsEnded'
    BY DEF PlacesHeld, EndsTold, EndedIsEnded
  <2>3. EntriesHeld'
    BY <1>1 DEF TypeOK, EntriesHeld, At
  <2>4. PlacesBounded'
    BY DEF PlacesBounded, Counted
  <2> QED
    BY <2>1, <2>2, <2>3, <2>4
<1>5. CASE MarkKilled(k)
  <2> USE <1>5 DEF MarkKilled, Goes
  <2>1. TypeOK'
    BY <1>1 DEF TypeOK
  <2>2. PlacesHeld' /\ EndedIsEnded'
    BY DEF PlacesHeld, EndedIsEnded
  <2>3. EndsTold'
    <3>1. At(k) \in forced
      BY DEF EntriesHeld
    <3> QED
      BY <1>1, <3>1 DEF TypeOK, EndsTold
  <2>4. EntriesHeld'
    BY <1>1 DEF TypeOK, EntriesHeld, At
  <2>5. Counted' \subseteq Counted
    BY <1>1 DEF Counted, TypeOK
  <2> QED
    BY <2>1, <2>2, <2>3, <2>4, <2>5, PlacesOnlyFreed
<1>6. Terminate(k) \/ Grace(k) \/ Await(k) =>
        \/ Killed(k) /\ UNCHANGED execVars
        \/ /\ UNCHANGED execVars /\ UNCHANGED <<op, target, todo, ended>>
           /\ Goes(k, "grace") \/ Goes(k, "force")
  BY DEF Terminate, Grace, Await
<1> QED
  BY <1>2, <1>3, <1>4, <1>5, <1>6

-----------------------------------------------------------------------------
LEMMA StepInv == ProcInv /\ [Next]_vars => ProcInv'
<1> SUFFICES ASSUME ProcInv, [Next]_vars PROVE ProcInv'
  OBVIOUS
<1>1. ASSUME NEW p \in Procs, ExecStep(p) \/ LoopStep(p) \/ Ends(p) PROVE ProcInv'
  BY <1>1, ReserveInv, ExecInvariant, LoopInvariant DEF ExecStep
<1>2. ASSUME NEW k \in Callers, CallStep(k) \/ Write(k) \/ Asked(k) PROVE ProcInv'
  BY <1>2, AskedInvariant, MoveInvariant, KillInvariant DEF CallStep
<1>3. CASE UNCHANGED vars
  BY <1>3 DEF vars, execVars, callVars, ProcInv, TypeOK, PlacesHeld, EndsTold,
     EntriesHeld, PlacesBounded, Counted, EndedIsEnded, At
<1> QED
  BY <1>1, <1>2, <1>3 DEF Next

LEMMA AlwaysInv == Spec => []ProcInv
  BY InitInv, StepInv, PTL DEF Spec

(* Every variable keeps its type: the calls of Exec and their processes are *)
(* where ProcessManager puts them.                                         *)
THEOREM TypeCorrect == Spec => []TypeOK
<1>1. ProcInv => TypeOK
  BY DEF ProcInv
<1> QED
  BY <1>1, AlwaysInv, PTL

(* A kill that is over has ended its process: killProcess returns early    *)
(* only for a process that waitLoop has reaped or that another call forced. *)
THEOREM KillsEnd == Spec => []EndedIsEnded
<1>1. ProcInv => EndedIsEnded
  BY DEF ProcInv
<1> QED
  BY <1>1, AlwaysInv, PTL

(* The limit of Exec holds for what runs, however many calls overlap: the  *)
(* placeholder is counted from before the process starts until it ends.    *)
THEOREM LimitHolds == Spec => []LimitKept
<1>1. ASSUME ProcInv PROVE LimitKept
  <2> DEFINE Live == {p \in Procs : \/ exec[p] = "reserved"
                                    \/ os[p] = "alive" /\ p \notin forced}
  <2> USE <1>1 DEF ProcInv
  <2>1. Live \subseteq Counted
    BY DEF Counted, TypeOK, PlacesHeld, EndsTold
  <2>2. IsFiniteSet(Counted)
    BY ProcAssumption, FS_Subset DEF Counted
  <2>3. Cardinality(Live) <= Cardinality(Counted) /\ IsFiniteSet(Live)
    BY <2>1, <2>2, FS_Subset
  <2>4. /\ Cardinality(Live) \in Nat /\ Cardinality(Counted) \in Nat
        /\ MaxProcesses \in Nat
    BY <2>2, <2>3, FS_CardinalityType, ProcAssumption
  <2>5. Cardinality(Live) <= MaxProcesses
    BY <2>3, <2>4 DEF PlacesBounded
  <2> QED
    BY <2>5 DEF LimitKept
<1> QED
  BY <1>1, AlwaysInv, PTL

(* waitLoop and killProcess both look at the status before they write it,  *)
(* so what a process ended as is told once.                                *)
THEOREM StatusTold == Spec => StatusFinal
<1>1. ASSUME TypeOK, [Next]_vars
      PROVE  [\A p \in Procs : status[p] # "running" => status'[p] = status[p]]_vars
  <2> USE <1>1
  <2>1. CASE UNCHANGED status
    BY <2>1
  <2>2. CASE \E p \in Procs : MarkExited(p)
    BY <2>2 DEF MarkExited, TypeOK
  <2>3. CASE \E k \in Callers : MarkKilled(k)
    BY <2>3 DEF MarkKilled, TypeOK
  <2>4. Next => \/ UNCHANGED status \/ (\E p \in Procs : MarkExited(p))
                \/ \E k \in Callers : MarkKilled(k)
    BY DEF Next, ExecStep, LoopStep, CallStep, Asked, Reserve, StartFails, Start, Publish,
       ExecReturns, Reap, CloseDone, Ends, ShutdownNext, ShutdownEnds, UsePlaceholder,
       Read, Write, Terminate, Grace, SendKill, Await, Shutdown, Find, execVars, callVars
  <2> QED
    BY <2>1, <2>2, <2>3, <2>4 DEF vars, execVars
<1> QED
  BY <1>1, TypeCorrect, PTL DEF Spec, StatusFinal
=============================================================================
