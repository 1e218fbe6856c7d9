---------------------------- MODULE SkillRuntime ----------------------------
(***************************************************************************)
(* The skill runtime: internal/skills/runtime.go over the lifecycle of a   *)
(* skill (internal/skills/types.go).                                       *)
(*                                                                         *)
(* rt.skills holds an object per discovered skill, rt.active the objects   *)
(* of the active ones.  An activation takes the object to "activating"     *)
(* under the lock, loads a backend outside it, and registers the backend's *)
(* tools, hooks and prompts under it again.  A discovery replaces every    *)
(* object, also those an activation or rt.active still points to, so       *)
(* objects have names of their own here.                                   *)
(***************************************************************************)
EXTENDS Integers, FiniteSets

CONSTANTS
  Names,      \* skills
  Tools,      \* names of tools, commands and agent definitions
  OwnTools,   \* [Names -> SUBSET Tools]: what a skill's backend and manifest bring
  Admitted,   \* the tools that pass the admission function
  Actors,     \* goroutines: turns, prefetches, commands of the user, installs
  MaxObjects  \* objects a skill may have in a behaviour: bounds the discoveries

ASSUME SkillAssumption ==
  /\ OwnTools \in [Names -> SUBSET Tools] /\ "none" \notin Names
  /\ Admitted \subseteq Tools
  /\ MaxObjects \in Nat \ {0} /\ IsFiniteSet(Actors)

VARIABLES
  onDisk,    \* the skills the loader would find
  current,   \* rt.skills: [Names -> 0..MaxObjects], 0 for none
  active,    \* rt.active, likewise
  made,      \* [Names -> how many objects there have been]
  state,     \* [Names -> [1..MaxObjects -> Skill.State]]
  registry,  \* [Tools -> who registered it]
  wired,     \* [Names -> how often its hooks and prompts are registered]
  loaded,    \* [Names -> backends loaded and not unloaded]
  gated,     \* whether toolAdmissionFunc is set
  pc,        \* [Actors -> where the call is]
  name,      \* [Actors -> the skill it is at]
  object,    \* [Actors -> the object it activates]
  todo       \* [Actors -> skills found on disk, or whose triggers matched]

runtimeVars == <<current, active, made, state, registry, wired, loaded>>
actorVars == <<pc, name, object, todo>>
vars == <<onDisk, gated, runtimeVars, actorVars>>

Objects == 1..MaxObjects

TypeOK ==
  /\ onDisk \subseteq Names /\ gated \in BOOLEAN
  /\ current \in [Names -> 0..MaxObjects] /\ active \in [Names -> 0..MaxObjects]
  /\ made \in [Names -> 0..MaxObjects]
  /\ state \in [Names -> [Objects -> {"inactive", "activating", "active"}]]
  /\ registry \in [Tools -> Names \cup {"none"}]
  /\ wired \in [Names -> Nat] /\ loaded \in [Names -> Nat]
  /\ pc \in [Actors -> {"idle", "found", "evaluating", "activating", "loading",
                        "loaded", "unloading"}]
  /\ name \in [Actors -> Names \cup {"none"}] /\ object \in [Actors -> 0..MaxObjects]
  /\ todo \in [Actors -> SUBSET Names]

Init ==
  /\ onDisk \in SUBSET Names /\ gated = FALSE
  /\ current = [n \in Names |-> 0] /\ active = [n \in Names |-> 0]
  /\ made = [n \in Names |-> 0]
  /\ state = [n \in Names |-> [v \in Objects |-> "inactive"]]
  /\ registry = [t \in Tools |-> "none"]
  /\ wired = [n \in Names |-> 0] /\ loaded = [n \in Names |-> 0]
  /\ pc = [a \in Actors |-> "idle"] /\ name = [a \in Actors |-> "none"]
  /\ object = [a \in Actors |-> 0] /\ todo = [a \in Actors |-> {}]

-----------------------------------------------------------------------------
Goes(a, where) == pc' = [pc EXCEPT ![a] = where]

\* The call is over, and with an error an evaluation is too.
Returns(a, ok) ==
  /\ todo' = [todo EXCEPT ![a] = IF ok THEN @ ELSE {}]
  /\ Goes(a, IF ok /\ todo[a] # {} THEN "evaluating" ELSE "idle")
  /\ name' = [name EXCEPT ![a] = "none"] /\ object' = [object EXCEPT ![a] = 0]

Becomes(n, v, s) == state' = [state EXCEPT ![n][v] = s]

\* Files come and go; the admission function is set after the first
\* activations.
DiskChanges(n) ==
  /\ onDisk' = IF n \in onDisk THEN onDisk \ {n} ELSE onDisk \cup {n}
  /\ UNCHANGED <<gated, runtimeVars, actorVars>>

SetToolAdmissionFunc ==
  /\ ~gated /\ gated' = TRUE
  /\ UNCHANGED <<onDisk, runtimeVars, actorVars>>

-----------------------------------------------------------------------------
(* Discover: the loader looks at the disk, then the objects are replaced   *)
(* under the lock.                                                         *)

Scan(a) ==
  /\ pc[a] = "idle" /\ Goes(a, "found")
  /\ todo' = [todo EXCEPT ![a] = onDisk]
  /\ UNCHANGED <<onDisk, gated, name, object, runtimeVars>>

IsActive(n) == current[n] # 0 /\ state[n][current[n]] = "active"

Discover(a) ==
  /\ pc[a] = "found" /\ \A n \in todo[a] : made[n] < MaxObjects
  /\ made' = [n \in Names |-> IF n \in todo[a] THEN made[n] + 1 ELSE made[n]]
  /\ current' = [n \in Names |-> IF n \in todo[a] THEN made'[n]
                                 ELSE IF IsActive(n) THEN current[n] ELSE 0]
  /\ state' = [n \in Names |->
                 IF n \in todo[a] /\ IsActive(n)
                 THEN [state[n] EXCEPT ![made'[n]] = "active"] ELSE state[n]]
  /\ Goes(a, "idle") /\ todo' = [todo EXCEPT ![a] = {}]
  /\ UNCHANGED <<onDisk, gated, active, registry, wired, loaded, name, object>>

-----------------------------------------------------------------------------
(* EvaluateAndActivate, for the skills whose triggers match, and Activate. *)

Evaluate(a, T) ==
  /\ pc[a] = "idle" /\ T \subseteq {n \in Names : current[n] # 0} /\ T # {}
  /\ Goes(a, "evaluating") /\ todo' = [todo EXCEPT ![a] = T]
  /\ UNCHANGED <<onDisk, gated, name, object, runtimeVars>>

EvaluateNext(a, n) ==
  /\ pc[a] = "evaluating" /\ n \in todo[a]
  /\ todo' = [todo EXCEPT ![a] = @ \ {n}]
  /\ IF active[n] # 0
     THEN Goes(a, IF todo'[a] = {} THEN "idle" ELSE "evaluating") /\ UNCHANGED name
     ELSE Goes(a, "activating") /\ name' = [name EXCEPT ![a] = n]
  /\ UNCHANGED <<onDisk, gated, object, runtimeVars>>

Activate(a, n) ==
  /\ pc[a] = "idle" /\ Goes(a, "activating") /\ name' = [name EXCEPT ![a] = n]
  /\ UNCHANGED <<onDisk, gated, object, todo, runtimeVars>>

\* The skill is not there, or is not in a state to be activated.
Refused(a) ==
  LET n == name[a] IN
    /\ pc[a] = "activating" /\ (current[n] = 0 \/ (active[n] = 0 /\ IsActive(n)))
    /\ Returns(a, FALSE)
    /\ UNCHANGED <<onDisk, gated, runtimeVars>>

Activating(n) == state[n][current[n]] = "activating"

\* It is active, or another goroutine is at it.
AlreadyActive(a) ==
  LET n == name[a] IN
    /\ pc[a] = "activating" /\ current[n] # 0 /\ (active[n] # 0 \/ Activating(n))
    /\ Returns(a, TRUE)
    /\ UNCHANGED <<onDisk, gated, runtimeVars>>

\* The mutant takes an object another goroutine is activating.
Begin_Again(a) ==
  LET n == name[a] IN
    /\ pc[a] = "activating" /\ current[n] # 0 /\ active[n] = 0
    /\ state[n][current[n]] # "active"
    /\ Becomes(n, current[n], "activating")
    /\ object' = [object EXCEPT ![a] = current[n]] /\ Goes(a, "loading")
    /\ UNCHANGED <<onDisk, gated, current, active, made, registry, wired, loaded, name, todo>>

Begin(a) ==
  LET n == name[a] IN
    /\ pc[a] = "activating" /\ current[n] # 0 /\ active[n] = 0
    /\ state[n][current[n]] = "inactive"
    /\ Becomes(n, current[n], "activating")
    /\ object' = [object EXCEPT ![a] = current[n]] /\ Goes(a, "loading")
    /\ UNCHANGED <<onDisk, gated, current, active, made, registry, wired, loaded, name, todo>>

\* failActivation: a permission is missing, or the backend cannot be made or
\* loaded.  The mutant forgets the object.
LoadFails_Stuck(a) ==
  /\ pc[a] = "loading"
  /\ Returns(a, FALSE)
  /\ UNCHANGED <<onDisk, gated, runtimeVars>>

LoadFails(a) ==
  /\ pc[a] = "loading"
  /\ Becomes(name[a], object[a], "inactive") /\ Returns(a, FALSE)
  /\ UNCHANGED <<onDisk, gated, current, active, made, registry, wired, loaded>>

Load(a) ==
  /\ pc[a] = "loading" /\ Goes(a, "loaded")
  /\ loaded' = [loaded EXCEPT ![name[a]] = @ + 1]
  /\ UNCHANGED <<onDisk, gated, current, active, made, state, registry, wired,
                 name, object, todo>>

\* What is registered: the gate skips the tools it does not admit.
Brings(n) == IF gated THEN OwnTools[n] \cap Admitted ELSE OwnTools[n]
Conflict(n) == \E t \in Brings(n) : registry[t] # "none"

Registered(n, T) == [t \in Tools |-> IF t \in T THEN n ELSE registry[t]]

\* The rollback of a registration that did not get through.  The mutant has none.
TakenBack_Forgets(reg, T) == reg
TakenBack(reg, T) == [t \in Tools |-> IF t \in T THEN "none" ELSE reg[t]]

\* Another holds one of the names: those registered before it, whichever they
\* are, are taken back by their names, and the backend is unloaded after the
\* lock.
RegisterFails(a) ==
  LET n == name[a] IN
    /\ pc[a] = "loaded"
    /\ \E T \in SUBSET Brings(n) :
         /\ \A t \in T : registry[t] = "none"
         /\ \E t \in Brings(n) \ T : registry[t] # "none"
         /\ registry' = TakenBack(Registered(n, T), T)
    /\ Becomes(n, object[a], "inactive") /\ Goes(a, "unloading")
    /\ UNCHANGED <<onDisk, gated, current, active, made, wired, loaded, name, object,
                   todo>>

\* Its mutant does not unload.
Unload_Skipped(a) ==
  /\ pc[a] = "unloading" /\ Returns(a, FALSE)
  /\ UNCHANGED <<onDisk, gated, runtimeVars>>

Unload(a) ==
  /\ pc[a] = "unloading" /\ Returns(a, FALSE)
  /\ loaded' = [loaded EXCEPT ![name[a]] = @ - 1]
  /\ UNCHANGED <<onDisk, gated, current, active, made, state, registry, wired>>

Register(a) ==
  LET n == name[a] IN
    /\ pc[a] = "loaded" /\ ~Conflict(n)
    /\ registry' = Registered(n, Brings(n))
    /\ wired' = [wired EXCEPT ![n] = @ + 1]
    /\ Becomes(n, object[a], "active") /\ active' = [active EXCEPT ![n] = object[a]]
    /\ Returns(a, TRUE)
    /\ UNCHANGED <<onDisk, gated, current, made, loaded>>

-----------------------------------------------------------------------------
\* Deactivate, under the lock.  Every tool of the backend is unregistered by
\* its name, the ones the gate skipped too; hooks and prompts by the skill's.
Deactivate(n) ==
  /\ active[n] # 0
  /\ registry' = [t \in Tools |-> IF t \in OwnTools[n] THEN "none" ELSE registry[t]]
  /\ wired' = [wired EXCEPT ![n] = 0]
  /\ loaded' = [loaded EXCEPT ![n] = @ - 1]
  /\ Becomes(n, active[n], "inactive") /\ active' = [active EXCEPT ![n] = 0]
  /\ UNCHANGED <<onDisk, gated, current, made, actorVars>>

-----------------------------------------------------------------------------
Proceeds(a) ==
  \/ Discover(a) \/ Refused(a) \/ AlreadyActive(a) \/ Begin(a) \/ LoadFails(a) \/ Load(a)
  \/ RegisterFails(a) \/ Unload(a) \/ Register(a)
  \/ \E n \in Names : EvaluateNext(a, n)

Asked(a) ==
  \/ Scan(a)
  \/ \E T \in SUBSET Names : Evaluate(a, T)
  \/ \E n \in Names : Activate(a, n)

Next ==
  \/ \E a \in Actors : Proceeds(a) \/ Asked(a)
  \/ \E n \in Names : Deactivate(n) \/ DiskChanges(n)
  \/ SetToolAdmissionFunc

Spec == Init /\ [][Next]_vars

\* A goroutine goes on with the call it has begun: factories and backends are
\* assumed to return.
FairSpec == Spec /\ \A a \in Actors : WF_vars(Proceeds(a))

-----------------------------------------------------------------------------
Held(n) == {a \in Actors : name[a] = n /\ pc[a] \in {"loaded", "unloading"}}

(* No backend is lost: what is loaded belongs to the active skill or to a  *)
(* goroutine that is about to register or to unload it, and the hooks of   *)
(* an active skill are there once.  It needs a name that is registered:    *)
(* the registry is what turns a second activation away after a discovery   *)
(* has replaced the object of the first.                                   *)
BackendsAccounted ==
  \A n \in Names : OwnTools[n] \cap Admitted # {} =>
    LET here == IF active[n] # 0 THEN 1 ELSE 0 IN
      loaded[n] = here + Cardinality(Held(n)) /\ wired[n] = here

(* A tool in the registry has a skill behind it that is active: no failed  *)
(* activation and no deactivation leaves one.                              *)
NoOrphanTools == \A t \in Tools : registry[t] \in Names => active[registry[t]] # 0

(* "The active check and state transition must be atomic to prevent two    *)
(* goroutines from both passing the check": an object that is being        *)
(* activated is so by one goroutine, and by one to the end.                *)
OneActivator ==
  \A n \in Names, v \in Objects :
    state[n][v] = "activating" <=>
      Cardinality({a \in Actors : name[a] = n /\ object[a] = v
                                  /\ pc[a] \in {"loading", "loaded"}}) = 1

(* No object is left in "activating", where no later call activates it.    *)
ActivationsSettle ==
  \A n \in Names, v \in Objects :
    state[n][v] = "activating" ~> state[n][v] # "activating"
=============================================================================
