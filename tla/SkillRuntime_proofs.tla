-------------------------- MODULE SkillRuntime_proofs --------------------------
(***************************************************************************)
(* Proofs about SkillRuntime, for any skills, any tools they bring, any    *)
(* gate, any number of goroutines and of discoveries.                      *)
(*                                                                         *)
(* One invariant follows the objects of a skill through their states, one  *)
(* the names in the registry, and one counts the backends: the third needs *)
(* the second, which is what turns away the activation of an object a      *)
(* discovery has made while an older one is being loaded.                  *)
(***************************************************************************)
EXTENDS SkillRuntime, FiniteSetTheorems, TLAPS

\* Everything TypeOK says of the variables that are not counters.
ShapeOK ==
  /\ current \in [Names -> 0..MaxObjects] /\ active \in [Names -> 0..MaxObjects]
  /\ made \in [Names -> 0..MaxObjects]
  /\ state \in [Names -> [Objects -> {"inactive", "activating", "active"}]]
  /\ registry \in [Tools -> Names \cup {"none"}]
  /\ pc \in [Actors -> {"idle", "found", "evaluating", "activating", "loading",
                        "loaded", "unloading"}]
  /\ name \in [Actors -> Names \cup {"none"}] /\ object \in [Actors -> 0..MaxObjects]
  /\ todo \in [Actors -> SUBSET Names] /\ onDisk \subseteq Names /\ gated \in BOOLEAN

\* The goroutines between taking an object and letting it go.
AtWork(a) == pc[a] \in {"loading", "loaded"}

\* An object is taken by one goroutine at most; the one rt.active points to
\* is not taken; what is not made yet is inactive.
ObjectInv ==
  /\ \A a \in Actors : pc[a] \in {"activating", "unloading"} => name[a] \in Names
  /\ \A a \in Actors : AtWork(a) =>
       name[a] \in Names /\ object[a] \in Objects /\ state[name[a]][object[a]] = "activating"
  /\ \A a, b \in Actors :
       AtWork(a) /\ AtWork(b) /\ name[a] = name[b] /\ object[a] = object[b] => a = b
  /\ \A n \in Names, v \in Objects : state[n][v] = "activating" =>
       \E a \in Actors : AtWork(a) /\ name[a] = n /\ object[a] = v
  /\ \A n \in Names : /\ current[n] <= made[n] /\ active[n] <= made[n]
                      /\ active[n] # 0 => state[n][active[n]] = "active"
  /\ \A n \in Names, v \in Objects : v > made[n] => state[n][v] = "inactive"

\* A name is registered by a skill that brings it and is active, and an
\* active skill holds every name it brings that the gate admits.
RegistryInv ==
  /\ \A t \in Tools : registry[t] \in Names =>
       active[registry[t]] # 0 /\ t \in OwnTools[registry[t]]
  /\ \A n \in Names : active[n] # 0 => \A t \in OwnTools[n] \cap Admitted : registry[t] = n

Here(n) == IF active[n] # 0 THEN 1 ELSE 0

\* A skill with no admitted name may lose backends, but unloads none twice.
CountInv ==
  /\ loaded \in [Names -> Int] /\ wired \in [Names -> Nat]
  /\ \A n \in Names : loaded[n] >= Here(n) + Cardinality(Held(n))
  /\ BackendsAccounted

-----------------------------------------------------------------------------
(* Shapes.                                                                 *)

\* What a failed registration has registered is taken back, and nothing else: the
\* names it took were free.
LEMMA RolledBack ==
  ASSUME NEW a \in Actors, RegisterFails(a), registry \in [Tools -> Names \cup {"none"}]
  PROVE  UNCHANGED registry
<1>1. PICK T \in SUBSET Brings(name[a]) :
        /\ \A t \in T : registry[t] = "none"
        /\ registry' = TakenBack(Registered(name[a], T), T)
  BY DEF RegisterFails
<1>2. registry' = [t \in Tools |-> IF t \in T THEN "none" ELSE registry[t]]
  BY <1>1, Zenon DEF TakenBack, Registered
<1> QED
  BY <1>1, <1>2

LEMMA ObjectNumbers == MaxObjects \in Nat \ {0} /\ Objects = 1..MaxObjects
  BY SkillAssumption DEF Objects

\* What Becomes does to the objects.
LEMMA BecomesOne ==
  ASSUME ShapeOK, NEW n \in Names, NEW v \in Objects,
         NEW s \in {"inactive", "activating", "active"}, Becomes(n, v, s)
  PROVE  /\ state' \in [Names -> [Objects -> {"inactive", "activating", "active"}]]
         /\ state'[n][v] = s
         /\ \A m \in Names, w \in Objects : m # n \/ w # v => state'[m][w] = state[m][w]
  BY DEF ShapeOK, Becomes

\* What Returns does to the goroutines.
LEMMA ReturnsOne ==
  ASSUME ShapeOK, NEW a \in Actors, NEW ok \in BOOLEAN, Returns(a, ok)
  PROVE  /\ todo' \in [Actors -> SUBSET Names]
         /\ \E where \in {"idle", "evaluating"} : pc' = [pc EXCEPT ![a] = where]
         /\ name' = [name EXCEPT ![a] = "none"] /\ object' = [object EXCEPT ![a] = 0]
  BY DEF ShapeOK, Returns, Goes

LEMMA InitShape == Init => ShapeOK
<1> SUFFICES ASSUME Init PROVE ShapeOK
  OBVIOUS
<1>1. 0 \in 0..MaxObjects
  BY ObjectNumbers
<1> QED
  BY <1>1 DEF Init, ShapeOK

LEMMA CallShapes ==
  ASSUME ShapeOK, NEW a \in Actors,
         \/ Refused(a) \/ AlreadyActive(a) \/ Load(a) \/ Unload(a) \/ Scan(a)
         \/ \E n \in Names : EvaluateNext(a, n) \/ Activate(a, n)
         \/ \E T \in SUBSET Names : Evaluate(a, T)
  PROVE  ShapeOK'
<1> USE DEF ShapeOK, runtimeVars
<1>1. CASE Refused(a)
  BY <1>1, ObjectNumbers DEF Refused, Returns, Goes
<1>2. CASE AlreadyActive(a)
  BY <1>2, ObjectNumbers DEF AlreadyActive, Returns, Goes
<1>3. CASE Load(a)
  BY <1>3 DEF Load, Goes
<1>4. CASE Unload(a)
  BY <1>4, ObjectNumbers DEF Unload, Returns, Goes
<1>5. CASE Scan(a)
  BY <1>5 DEF Scan, Goes
<1>6. ASSUME NEW n \in Names, EvaluateNext(a, n) PROVE ShapeOK'
  <2>1. todo' \in [Actors -> SUBSET Names] /\ name' \in [Actors -> Names \cup {"none"}]
    BY <1>6 DEF EvaluateNext
  <2>2. \E where \in {"idle", "evaluating", "activating"} : pc' = [pc EXCEPT ![a] = where]
    BY <1>6 DEF EvaluateNext, Goes
  <2> QED
    BY <1>6, <2>1, <2>2 DEF EvaluateNext
<1>7. ASSUME NEW n \in Names, Activate(a, n) PROVE ShapeOK'
  BY <1>7 DEF Activate, Goes
<1>8. ASSUME NEW T \in SUBSET Names, Evaluate(a, T) PROVE ShapeOK'
  BY <1>8 DEF Evaluate, Goes
<1> QED
  BY <1>1, <1>2, <1>3, <1>4, <1>5, <1>6, <1>7, <1>8

LEMMA DiscoverShape ==
  ASSUME ShapeOK, NEW a \in Actors, Discover(a)
  PROVE  /\ ShapeOK'
         /\ \A n \in Names :
              /\ made'[n] \in {made[n], made[n] + 1} /\ made[n] \in Nat
              /\ current'[n] \in {made'[n], current[n], 0}
              /\ state'[n] = state[n]
                 \/ (made'[n] = made[n] + 1 /\ made'[n] \in Objects
                     /\ state'[n] = [state[n] EXCEPT ![made'[n]] = "active"])
<1> USE DEF ShapeOK
<1>1. \A n \in Names :
        /\ made'[n] \in 0..MaxObjects
        /\ made'[n] \in {made[n], made[n] + 1} /\ made[n] \in Nat
        /\ n \in todo[a] => made'[n] = made[n] + 1 /\ made'[n] \in Objects
  BY ObjectNumbers DEF Discover
<1>2. \A n \in Names :
        /\ current'[n] \in {made'[n], current[n], 0}
        /\ state'[n] = state[n]
           \/ (n \in todo[a] /\ state'[n] = [state[n] EXCEPT ![made'[n]] = "active"])
  BY DEF Discover
<1>3. made' \in [Names -> 0..MaxObjects]
  BY <1>1 DEF Discover
<1>4. current' \in [Names -> 0..MaxObjects]
  BY <1>1, <1>2, ObjectNumbers DEF Discover
<1>5. state' \in [Names -> [Objects -> {"inactive", "activating", "active"}]]
  <2>1. ASSUME NEW n \in Names
        PROVE  state'[n] \in [Objects -> {"inactive", "activating", "active"}]
    <3>1. state[n] \in [Objects -> {"inactive", "activating", "active"}]
      OBVIOUS
    <3>2. state'[n] \in {state[n], [state[n] EXCEPT ![made'[n]] = "active"]}
      BY <1>2
    <3>3. \A f \in [Objects -> {"inactive", "activating", "active"}] : \A v :
            [f EXCEPT ![v] = "active"] \in [Objects -> {"inactive", "activating", "active"}]
      OBVIOUS
    <3> QED
      BY <3>1, <3>2, <3>3
  <2>2. state' = [n \in Names |-> state'[n]]
    BY DEF Discover
  <2> QED
    BY <2>1, <2>2
<1>6. /\ pc' = [pc EXCEPT ![a] = "idle"] /\ todo' = [todo EXCEPT ![a] = {}]
      /\ UNCHANGED <<onDisk, gated, active, registry, name, object>>
  BY DEF Discover, Goes
<1> QED
  BY <1>1, <1>2, <1>3, <1>4, <1>5, <1>6

\* The steps that change the state of one object.
LEMMA ObjectShapes ==
  ASSUME ShapeOK, ObjectInv, NEW a \in Actors,
         Begin(a) \/ LoadFails(a) \/ RegisterFails(a) \/ Register(a)
  PROVE  ShapeOK'
<1> USE DEF ShapeOK
<1>1. CASE Begin(a)
  <2>1. name[a] \in Names /\ current[name[a]] \in Objects
    BY <1>1, ObjectNumbers DEF Begin, ObjectInv
  <2>2. state' \in [Names -> [Objects -> {"inactive", "activating", "active"}]]
    BY <1>1, <2>1, BecomesOne DEF Begin
  <2> QED
    BY <1>1, <2>1, <2>2 DEF Begin, Goes
<1>2. CASE LoadFails(a) \/ RegisterFails(a) \/ Register(a)
  <2>1. name[a] \in Names /\ object[a] \in Objects
    BY <1>2 DEF LoadFails, RegisterFails, Register, ObjectInv, AtWork
  <2>2. state' \in [Names -> [Objects -> {"inactive", "activating", "active"}]]
    BY <1>2, <2>1, BecomesOne DEF LoadFails, RegisterFails, Register
  <2>3. CASE LoadFails(a)
    BY <2>2, <2>3, ObjectNumbers DEF LoadFails, Returns, Goes
  <2>4. CASE RegisterFails(a)
    BY <2>2, <2>4, RolledBack DEF RegisterFails, Goes
  <2>5. CASE Register(a)
    BY <2>1, <2>2, <2>5, ObjectNumbers DEF Register, Registered, Returns, Goes
  <2> QED
    BY <1>2, <2>3, <2>4, <2>5
<1> QED
  BY <1>1, <1>2

LEMMA DeactivateShape ==
  ASSUME ShapeOK, NEW n \in Names, Deactivate(n)
  PROVE  ShapeOK' /\ active[n] \in Objects
<1> USE DEF ShapeOK
<1>1. active[n] \in Objects
  BY ObjectNumbers DEF Deactivate
<1>2. state' \in [Names -> [Objects -> {"inactive", "activating", "active"}]]
  BY <1>1, BecomesOne DEF Deactivate
<1>3. registry' \in [Tools -> Names \cup {"none"}]
  BY DEF Deactivate
<1>4. active' \in [Names -> 0..MaxObjects]
  BY ObjectNumbers DEF Deactivate
<1>5. UNCHANGED <<onDisk, gated, current, made, pc, name, object, todo>>
  BY DEF Deactivate, actorVars
<1> QED
  BY <1>1, <1>2, <1>3, <1>4, <1>5

LEMMA StepShape == ShapeOK /\ ObjectInv /\ [Next]_vars => ShapeOK'
<1> SUFFICES ASSUME ShapeOK, ObjectInv, [Next]_vars PROVE ShapeOK'
  OBVIOUS
<1>1. ASSUME NEW n \in Names, DiskChanges(n) PROVE ShapeOK'
  BY <1>1 DEF DiskChanges, ShapeOK, runtimeVars, actorVars
<1>2. CASE SetToolAdmissionFunc \/ UNCHANGED vars
  BY <1>2 DEF SetToolAdmissionFunc, vars, ShapeOK, runtimeVars, actorVars
<1> QED
  BY <1>1, <1>2, CallShapes, DiscoverShape, ObjectShapes, DeactivateShape
  DEF Next, Proceeds, Asked

-----------------------------------------------------------------------------
(* Objects.                                                                *)

LEMMA InitObjects == Init => ObjectInv
  BY ObjectNumbers DEF Init, ObjectInv, AtWork

\* Steps that leave the objects alone and take none.
LEMMA ObjectsKept ==
  ASSUME ObjectInv, UNCHANGED <<current, active, made, state>>,
         \A b \in Actors : /\ AtWork(b)' <=> AtWork(b)
                           /\ AtWork(b) => UNCHANGED <<name[b], object[b]>>
                           /\ pc'[b] \in {"activating", "unloading"} => name'[b] \in Names
  PROVE  ObjectInv'
<1>1. \A b \in Actors : pc'[b] \in {"activating", "unloading"} => name'[b] \in Names
  OBVIOUS
<1>2. \A b \in Actors : AtWork(b)' =>
        AtWork(b) /\ name'[b] = name[b] /\ object'[b] = object[b]
  OBVIOUS
<1>3. \A b \in Actors : AtWork(b) =>
        AtWork(b)' /\ name'[b] = name[b] /\ object'[b] = object[b]
  OBVIOUS
<1> HIDE DEF AtWork
<1>4. \A n \in Names, v \in Objects : state'[n][v] = "activating" =>
        \E b \in Actors : AtWork(b)' /\ name'[b] = n /\ object'[b] = v
  <2> SUFFICES ASSUME NEW n \in Names, NEW v \in Objects, state[n][v] = "activating"
               PROVE  \E b \in Actors : AtWork(b)' /\ name'[b] = n /\ object'[b] = v
    OBVIOUS
  <2>1. PICK b \in Actors : AtWork(b) /\ name[b] = n /\ object[b] = v
    BY DEF ObjectInv
  <2> QED
    BY <1>3, <2>1
<1> QED
  BY <1>1, <1>2, <1>4 DEF ObjectInv

LEMMA CallObjects ==
  ASSUME ShapeOK, ObjectInv, NEW a \in Actors,
         \/ Refused(a) \/ AlreadyActive(a) \/ Load(a) \/ Unload(a) \/ Scan(a)
         \/ \E n \in Names : EvaluateNext(a, n) \/ Activate(a, n)
         \/ \E T \in SUBSET Names : Evaluate(a, T)
  PROVE  ObjectInv'
<1>1. UNCHANGED <<current, active, made, state>>
  BY DEF Refused, AlreadyActive, Load, Unload, Scan, EvaluateNext, Activate, Evaluate, runtimeVars
<1>2. \A b \in Actors \ {a} : UNCHANGED <<pc[b], name[b], object[b]>>
  BY DEF Refused, AlreadyActive, Load, Unload, Scan, EvaluateNext, Activate, Evaluate,
     Returns, Goes, ShapeOK
<1>3. \/ ~AtWork(a) /\ pc'[a] \notin {"loading", "loaded"}
      \/ AtWork(a) /\ pc'[a] = "loaded" /\ UNCHANGED <<name[a], object[a]>>
  BY DEF Refused, AlreadyActive, Load, Unload, Scan, EvaluateNext, Activate, Evaluate,
     Returns, Goes, ShapeOK, AtWork
<1>4. pc'[a] \in {"activating", "unloading"} => name'[a] \in Names
  BY DEF Refused, AlreadyActive, Load, Unload, Scan, EvaluateNext, Activate, Evaluate,
     Returns, Goes, ShapeOK
<1>5. \A b \in Actors : pc'[b] \in {"activating", "unloading"} => name'[b] \in Names
  BY <1>2, <1>4 DEF ObjectInv
<1>6. \A b \in Actors : /\ AtWork(b)' <=> AtWork(b)
                        /\ AtWork(b) => UNCHANGED <<name[b], object[b]>>
  BY <1>2, <1>3 DEF AtWork
<1> QED
  BY <1>1, <1>5, <1>6, ObjectsKept

LEMMA DiscoverObjects ==
  ASSUME ShapeOK, ObjectInv, NEW a \in Actors, Discover(a)
  PROVE  ObjectInv'
<1>1. /\ \A b \in Actors : AtWork(b)' <=> AtWork(b)
      /\ \A b \in Actors : pc'[b] \in {"activating", "unloading"} => pc[b] = pc'[b]
      /\ UNCHANGED <<active, name, object>>
  BY DEF Discover, Goes, ShapeOK, AtWork
<1>2. \A n \in Names :
        /\ current'[n] <= made'[n] /\ active'[n] <= made'[n]
        /\ active'[n] # 0 => active[n] \in Objects /\ active[n] <= made[n]
  <2> SUFFICES ASSUME NEW n \in Names
               PROVE  /\ current'[n] <= made'[n] /\ active'[n] <= made'[n]
                      /\ active'[n] # 0 => active[n] \in Objects /\ active[n] <= made[n]
    OBVIOUS
  <2>1. current[n] \in Nat /\ active[n] \in 0..MaxObjects /\ made[n] \in Nat /\ MaxObjects \in Nat
    BY ObjectNumbers DEF ShapeOK
  <2>2. current[n] <= made[n] /\ active[n] <= made[n]
    BY DEF ObjectInv
  <2>3. made'[n] \in {made[n], made[n] + 1} /\ current'[n] \in {made'[n], current[n], 0}
    BY DiscoverShape
  <2> QED
    BY <1>1, <2>1, <2>2, <2>3, ObjectNumbers
\* The new object was inactive, so no other one changes.
<1>3. \A n \in Names, v \in Objects :
        \/ state'[n][v] = state[n][v] /\ (v > made'[n] => v > made[n])
        \/ state[n][v] = "inactive" /\ state'[n][v] = "active" /\ ~(v > made'[n])
  <2> SUFFICES ASSUME NEW n \in Names, NEW v \in Objects
               PROVE  \/ state'[n][v] = state[n][v] /\ (v > made'[n] => v > made[n])
                      \/ state[n][v] = "inactive" /\ state'[n][v] = "active" /\ ~(v > made'[n])
    OBVIOUS
  <2>1. v \in Nat /\ made[n] \in Nat /\ made'[n] \in {made[n], made[n] + 1}
    <3>1. v \in Nat
      BY ObjectNumbers
    <3>2. made[n] \in Nat /\ made'[n] \in {made[n], made[n] + 1}
      BY DiscoverShape
    <3> QED
      BY <3>1, <3>2
  <2>2. state'[n] = state[n]
        \/ (made'[n] = made[n] + 1 /\ state'[n] = [state[n] EXCEPT ![made'[n]] = "active"])
    BY DiscoverShape
  <2>3. v > made[n] => state[n][v] = "inactive"
    BY DEF ObjectInv
  <2>4. state[n] \in [Objects -> {"inactive", "activating", "active"}]
    BY DEF ShapeOK
  <2> QED
    BY <2>1, <2>2, <2>3, <2>4
<1>4. \A n \in Names, v \in Objects : state'[n][v] = "activating" <=> state[n][v] = "activating"
  BY <1>3
<1>5. \A n \in Names, v \in Objects : state[n][v] = "active" => state'[n][v] = "active"
  BY <1>3
<1>6. \A n \in Names, v \in Objects : v > made'[n] => state'[n][v] = "inactive"
  BY <1>3 DEF ObjectInv
<1> HIDE DEF AtWork
<1> QED
  BY <1>1, <1>2, <1>4, <1>5, <1>6 DEF ObjectInv

LEMMA BeginObjects ==
  ASSUME ShapeOK, ObjectInv, NEW a \in Actors, Begin(a)
  PROVE  ObjectInv'
<1> DEFINE n == name[a]
           v == current[n]
<1>1. n \in Names /\ v \in Objects /\ v <= made[n] /\ state[n][v] = "inactive" /\ active[n] = 0
  BY ObjectNumbers DEF Begin, ObjectInv, ShapeOK
<1>2. /\ state'[n][v] = "activating"
      /\ \A m \in Names, w \in Objects : m # n \/ w # v => state'[m][w] = state[m][w]
  BY <1>1, BecomesOne DEF Begin
<1>3. UNCHANGED <<current, active, made, name>>
  BY DEF Begin
<1>4. /\ ~AtWork(a) /\ AtWork(a)' /\ pc'[a] = "loading" /\ object'[a] = v
      /\ \A b \in Actors \ {a} : /\ AtWork(b)' <=> AtWork(b)
                                 /\ UNCHANGED <<pc[b], object[b]>>
  BY DEF Begin, Goes, ShapeOK, AtWork
<1> HIDE DEF AtWork
<1>5. \A b \in Actors \ {a} : AtWork(b) =>
        name[b] \in Names /\ object[b] \in Objects /\ state[name[b]][object[b]] = "activating"
  BY DEF ObjectInv
<1>6. \A b \in Actors \ {a} : AtWork(b) => name[b] # n \/ object[b] # v
  BY <1>1, <1>5
<1> HIDE DEF n, v
<1>7. \A b \in Actors : AtWork(b)' =>
        /\ name'[b] \in Names /\ object'[b] \in Objects
        /\ state'[name'[b]][object'[b]] = "activating"
  <2>1. AtWork(a)' => /\ name'[a] \in Names /\ object'[a] \in Objects
                      /\ state'[name'[a]][object'[a]] = "activating"
    BY <1>1, <1>2, <1>3, <1>4 DEF n
  <2> QED
    BY <1>2, <1>3, <1>4, <1>5, <1>6, <2>1
<1>8. \A b, c \in Actors :
        AtWork(b)' /\ AtWork(c)' /\ name'[b] = name'[c] /\ object'[b] = object'[c] => b = c
  <2>1. \A c \in Actors : AtWork(c)' /\ name'[c] = name'[a] /\ object'[c] = object'[a] => c = a
    BY <1>3, <1>4, <1>6 DEF n
  <2> QED
    BY <1>3, <1>4, <2>1 DEF ObjectInv
<1>9. \A m \in Names, w \in Objects : state'[m][w] = "activating" =>
        \E b \in Actors : AtWork(b)' /\ name'[b] = m /\ object'[b] = w
  <2> SUFFICES ASSUME NEW m \in Names, NEW w \in Objects, state'[m][w] = "activating"
               PROVE  \E b \in Actors : AtWork(b)' /\ name'[b] = m /\ object'[b] = w
    OBVIOUS
  <2>1. CASE m = n /\ w = v
    BY <1>3, <1>4, <2>1 DEF n
  <2>2. CASE m # n \/ w # v
    <3>1. PICK b \in Actors : AtWork(b) /\ name[b] = m /\ object[b] = w
      BY <1>2, <2>2 DEF ObjectInv
    <3> QED
      BY <1>3, <1>4, <3>1
  <2> QED
    BY <2>1, <2>2
<1>10. \A m \in Names : active[m] # 0 => active[m] \in Objects
  BY ObjectNumbers DEF ShapeOK
<1>11. \A m \in Names : /\ current'[m] <= made'[m] /\ active'[m] <= made'[m]
                        /\ active'[m] # 0 => state'[m][active'[m]] = "active"
  BY <1>1, <1>2, <1>3, <1>10 DEF ObjectInv
<1>12. \A m \in Names, w \in Objects : w > made'[m] => state'[m][w] = "inactive"
  <2>1. \A w \in Objects : w > made[n] => w # v
    BY <1>1, ObjectNumbers DEF ShapeOK
  <2> QED
    BY <1>2, <1>3, <2>1 DEF ObjectInv
<1>13. \A b \in Actors : pc'[b] \in {"activating", "unloading"} => name'[b] \in Names
  BY <1>3, <1>4 DEF ObjectInv
<1> QED
  BY <1>7, <1>8, <1>9, <1>11, <1>12, <1>13 DEF ObjectInv

\* A goroutine lets its object go, which rt.active may point to now.
LEMMA ReleaseObjects ==
  ASSUME ShapeOK, ObjectInv, NEW a \in Actors,
         LoadFails(a) \/ RegisterFails(a) \/ Register(a)
  PROVE  ObjectInv'
<1> DEFINE n == name[a]
           v == object[a]
<1>1. AtWork(a) /\ n \in Names /\ v \in Objects /\ state[n][v] = "activating"
  BY DEF LoadFails, RegisterFails, Register, ObjectInv, AtWork
<1>2. /\ state'[n][v] = IF Register(a) THEN "active" ELSE "inactive"
      /\ \A m \in Names, w \in Objects : m # n \/ w # v => state'[m][w] = state[m][w]
  <2>1. CASE Register(a)
    BY <1>1, <2>1, BecomesOne DEF Register
  <2>2. CASE ~Register(a)
    BY <1>1, <2>2, BecomesOne DEF LoadFails, RegisterFails
  <2> QED
    BY <2>1, <2>2
<1>3. /\ UNCHANGED <<current, made>>
      /\ active' = IF Register(a) THEN [active EXCEPT ![n] = v] ELSE active
  <2>1. CASE Register(a)
    BY <2>1 DEF Register
  <2>2. CASE ~Register(a)
    BY <2>2 DEF LoadFails, RegisterFails
  <2> QED
    BY <2>1, <2>2
<1>4. /\ ~AtWork(a)' /\ pc'[a] # "activating" /\ (pc'[a] = "unloading" => name'[a] = n)
      /\ \A b \in Actors \ {a} : /\ AtWork(b)' <=> AtWork(b)
                                 /\ UNCHANGED <<pc[b], name[b], object[b]>>
  <2>1. CASE RegisterFails(a)
    BY <2>1 DEF RegisterFails, Goes, ShapeOK, AtWork
  <2>2. CASE LoadFails(a) \/ Register(a)
    <3>1. PICK ok \in BOOLEAN : Returns(a, ok)
      BY <2>2 DEF LoadFails, Register
    <3> QED
      BY <3>1, ReturnsOne DEF ShapeOK, AtWork
  <2> QED
    BY <2>1, <2>2
<1> HIDE DEF AtWork
<1>5. \A b \in Actors \ {a} : AtWork(b) => name[b] # n \/ object[b] # v
  BY <1>1 DEF ObjectInv
<1> HIDE DEF n, v
<1>6. \A b \in Actors : AtWork(b)' =>
        /\ name'[b] \in Names /\ object'[b] \in Objects
        /\ state'[name'[b]][object'[b]] = "activating"
  BY <1>2, <1>4, <1>5 DEF ObjectInv
<1>7. \A b, c \in Actors :
        AtWork(b)' /\ AtWork(c)' /\ name'[b] = name'[c] /\ object'[b] = object'[c] => b = c
  BY <1>4 DEF ObjectInv
<1>8. \A m \in Names, w \in Objects : state'[m][w] = "activating" =>
        \E b \in Actors : AtWork(b)' /\ name'[b] = m /\ object'[b] = w
  <2> SUFFICES ASSUME NEW m \in Names, NEW w \in Objects, state'[m][w] = "activating"
               PROVE  \E b \in Actors : AtWork(b)' /\ name'[b] = m /\ object'[b] = w
    OBVIOUS
  <2>1. (m # n \/ w # v) /\ state[m][w] = "activating"
    BY <1>2
  <2>2. PICK b \in Actors : AtWork(b) /\ name[b] = m /\ object[b] = w
    BY <2>1 DEF ObjectInv
  <2>3. b # a
    BY <2>1, <2>2 DEF n, v
  <2> QED
    BY <1>4, <2>2, <2>3
<1>9. \A m \in Names : active[m] # 0 =>
        active[m] \in Objects /\ state[m][active[m]] = "active"
  BY ObjectNumbers DEF ShapeOK, ObjectInv
<1>10. v <= made[n]
  <2>1. v \in Nat /\ made[n] \in Nat
    BY <1>1, ObjectNumbers DEF ShapeOK
  <2>2. ~(v > made[n])
    BY <1>1 DEF ObjectInv
  <2> QED
    BY <2>1, <2>2
<1>11. \A m \in Names : /\ current'[m] <= made'[m] /\ active'[m] <= made'[m]
                        /\ active'[m] # 0 => state'[m][active'[m]] = "active"
  <2>1. CASE Register(a)
    <3>1. active'[n] = v /\ \A m \in Names : m # n => active'[m] = active[m]
      BY <1>1, <1>3, <2>1 DEF ShapeOK
    <3> QED
      BY <1>2, <1>3, <1>9, <1>10, <2>1, <3>1 DEF ObjectInv
  <2>2. CASE ~Register(a)
    <3>1. \A m \in Names : active[m] # 0 => m # n \/ active[m] # v
      BY <1>1, <1>9
    <3> QED
      BY <1>2, <1>3, <1>9, <2>2, <3>1 DEF ObjectInv
  <2> QED
    BY <2>1, <2>2
<1>12. \A m \in Names, w \in Objects : w > made'[m] => state'[m][w] = "inactive"
  <2>1. \A w \in Objects : w > made[n] => w # v
    BY <1>1, <1>10, ObjectNumbers DEF ShapeOK
  <2> QED
    BY <1>2, <1>3, <2>1 DEF ObjectInv
<1>13. \A b \in Actors : pc'[b] \in {"activating", "unloading"} => name'[b] \in Names
  BY <1>1, <1>4 DEF ObjectInv
<1> QED
  BY <1>6, <1>7, <1>8, <1>11, <1>12, <1>13 DEF ObjectInv

LEMMA DeactivateObjects ==
  ASSUME ShapeOK, ObjectInv, NEW n \in Names, Deactivate(n)
  PROVE  ObjectInv'
<1>1. active[n] \in Objects /\ state[n][active[n]] = "active"
  BY DeactivateShape DEF Deactivate, ObjectInv
<1>2. /\ state'[n][active[n]] = "inactive"
      /\ \A m \in Names, w \in Objects :
           m # n \/ w # active[n] => state'[m][w] = state[m][w]
  BY <1>1, BecomesOne DEF Deactivate
<1>3. /\ UNCHANGED <<current, made, pc, name, object>>
      /\ active'[n] = 0 /\ \A m \in Names : m # n => active'[m] = active[m]
  BY DEF Deactivate, actorVars, ShapeOK
<1>4. \A m \in Names, w \in Objects :
        state'[m][w] = "activating" <=> state[m][w] = "activating"
  BY <1>1, <1>2
<1>5. \A m \in Names : /\ current'[m] <= made'[m] /\ active'[m] <= made'[m]
                       /\ active'[m] # 0 => state'[m][active'[m]] = "active"
  <2>1. \A m \in Names : active[m] # 0 => active[m] \in Objects
    BY ObjectNumbers DEF ShapeOK
  <2>2. made[n] \in Nat
    BY ObjectNumbers DEF ShapeOK
  <2> QED
    BY <1>2, <1>3, <2>1, <2>2 DEF ObjectInv
<1>6. \A m \in Names, w \in Objects : w > made'[m] => state'[m][w] = "inactive"
  BY <1>2, <1>3 DEF ObjectInv
<1>7. \A b \in Actors : AtWork(b)' <=> AtWork(b)
  BY <1>3 DEF AtWork
<1> HIDE DEF AtWork
<1> QED
  BY <1>3, <1>4, <1>5, <1>6, <1>7 DEF ObjectInv

LEMMA StepObjects == ShapeOK /\ ObjectInv /\ [Next]_vars => ObjectInv'
<1> SUFFICES ASSUME ShapeOK, ObjectInv, [Next]_vars PROVE ObjectInv'
  OBVIOUS
<1>1. ASSUME UNCHANGED <<current, active, made, state, pc, name, object>> PROVE ObjectInv'
  BY <1>1 DEF ObjectInv, AtWork
<1>2. ASSUME NEW n \in Names, DiskChanges(n) PROVE ObjectInv'
  BY <1>1, <1>2 DEF DiskChanges, runtimeVars, actorVars
<1>3. CASE SetToolAdmissionFunc \/ UNCHANGED vars
  BY <1>1, <1>3 DEF SetToolAdmissionFunc, vars, runtimeVars, actorVars
<1> QED
  BY <1>2, <1>3, CallObjects, DiscoverObjects, BeginObjects, ReleaseObjects, DeactivateObjects
  DEF Next, Proceeds, Asked

LEMMA AlwaysObjects == Spec => [](ShapeOK /\ ObjectInv)
  BY InitShape, InitObjects, StepShape, StepObjects, PTL DEF Spec

\* "The active check and state transition must be atomic": an object that is
\* being activated is in the hands of one goroutine, however many call
\* Activate for it and whatever discoveries and deactivations come between.
THEOREM ActivatedByOne == Spec => []OneActivator
<1>1. ShapeOK /\ ObjectInv => OneActivator
  <2> SUFFICES ASSUME ShapeOK, ObjectInv, NEW n \in Names, NEW v \in Objects
               PROVE  state[n][v] = "activating" <=>
                        Cardinality({a \in Actors : name[a] = n /\ object[a] = v
                                       /\ pc[a] \in {"loading", "loaded"}}) = 1
    BY DEF OneActivator
  <2> DEFINE A == {a \in Actors : name[a] = n /\ object[a] = v
                                  /\ pc[a] \in {"loading", "loaded"}}
  <2>1. CASE state[n][v] = "activating"
    <3>1. PICK a \in A : TRUE
      BY <2>1 DEF ObjectInv, AtWork
    <3>2. A = {a}
      BY <3>1 DEF ObjectInv, AtWork
    <3> QED
      BY <2>1, <3>2, FS_Singleton
  <2>2. CASE state[n][v] # "activating"
    <3>1. A = {}
      BY <2>2 DEF ObjectInv, AtWork
    <3> QED
      BY <2>2, <3>1, FS_EmptySet
  <2> QED
    BY <2>1, <2>2
<1> QED
  BY <1>1, AlwaysObjects, PTL

-----------------------------------------------------------------------------
(* The registry.                                                           *)

LEMMA InitRegistry == Init => RegistryInv
  BY SkillAssumption DEF Init, RegistryInv

\* Brings lies between what the gate admits and what the skill owns.
LEMMA BroughtNames ==
  ASSUME NEW n \in Names
  PROVE  OwnTools[n] \cap Admitted \subseteq Brings(n) /\ Brings(n) \subseteq OwnTools[n]
         /\ OwnTools[n] \subseteq Tools
  BY SkillAssumption DEF Brings

\* A skill registers over nobody, so that no two active ones hold a name.
LEMMA RegisterRegistry ==
  ASSUME ShapeOK, ObjectInv, RegistryInv, NEW a \in Actors, Register(a)
  PROVE  RegistryInv'
<1> DEFINE n == name[a]
<1>1. n \in Names /\ object[a] # 0 /\ \A t \in Brings(n) : registry[t] = "none"
  BY ObjectNumbers DEF Register, Conflict, ObjectInv, AtWork
<1>2. active'[n] # 0 /\ \A m \in Names : m # n => active'[m] = active[m]
  BY <1>1 DEF Register, ShapeOK
<1>3. \A t \in Tools : registry'[t] = IF t \in Brings(n) THEN n ELSE registry[t]
  BY DEF Register, Registered
<1>4. "none" \notin Names
  BY SkillAssumption
<1> HIDE DEF n
<1>5. \A t \in Tools : registry'[t] \in Names =>
        active'[registry'[t]] # 0 /\ t \in OwnTools[registry'[t]]
  BY <1>1, <1>2, <1>3, BroughtNames DEF RegistryInv
<1>6. \A m \in Names : active'[m] # 0 => \A t \in OwnTools[m] \cap Admitted : registry'[t] = m
  <2> SUFFICES ASSUME NEW m \in Names, active'[m] # 0, NEW t \in OwnTools[m] \cap Admitted
               PROVE  registry'[t] = m
    OBVIOUS
  <2>1. t \in Tools
    BY BroughtNames
  <2>2. CASE m = n
    BY <1>1, <1>3, <2>1, <2>2, BroughtNames
  <2>3. CASE m # n
    <3>1. registry[t] = m
      BY <1>2, <2>3 DEF RegistryInv
    <3>2. t \notin Brings(n)
      BY <1>1, <1>4, <3>1
    <3> QED
      BY <1>3, <2>1, <3>1, <3>2
  <2> QED
    BY <2>2, <2>3
<1> QED
  BY <1>5, <1>6 DEF RegistryInv

LEMMA DeactivateRegistry ==
  ASSUME ShapeOK, RegistryInv, NEW n \in Names, Deactivate(n)
  PROVE  RegistryInv'
<1>1. active[n] # 0 /\ active'[n] = 0 /\ \A m \in Names : m # n => active'[m] = active[m]
  BY DEF Deactivate, ShapeOK
<1>2. \A t \in Tools : registry'[t] = IF t \in OwnTools[n] THEN "none" ELSE registry[t]
  BY DEF Deactivate
<1>3. "none" \notin Names
  BY SkillAssumption
<1>4. \A t \in Tools : registry'[t] \in Names =>
        active'[registry'[t]] # 0 /\ t \in OwnTools[registry'[t]]
  BY <1>1, <1>2, <1>3 DEF RegistryInv
<1>5. \A m \in Names : active'[m] # 0 => \A t \in OwnTools[m] \cap Admitted : registry'[t] = m
  <2> SUFFICES ASSUME NEW m \in Names, active'[m] # 0, NEW t \in OwnTools[m] \cap Admitted
               PROVE  registry'[t] = m
    OBVIOUS
  <2>1. t \in Tools /\ m # n /\ registry[t] = m
    BY <1>1, BroughtNames DEF RegistryInv
  <2>2. t \notin OwnTools[n]
    <3>1. t \in OwnTools[n] => registry[t] = n
      BY <1>1 DEF RegistryInv
    <3> QED
      BY <2>1, <3>1
  <2> QED
    BY <1>2, <2>1, <2>2
<1> QED
  BY <1>4, <1>5 DEF RegistryInv

LEMMA StepRegistry == ShapeOK /\ ObjectInv /\ RegistryInv /\ [Next]_vars => RegistryInv'
<1> SUFFICES ASSUME ShapeOK, ObjectInv, RegistryInv, [Next]_vars PROVE RegistryInv'
  OBVIOUS
<1>1. ASSUME UNCHANGED <<active, registry>> PROVE RegistryInv'
  BY <1>1 DEF RegistryInv
<1>2. ASSUME NEW a \in Actors, Proceeds(a), ~Register(a) PROVE RegistryInv'
  <2>1. CASE RegisterFails(a)
    BY <1>1, <2>1, RolledBack DEF RegisterFails, ShapeOK
  <2>2. CASE ~RegisterFails(a)
    BY <1>1, <1>2, <2>2 DEF Proceeds, Discover, Refused, AlreadyActive, Begin, LoadFails,
       Load, Unload, EvaluateNext, runtimeVars
  <2> QED
    BY <2>1, <2>2
<1>3. ASSUME NEW a \in Actors, Asked(a) PROVE RegistryInv'
  BY <1>1, <1>3 DEF Asked, Scan, Evaluate, Activate, runtimeVars
<1>4. ASSUME NEW n \in Names, DiskChanges(n) PROVE RegistryInv'
  BY <1>1, <1>4 DEF DiskChanges, runtimeVars
<1>5. CASE SetToolAdmissionFunc \/ UNCHANGED vars
  BY <1>1, <1>5 DEF SetToolAdmissionFunc, vars, runtimeVars
<1> QED
  BY <1>2, <1>3, <1>4, <1>5, RegisterRegistry, DeactivateRegistry DEF Next

LEMMA AlwaysRegistry == Spec => [](ShapeOK /\ ObjectInv /\ RegistryInv)
  BY InitRegistry, StepRegistry, InitShape, InitObjects, StepShape, StepObjects, PTL DEF Spec

\* No tool, command or agent definition outlives its skill: whatever fails,
\* and in whatever order skills come and go, a name in the registry has an
\* active skill behind it.
THEOREM ToolsHaveOwners == Spec => []NoOrphanTools
<1>1. RegistryInv => NoOrphanTools
  BY DEF RegistryInv, NoOrphanTools
<1> QED
  BY <1>1, AlwaysRegistry, PTL

-----------------------------------------------------------------------------
(* Backends.                                                               *)

LEMMA HeldFinite == \A n : IsFiniteSet(Held(n)) /\ Cardinality(Held(n)) \in Nat
<1>1. \A n : IsFiniteSet(Held(n))
  BY SkillAssumption, FS_Subset DEF Held
<1> QED
  BY <1>1, FS_CardinalityType

LEMMA InitCounts == Init => CountInv
<1> SUFFICES ASSUME Init PROVE CountInv
  OBVIOUS
<1>1. \A n \in Names : Held(n) = {} /\ Cardinality(Held(n)) = 0 /\ Here(n) = 0
  <2>1. \A n \in Names : Held(n) = {} /\ Here(n) = 0
    BY DEF Init, Held, Here
  <2> QED
    BY <2>1, FS_EmptySet
<1> QED
  BY <1>1 DEF Init, CountInv, BackendsAccounted, Here

\* What a step must do to the count of one skill.
Balanced(n) ==
  /\ loaded'[n] \in Int
  /\ loaded'[n] - loaded[n] >= (Here(n)' - Here(n))
                               + (Cardinality(Held(n))' - Cardinality(Held(n)))
  /\ OwnTools[n] \cap Admitted # {} =>
       /\ loaded'[n] - loaded[n] = (Here(n)' - Here(n))
                                   + (Cardinality(Held(n))' - Cardinality(Held(n)))
       /\ wired'[n] - wired[n] = Here(n)' - Here(n)

LEMMA BalancedCounts ==
  ASSUME CountInv, \A n \in Names : Balanced(n), wired' \in [Names -> Nat],
         loaded' = [n \in Names |-> loaded'[n]]
  PROVE  CountInv'
<1>1. \A n : Cardinality(Held(n)) \in Nat /\ Here(n) \in Nat
  BY HeldFinite DEF Here
<1>2. IsFiniteSet(Actors) /\ \A n : Held(n)' \subseteq Actors
  BY SkillAssumption DEF Held
<1>3. \A n : Cardinality(Held(n))' \in Nat /\ Here(n)' \in Nat
  <2>1. \A n : IsFiniteSet(Held(n)')
    BY <1>2, FS_Subset
  <2> QED
    BY <2>1, FS_CardinalityType DEF Here
<1>4. \A n \in Names : loaded[n] \in Int /\ wired[n] \in Nat /\ wired'[n] \in Nat
  BY DEF CountInv
<1>5. \A n \in Names : loaded'[n] \in Int
  BY DEF Balanced
<1>6. loaded' \in [Names -> Int]
  BY <1>5
<1>7. \A n \in Names : loaded'[n] >= Here(n)' + Cardinality(Held(n))'
  BY <1>1, <1>3, <1>4, <1>5 DEF CountInv, Balanced
<1>8. \A n \in Names : OwnTools[n] \cap Admitted # {} =>
        loaded[n] = Here(n) + Cardinality(Held(n)) /\ wired[n] = Here(n)
  BY DEF CountInv, BackendsAccounted, Here
<1>9. \A n \in Names : OwnTools[n] \cap Admitted # {} =>
        loaded'[n] = Here(n)' + Cardinality(Held(n))' /\ wired'[n] = Here(n)'
  <2> SUFFICES ASSUME NEW n \in Names, OwnTools[n] \cap Admitted # {}
               PROVE  loaded'[n] = Here(n)' + Cardinality(Held(n))' /\ wired'[n] = Here(n)'
    OBVIOUS
  <2>1. /\ loaded'[n] - loaded[n] = (Here(n)' - Here(n))
                                    + (Cardinality(Held(n))' - Cardinality(Held(n)))
        /\ wired'[n] - wired[n] = Here(n)' - Here(n)
    BY DEF Balanced
  <2>2. /\ loaded[n] = Here(n) + Cardinality(Held(n)) /\ wired[n] = Here(n)
        /\ loaded'[n] \in Int /\ wired'[n] \in Nat
        /\ Cardinality(Held(n)) \in Nat /\ Here(n) \in Nat
        /\ Cardinality(Held(n))' \in Nat /\ Here(n)' \in Nat
    BY <1>1, <1>3, <1>4, <1>5, <1>8
  <2> QED
    BY <2>1, <2>2
<1>10. BackendsAccounted'
  BY <1>9 DEF BackendsAccounted, Here
<1> QED
  BY <1>6, <1>7, <1>10 DEF CountInv

\* Steps that load and unload nothing.
LEMMA CountsKept ==
  ASSUME CountInv, UNCHANGED <<active, loaded, wired>>, \A n \in Names : Held(n)' = Held(n)
  PROVE  CountInv'
  BY DEF CountInv, BackendsAccounted, Here

LEMMA HeldKept ==
  ASSUME \A b \in Actors : \/ UNCHANGED <<pc[b], name[b]>>
                           \/ /\ pc[b] \notin {"loaded", "unloading"}
                              /\ pc'[b] \notin {"loaded", "unloading"}
                           \/ /\ pc[b] = "loaded" /\ pc'[b] = "unloading"
                              /\ UNCHANGED name[b]
  PROVE  \A n \in Names : Held(n)' = Held(n)
  BY DEF Held

LEMMA QuietCounts ==
  ASSUME ShapeOK, CountInv, NEW a \in Actors,
         \/ Discover(a) \/ Refused(a) \/ AlreadyActive(a) \/ Begin(a) \/ LoadFails(a)
         \/ RegisterFails(a) \/ Asked(a) \/ \E n \in Names : EvaluateNext(a, n)
  PROVE  CountInv'
<1>1. UNCHANGED <<active, loaded, wired>>
  BY DEF Discover, Refused, AlreadyActive, Begin, LoadFails, RegisterFails, EvaluateNext,
     Asked, Scan, Evaluate, Activate, runtimeVars
<1>2. \A b \in Actors \ {a} : UNCHANGED <<pc[b], name[b]>>
  <2>1. CASE Refused(a) \/ AlreadyActive(a) \/ LoadFails(a)
    BY <2>1 DEF Refused, AlreadyActive, LoadFails, Returns, Goes, ShapeOK
  <2>2. CASE Discover(a) \/ Begin(a) \/ RegisterFails(a) \/ Asked(a)
    BY <2>2 DEF Discover, Begin, RegisterFails, Asked, Scan, Evaluate, Activate, Goes, ShapeOK
  <2>3. ASSUME NEW n \in Names, EvaluateNext(a, n)
        PROVE  \A b \in Actors \ {a} : UNCHANGED <<pc[b], name[b]>>
    BY <2>3 DEF EvaluateNext, Goes, ShapeOK
  <2> QED
    BY <2>1, <2>2, <2>3
<1>3. \/ pc[a] \notin {"loaded", "unloading"} /\ pc'[a] \notin {"loaded", "unloading"}
      \/ pc[a] = "loaded" /\ pc'[a] = "unloading" /\ UNCHANGED name[a]
  <2>1. CASE Refused(a) \/ AlreadyActive(a) \/ LoadFails(a)
    BY <2>1 DEF Refused, AlreadyActive, LoadFails, Returns, Goes, ShapeOK
  <2>2. CASE Discover(a) \/ Begin(a) \/ RegisterFails(a) \/ Asked(a)
    BY <2>2 DEF Discover, Begin, RegisterFails, Asked, Scan, Evaluate, Activate, Goes, ShapeOK
  <2>3. ASSUME NEW n \in Names, EvaluateNext(a, n)
        PROVE  pc[a] \notin {"loaded", "unloading"} /\ pc'[a] \notin {"loaded", "unloading"}
    BY <2>3 DEF EvaluateNext, Goes, ShapeOK
  <2> QED
    BY <2>1, <2>2, <2>3
<1>4. \A n \in Names : Held(n)' = Held(n)
  BY <1>2, <1>3, HeldKept
<1> QED
  BY <1>1, <1>4, CountsKept

LEMMA LoadCounts ==
  ASSUME ShapeOK, ObjectInv, CountInv, NEW a \in Actors, Load(a)
  PROVE  CountInv'
<1>1. PICK n \in Names : name[a] = n
  BY DEF Load, ObjectInv, AtWork
<1>2. /\ pc[a] = "loading" /\ UNCHANGED <<active, wired, name>>
      /\ pc' = [pc EXCEPT ![a] = "loaded"] /\ loaded' = [loaded EXCEPT ![n] = @ + 1]
  BY <1>1 DEF Load, Goes
<1>3. a \notin Held(n) /\ Held(n)' = Held(n) \cup {a}
  BY <1>1, <1>2 DEF Held, ShapeOK
<1>4. \A m \in Names : m # n => Held(m)' = Held(m)
  BY <1>1, <1>2 DEF Held, ShapeOK
<1>5. Cardinality(Held(n))' = Cardinality(Held(n)) + 1
  BY <1>3, HeldFinite, FS_AddElement
<1>6. \A m : Here(m)' = Here(m)
  BY <1>2 DEF Here
<1>7. \A m \in Names : loaded[m] \in Int /\ wired[m] \in Nat
  BY DEF CountInv
<1>8. loaded'[n] = loaded[n] + 1 /\ \A m \in Names : m # n => loaded'[m] = loaded[m]
  BY <1>2 DEF CountInv
<1>9. \A m \in Names : Cardinality(Held(m)) \in Nat /\ Here(m) \in Nat
  BY HeldFinite DEF Here
<1>10. Balanced(n)
  BY <1>2, <1>5, <1>6, <1>7, <1>8, <1>9 DEF Balanced
<1>11. \A m \in Names : m # n => Balanced(m)
  BY <1>2, <1>4, <1>6, <1>7, <1>8, <1>9 DEF Balanced
<1>12. wired' \in [Names -> Nat] /\ loaded' = [m \in Names |-> loaded'[m]]
  BY <1>2 DEF CountInv
<1> QED
  BY <1>10, <1>11, <1>12, BalancedCounts

\* A goroutine lets the backend of n go: Held(n) loses it.
LEMMA LetGo ==
  ASSUME ShapeOK, NEW a \in Actors, NEW ok \in BOOLEAN, Returns(a, ok),
         pc[a] \in {"loaded", "unloading"}, NEW n \in Names, name[a] = n
  PROVE  /\ Cardinality(Held(n))' = Cardinality(Held(n)) - 1
         /\ \A m \in Names : m # n => Held(m)' = Held(m)
<1>1. /\ pc'[a] \in {"idle", "evaluating"}
      /\ \A b \in Actors \ {a} : UNCHANGED <<pc[b], name[b]>>
  BY ReturnsOne DEF ShapeOK
<1>2. a \in Held(n) /\ Held(n)' = Held(n) \ {a}
  BY <1>1 DEF Held
<1>3. \A m \in Names : m # n => Held(m)' = Held(m)
  BY <1>1 DEF Held
<1>4. Cardinality(Held(n))' = Cardinality(Held(n)) - 1
  BY <1>2, HeldFinite, FS_RemoveElement
<1> QED
  BY <1>3, <1>4

LEMMA UnloadCounts ==
  ASSUME ShapeOK, ObjectInv, CountInv, NEW a \in Actors, Unload(a)
  PROVE  CountInv'
<1>1. PICK n \in Names : name[a] = n
  BY DEF Unload, ObjectInv
<1>2. /\ Returns(a, FALSE) /\ pc[a] = "unloading" /\ UNCHANGED <<active, wired>>
      /\ loaded' = [loaded EXCEPT ![n] = @ - 1]
  BY <1>1 DEF Unload
<1>3. /\ Cardinality(Held(n))' = Cardinality(Held(n)) - 1
      /\ \A m \in Names : m # n => Held(m)' = Held(m)
  BY <1>1, <1>2, LetGo
<1>4. \A m : Here(m)' = Here(m)
  BY <1>2 DEF Here
<1>5. \A m \in Names : loaded[m] \in Int /\ wired[m] \in Nat
  BY DEF CountInv
<1>6. loaded'[n] = loaded[n] - 1 /\ \A m \in Names : m # n => loaded'[m] = loaded[m]
  BY <1>2 DEF CountInv
<1>7. \A m \in Names : Cardinality(Held(m)) \in Nat /\ Here(m) \in Nat
  BY HeldFinite DEF Here
<1>8. Balanced(n)
  BY <1>2, <1>3, <1>4, <1>5, <1>6, <1>7 DEF Balanced
<1>9. \A m \in Names : m # n => Balanced(m)
  BY <1>2, <1>3, <1>4, <1>5, <1>6, <1>7 DEF Balanced
<1>10. wired' \in [Names -> Nat] /\ loaded' = [m \in Names |-> loaded'[m]]
  BY <1>2 DEF CountInv
<1> QED
  BY <1>8, <1>9, <1>10, BalancedCounts

\* A skill with an admitted name is not active when it is registered: an
\* active one holds that name.
LEMMA RegisterCounts ==
  ASSUME ShapeOK, ObjectInv, RegistryInv, CountInv, NEW a \in Actors, Register(a)
  PROVE  CountInv'
<1>1. PICK n \in Names : name[a] = n
  BY DEF Register, ObjectInv, AtWork
<1>2. /\ Returns(a, TRUE) /\ pc[a] = "loaded" /\ UNCHANGED loaded
      /\ wired' = [wired EXCEPT ![n] = @ + 1] /\ active' = [active EXCEPT ![n] = object[a]]
      /\ ~Conflict(n)
  BY <1>1 DEF Register
<1>3. object[a] # 0
  BY <1>1, <1>2, ObjectNumbers DEF ObjectInv, AtWork
<1>4. /\ Cardinality(Held(n))' = Cardinality(Held(n)) - 1
      /\ \A m \in Names : m # n => Held(m)' = Held(m)
  BY <1>1, <1>2, LetGo
<1>5. Here(n)' = 1 /\ \A m \in Names : m # n => Here(m)' = Here(m)
  BY <1>2, <1>3 DEF Here, ShapeOK
<1>6. OwnTools[n] \cap Admitted # {} => Here(n) = 0
  <2>1. \A t \in OwnTools[n] \cap Admitted : registry[t] = "none"
    BY <1>2, BroughtNames DEF Conflict
  <2>2. \A t \in OwnTools[n] \cap Admitted : active[n] # 0 => registry[t] = n
    BY DEF RegistryInv
  <2> QED
    BY <2>1, <2>2, SkillAssumption DEF Here
<1>7. \A m \in Names : loaded[m] \in Int /\ wired[m] \in Nat
  BY DEF CountInv
<1>8. wired'[n] = wired[n] + 1 /\ \A m \in Names : m # n => wired'[m] = wired[m]
  BY <1>2 DEF CountInv
<1>9. \A m \in Names : Cardinality(Held(m)) \in Nat /\ Here(m) \in {0, 1}
  BY HeldFinite DEF Here
<1>10. Balanced(n)
  BY <1>2, <1>4, <1>5, <1>6, <1>7, <1>8, <1>9 DEF Balanced
<1>11. \A m \in Names : m # n => Balanced(m)
  BY <1>2, <1>4, <1>5, <1>7, <1>8, <1>9 DEF Balanced
<1>12. wired' \in [Names -> Nat] /\ loaded' = [m \in Names |-> loaded'[m]]
  BY <1>2 DEF CountInv
<1> QED
  BY <1>10, <1>11, <1>12, BalancedCounts

LEMMA DeactivateCounts ==
  ASSUME ShapeOK, CountInv, NEW n \in Names, Deactivate(n)
  PROVE  CountInv'
<1>1. /\ UNCHANGED <<pc, name>> /\ active[n] # 0 /\ active' = [active EXCEPT ![n] = 0]
      /\ wired' = [wired EXCEPT ![n] = 0] /\ loaded' = [loaded EXCEPT ![n] = @ - 1]
  BY DEF Deactivate, actorVars
<1>2. \A m \in Names : Held(m)' = Held(m)
  BY <1>1 DEF Held
<1>3. Here(n) = 1 /\ Here(n)' = 0 /\ \A m \in Names : m # n => Here(m)' = Here(m)
  BY <1>1 DEF Here, ShapeOK
<1>4. OwnTools[n] \cap Admitted # {} => wired[n] = 1
  BY <1>1 DEF CountInv, BackendsAccounted
<1>5. \A m \in Names : loaded[m] \in Int /\ wired[m] \in Nat
  BY DEF CountInv
<1>6. /\ wired'[n] = 0 /\ loaded'[n] = loaded[n] - 1
      /\ \A m \in Names : m # n => wired'[m] = wired[m] /\ loaded'[m] = loaded[m]
  BY <1>1 DEF CountInv
<1>7. \A m \in Names : Cardinality(Held(m)) \in Nat /\ Here(m) \in Nat
  BY HeldFinite DEF Here
<1>8. Balanced(n)
  BY <1>2, <1>3, <1>4, <1>5, <1>6, <1>7 DEF Balanced
<1>9. \A m \in Names : m # n => Balanced(m)
  BY <1>2, <1>3, <1>5, <1>6, <1>7 DEF Balanced
<1>10. wired' \in [Names -> Nat] /\ loaded' = [m \in Names |-> loaded'[m]]
  BY <1>1 DEF CountInv
<1> QED
  BY <1>8, <1>9, <1>10, BalancedCounts

LEMMA StepCounts ==
  ShapeOK /\ ObjectInv /\ RegistryInv /\ CountInv /\ [Next]_vars => CountInv'
<1> SUFFICES ASSUME ShapeOK, ObjectInv, RegistryInv, CountInv, [Next]_vars
             PROVE  CountInv'
  OBVIOUS
<1>1. ASSUME UNCHANGED <<active, loaded, wired, pc, name>> PROVE CountInv'
  <2>1. \A n \in Names : Held(n)' = Held(n)
    BY <1>1 DEF Held
  <2> QED
    BY <1>1, <2>1, CountsKept
<1>2. ASSUME NEW n \in Names, DiskChanges(n) PROVE CountInv'
  BY <1>1, <1>2 DEF DiskChanges, runtimeVars, actorVars
<1>3. CASE SetToolAdmissionFunc \/ UNCHANGED vars
  BY <1>1, <1>3 DEF SetToolAdmissionFunc, vars, runtimeVars, actorVars
<1> QED
  BY <1>2, <1>3, QuietCounts, LoadCounts, UnloadCounts, RegisterCounts, DeactivateCounts
  DEF Next, Proceeds

LEMMA AlwaysCounts == Spec => [](ShapeOK /\ ObjectInv /\ RegistryInv /\ CountInv)
  BY InitShape, InitObjects, InitRegistry, InitCounts, StepShape, StepObjects, StepRegistry,
     StepCounts, PTL DEF Spec

\* No backend is lost and none is unloaded twice: a loaded one belongs to the
\* active skill or to the goroutine that is about to register or unload it,
\* provided the skill brings a name the gate admits.
THEOREM BackendsHaveOwners == Spec => []BackendsAccounted
<1>1. CountInv => BackendsAccounted
  BY DEF CountInv
<1> QED
  BY <1>1, AlwaysCounts, PTL

\* Every variable keeps its type; the counters do not fall below zero even
\* for a skill that brings no admitted name.
THEOREM TypeCorrect == Spec => []TypeOK
<1>1. ShapeOK /\ CountInv => TypeOK
  <2> SUFFICES ASSUME ShapeOK, CountInv PROVE TypeOK
    OBVIOUS
  <2>1. \A n \in Names : Cardinality(Held(n)) \in Nat /\ Here(n) \in Nat
    BY HeldFinite DEF Here
  <2>2. \A n \in Names : loaded[n] \in Nat
    BY <2>1 DEF CountInv
  <2>3. loaded \in [Names -> Nat] /\ wired \in [Names -> Nat]
    BY <2>2 DEF CountInv
  <2> QED
    BY <2>3 DEF ShapeOK, TypeOK
<1> QED
  BY <1>1, AlwaysCounts, PTL
=============================================================================
