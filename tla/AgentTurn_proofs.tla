---------------------------- MODULE AgentTurn_proofs ----------------------------
(***************************************************************************)
(* Proofs about the turn loop, for every value of its limits and whatever  *)
(* the model, the hooks and the environment do: the variables keep their   *)
(* types, one prompt costs a bounded number of provider calls, no tool     *)
(* call runs twice or is answered twice, the results of a reply stay in    *)
(* call order, the snapshot a resume would load has every result, no call  *)
(* of a finished prompt is left open, cancellation seals only what did not *)
(* run, and a request pairs calls with results as long as nothing is cut   *)
(* off the front of the conversation.                                      *)
(***************************************************************************)
EXTENDS AgentTurn, FiniteSetTheorems, WellFoundedInduction,
        SequenceTheorems, TLAPS

-----------------------------------------------------------------------------
(* Facts about sets of natural numbers.                                    *)

\* A nonempty set of naturals has a least element.
LEMMA LeastNatural ==
  ASSUME NEW S \in SUBSET Nat, S # {}
  PROVE  \E i \in S : \A j \in S : i <= j
<1> DEFINE R == {ss \in Nat \X Nat : ss[1] < ss[2]}
<1>1. IsWellFoundedOn(R, Nat)
  BY NatLessThanWellFounded DEF OpToRel
<1>2. \A i, j \in S : <<j, i>> \notin R => i <= j
  OBVIOUS
<1>3. \E i \in S : \A j \in S : <<j, i>> \notin R
  <2> HIDE DEF R
  <2> QED
    BY <1>1, WFMin
<1> QED
  BY <1>2, <1>3

\* One that has an upper bound has a greatest.
LEMMA GreatestNatural ==
  ASSUME NEW S \in SUBSET Nat, S # {}, NEW n \in Nat, \A i \in S : i <= n
  PROVE  \E i \in S : \A j \in S : j <= i
<1> DEFINE D == {n - i : i \in S}
<1>1. D \in SUBSET Nat /\ D # {}
  <2>1. \A i \in S : i \in Nat /\ i <= n
    OBVIOUS
  <2>2. \A i \in S : n - i \in Nat
    BY <2>1
  <2> QED
    BY <2>2
<1>2. PICK d \in D : \A e \in D : d <= e
  <2> HIDE DEF D
  <2> QED
    BY <1>1, LeastNatural
<1>3. PICK m \in S : d = n - m
  BY <1>2
<1>4. ASSUME NEW i \in S
      PROVE  i <= m
  <2>1. n - i \in D /\ n \in Nat /\ i \in Nat /\ m \in Nat
    BY <1>3
  <2>2. n - m <= n - i
    BY <1>2, <1>3, <2>1
  <2> QED
    BY <2>1, <2>2
<1> QED
  BY <1>4

\* A finite set of naturals can be listed in increasing order.
LEMMA IncreasingList ==
  ASSUME NEW K \in SUBSET Nat, IsFiniteSet(K)
  PROVE  \E s \in [1..Cardinality(K) -> K] :
           \A i, j \in DOMAIN s : i < j => s[i] < s[j]
<1> DEFINE Listed(L) == \E s \in [1..Cardinality(L) -> L] :
                          \A i, j \in DOMAIN s : i < j => s[i] < s[j]
           Bad == {n \in Nat : \E L \in SUBSET Nat :
                     IsFiniteSet(L) /\ Cardinality(L) = n /\ ~Listed(L)}
<1>1. ASSUME Bad # {}
      PROVE  FALSE
  <2>1. PICK n \in Bad : \A m \in Bad : n <= m
    <3>1. Bad \in SUBSET Nat
      OBVIOUS
    <3> HIDE DEF Bad
    <3> QED
      BY <1>1, <3>1, LeastNatural
  <2>2. PICK L \in SUBSET Nat : IsFiniteSet(L) /\ Cardinality(L) = n /\ ~Listed(L)
    OBVIOUS
  <2>3. L # {}
    <3> SUFFICES ASSUME L = {} PROVE FALSE
      OBVIOUS
    <3>1. Cardinality(L) = 0
      BY FS_EmptySet
    <3>2. <<>> \in [1..0 -> L] /\ DOMAIN <<>> = {}
      OBVIOUS
    <3> QED
      BY <2>2, <3>1, <3>2
  <2>4. PICK m \in L : \A k \in L : m <= k
    BY <2>3, LeastNatural
  <2> DEFINE M == L \ {m}
  <2>5. n \in Nat /\ n # 0 /\ IsFiniteSet(M) /\ Cardinality(M) = n - 1
    BY <2>2, <2>3, FS_RemoveElement, FS_EmptySet
  <2>6. Listed(M)
    <3> HIDE DEF Listed
    <3>1. n - 1 \notin Bad /\ n - 1 \in Nat
      <4> HIDE DEF Bad
      <4> QED
        BY <2>1, <2>5
    <3> QED
      BY <2>5, <3>1
  <2>7. PICK s \in [1..(n - 1) -> M] : \A i, j \in 1..(n - 1) : i < j => s[i] < s[j]
    BY <2>5, <2>6
  <2> DEFINE t == [i \in 1..n |-> IF i = 1 THEN m ELSE s[i - 1]]
  <2>8. t \in [1..n -> L]
    BY <2>5, <2>7
  <2>9. ASSUME NEW i \in 1..n, NEW j \in 1..n, i < j
        PROVE  t[i] < t[j]
    <3>1. j - 1 \in 1..(n - 1) /\ t[j] = s[j - 1] /\ s[j - 1] \in M
      BY <2>5, <2>7, <2>9
    <3>2. CASE i = 1
      <4>1. t[i] = m /\ m \in Nat
        BY <3>2
      <4>2. s[j - 1] \in Nat /\ m <= s[j - 1] /\ m # s[j - 1]
        BY <2>4, <3>1
      <4> QED
        BY <3>1, <4>1, <4>2
    <3>3. CASE i # 1
      <4>1. i - 1 \in 1..(n - 1) /\ t[i] = s[i - 1] /\ i - 1 < j - 1
        BY <2>5, <2>9, <3>3
      <4> QED
        BY <2>7, <3>1, <4>1
    <3> QED
      BY <3>2, <3>3
  <2> QED
    <3> HIDE DEF t
    <3> QED
      BY <2>2, <2>8, <2>9
<1>2. Cardinality(K) \in Nat
  BY FS_CardinalityType
<1>3. Cardinality(K) \notin Bad
  <2> HIDE DEF Bad
  <2> QED
    BY <1>1
<1> QED
  BY <1>2, <1>3

-----------------------------------------------------------------------------
(* Lists of calls, and the operators on conversations.                      *)

\* The messages the loop can produce: those of an assistant are named after the
\* provider call they answer, and no message asks for infinitely many tools.
Msgs == {m \in Messages : /\ IsFiniteSet(m.uses)
                          /\ m.kind = "assistant" => m.id \in Nat \X Nat}

LEMMA InOrderType ==
  ASSUME NEW K \in SUBSET Nat, IsFiniteSet(K)
  PROVE  /\ Cardinality(K) \in Nat
         /\ InOrder(K) \in [1..Cardinality(K) -> K]
         /\ \A i, j \in 1..Cardinality(K) : i < j => InOrder(K)[i] < InOrder(K)[j]
BY IncreasingList, FS_CardinalityType DEF InOrder

LEMMA Names ==
  \A a, b, c \in Nat : /\ <<a>> \in Seq(Nat) /\ <<a, b>> \in Seq(Nat)
                      /\ <<a, b, c>> \in Seq(Nat) /\ <<>> \in Seq(Nat)
OBVIOUS

LEMMA MessageType ==
  ASSUME NEW kind \in {"user", "note", "result", "tombstone"},
         NEW id \in Seq(Nat), NEW ok \in BOOLEAN
  PROVE  Message(kind, id, {}, ok) \in Msgs
<1>1. Message(kind, id, {}, ok) \in Messages
  BY DEF Message, Messages
<1> QED
  BY <1>1, FS_EmptySet DEF Message, Msgs

LEMMA AssistantType ==
  ASSUME NEW a \in Nat, NEW b \in Nat, NEW n \in Nat, NEW text \in BOOLEAN
  PROVE  Assistant(<<a, b>>, n, text) \in Msgs
<1>1. Assistant(<<a, b>>, n, text) \in Messages
  BY Names DEF Assistant, Message, Messages
<1>2. IsFiniteSet(1..n)
  BY FS_Interval
<1> QED
  BY <1>1, <1>2 DEF Assistant, Message, Msgs

LEMMA SealsType ==
  ASSUME NEW m \in Msgs, m.kind = "assistant", NEW K \in SUBSET m.uses
  PROVE  SealsOf(m, K) \in Seq(Msgs)
<1>1. m.id \in Nat \X Nat /\ K \in SUBSET Nat /\ IsFiniteSet(K)
  BY FS_Subset DEF Msgs, Messages
<1>2. Cardinality(K) \in Nat /\ InOrder(K) \in [1..Cardinality(K) -> K]
  BY <1>1, InOrderType
<1>3. ASSUME NEW i \in 1..Cardinality(K)
      PROVE  SealedResult(<<m.id[1], m.id[2], InOrder(K)[i]>>) \in Msgs
  <2>1. m.id[1] \in Nat /\ m.id[2] \in Nat /\ InOrder(K)[i] \in Nat
    BY <1>1, <1>2
  <2> QED
    BY <2>1, Names, MessageType DEF SealedResult
<1>4. SealsOf(m, K) \in [1..Cardinality(K) -> Msgs]
  BY <1>3 DEF SealsOf
<1> QED
  BY <1>2, <1>4

LEMMA LastAssistantType ==
  ASSUME NEW c \in Seq(Msgs), LastAssistant(c) # 0
  PROVE  /\ LastAssistant(c) \in DOMAIN c
         /\ c[LastAssistant(c)].kind = "assistant"
         /\ c[LastAssistant(c)] \in Msgs
<1> DEFINE A == At(c, "assistant")
<1>1. Len(c) \in Nat /\ DOMAIN c = 1..Len(c)
  BY LenProperties
<1>2. A \in SUBSET Nat /\ A # {} /\ \A i \in A : i <= Len(c)
  BY <1>1 DEF At, LastAssistant
<1>3. \E i \in A : \A j \in A : j <= i
  <2> HIDE DEF A
  <2> QED
    BY <1>1, <1>2, GreatestNatural
<1>4. LastAssistant(c) \in A
  BY <1>2, <1>3 DEF LastAssistant
<1> QED
  BY <1>4, ElementOfSeq, <1>1 DEF At

LEMMA SealedType == \A c \in Seq(Msgs) : Sealed(c) \in Seq(Msgs)
<1> SUFFICES ASSUME NEW c \in Seq(Msgs)
             PROVE  Sealed(c) \in Seq(Msgs)
  OBVIOUS
<1> DEFINE a == LastAssistant(c)
<1>1. CASE a = 0
  BY <1>1 DEF Sealed
<1>2. CASE a # 0
  <2>1. c[a] \in Msgs /\ c[a].kind = "assistant"
    BY <1>2, LastAssistantType
  <2>2. Unanswered(c, a) \in SUBSET c[a].uses
    BY DEF Unanswered
  <2>3. SealsOf(c[a], Unanswered(c, a)) \in Seq(Msgs)
    BY <2>1, <2>2, SealsType
  <2>4. c \o SealsOf(c[a], Unanswered(c, a)) \in Seq(Msgs)
    BY <2>3, ConcatProperties
  <2> QED
    BY <1>2, <2>4 DEF Sealed
<1> QED
  BY <1>1, <1>2

LEMMA TombstonedType == \A c \in Seq(Msgs) : Tombstoned(c) \in Seq(Msgs)
<1> SUFFICES ASSUME NEW c \in Seq(Msgs)
             PROVE  Tombstoned(c) \in Seq(Msgs)
  OBVIOUS
<1>1. Tombstone \in Msgs
  BY Names, MessageType DEF Tombstone
<1>2. Len(c) \in Nat /\ DOMAIN c = 1..Len(c) /\ \A i \in DOMAIN c : c[i] \in Msgs
  BY LenProperties, ElementOfSeq
<1>3. Tombstoned(c) \in [1..Len(c) -> Msgs]
  BY <1>1, <1>2 DEF Tombstoned
<1> QED
  BY <1>2, <1>3

\* Dropping messages from the front.
LEMMA SuffixType ==
  ASSUME NEW c \in Seq(Msgs), NEW k \in Nat
  PROVE  SubSeq(c, k + 1, Len(c)) \in Seq(Msgs)
BY SubSeqProperties, LenProperties

LEMMA DrainedType == \A c \in Seq(Msgs) : Drainable(c) => Drained(c) \in Seq(Msgs)
<1> SUFFICES ASSUME NEW c \in Seq(Msgs), Drainable(c)
             PROVE  Drained(c) \in Seq(Msgs)
  OBVIOUS
<1>1. Len(c) \in Nat /\ MinDrainPairs * 2 \in Nat /\ Len(c) - MinDrainPairs * 2 \in Nat
  BY BoundsAssumption, LenProperties DEF Drainable
<1> QED
  BY <1>1, SuffixType DEF Drained

LEMMA TruncatedSuffix ==
  \A c \in Seq(Msgs) :
    Len(c) > 2 => \E k \in Nat : Truncated(c) = SubSeq(c, k + 1, Len(c))
<1> SUFFICES ASSUME NEW c \in Seq(Msgs), Len(c) > 2
             PROVE  \E k \in Nat : Truncated(c) = SubSeq(c, k + 1, Len(c))
  OBVIOUS
<1> DEFINE Start(s) == /\ \A i \in 1..s : c[i].kind = "result"
                       /\ s < Len(c) => c[s + 1].kind # "result"
           start == CHOOSE s \in 0..Len(c) : Start(s)
           Stops == {s \in 0..Len(c) : s < Len(c) => c[s + 1].kind # "result"}
<1>1. Len(c) \in Nat
  BY LenProperties
<1>2. PICK s \in Stops : \A r \in Stops : s <= r
  <2>1. Stops \in SUBSET Nat /\ Len(c) \in Stops
    BY <1>1
  <2> HIDE DEF Stops
  <2> QED
    BY <2>1, LeastNatural
<1>3. Start(s)
  <2>1. ASSUME NEW i \in 1..s
        PROVE  c[i].kind = "result"
    <3>1. i - 1 \in 0..Len(c) /\ i - 1 < Len(c) /\ i - 1 < s /\ (i - 1) + 1 = i
      BY <1>1, <1>2
    <3> DEFINE p == i - 1
    <3>2. p \notin Stops
      <4>1. s \in Nat /\ p \in Nat /\ ~(s <= p)
        BY <1>1, <1>2, <3>1
      <4> HIDE DEF Stops, p
      <4> QED
        BY <1>2, <4>1
    <3> QED
      BY <3>1, <3>2
  <2> QED
    BY <1>2, <2>1
<1>4. start \in 0..Len(c)
  <2> HIDE DEF Start
  <2> QED
    BY <1>2, <1>3
<1> DEFINE remove == IF start + 2 > Len(c) - 2 THEN Len(c) - 2 ELSE start + 2
<1>5. remove \in Nat
  <2> HIDE DEF start
  <2> QED
    BY <1>1, <1>4
<1>6. Truncated(c) = SubSeq(c, remove + 1, Len(c))
  BY DEF Truncated
<1> QED
  <2> HIDE DEF remove
  <2> QED
    BY <1>5, <1>6

LEMMA TruncatedType == \A c \in Seq(Msgs) : Len(c) > 2 => Truncated(c) \in Seq(Msgs)
BY TruncatedSuffix, SuffixType

LEMMA CompactedType == \A c \in Seq(Msgs) : Compacted(c) \subseteq Seq(Msgs)
BY TruncatedType DEF Compacted, Shrinkable

-----------------------------------------------------------------------------
(* Where the loop is, its counters and its batch.                           *)

LEMMA FreshTypes ==
  /\ FreshLoop \in LoopStates /\ NoBatch \in Batches
  /\ FreshLoop.turnCount = 0 /\ FreshLoop.promptTooLong = 0
  /\ FreshLoop.maxTokens = 0 /\ FreshLoop.escalated = 0
BY DEF FreshLoop, LoopStates, NoBatch, Batches

\* The actions that end the turn.
EndsTurn ==
  \/ EnterTurnFails \/ SkillsFail \/ OutOfTurns \/ SeeCancelled \/ CompactionFails
  \/ TooLongFails \/ MaxTokensFails \/ CallFails \/ Complete
  \/ SettleCancelled \/ SettleAndStop \/ Panic

LEMMA EndsTurnReason == EndsTurn => \E reason \in ExitReasons : EndTurn(reason)
BY DEF EndsTurn, EnterTurnFails, SkillsFail, OutOfTurns, SeeCancelled, CompactionFails,
       TooLongFails, MaxTokensFails, CallFails, Complete, SettleCancelled,
       SettleAndStop, Panic, ExitReasons

\* What a step does to the place, as far as its type is concerned.
LEMMA PlaceSteps ==
  ASSUME [Next]_vars
  PROVE  \/ \E reason \in ExitReasons : EndTurn(reason)
         \/ (\E place \in Working : GoTo(place)) /\ UNCHANGED control
         \/ PrepareCall \/ StartTurn \/ Cancel \/ Crash \/ Resume
         \/ UNCHANGED <<pc, exit, crashes, control>>
<1>1. CASE EndsTurn
  BY <1>1, EndsTurnReason
<1>2. CASE EnterTurn \/ CallStreams \/ RecoverTooLong \/ RecoverMaxTokens \/ StopRunning
  BY <1>2 DEF EnterTurn, CallStreams, RecoverTooLong, RecoverMaxTokens, Escalate,
              Continue, StopRunning, Working
<1>3. CASE FallBack \/ RunStopHooks
  BY <1>3 DEF FallBack, RunStopHooks, Working, ExitReasons
<1>4. CASE Receive
  BY <1>4 DEF Receive, StreamFails, RecoverTruncated, Escalate, Continue, CommitReply,
              Working, ExitReasons
<1>5. CASE StopForBudget \/ RunTools
  BY <1>5 DEF StopForBudget, RunTools, StartBatch, Working, ExitReasons
<1>6. CASE RunGroup \/ CommitResult \/ UNCHANGED vars
  BY <1>6 DEF RunGroup, CommitResult, vars
<1>7. CASE SettleAndGoOn
  BY <1>7 DEF SettleAndGoOn, Working
<1> QED
  BY <1>1, <1>2, <1>3, <1>4, <1>5, <1>6, <1>7 DEF Next, LoopStep, EndsTurn

LEMMA PlaceStep == PlaceOK /\ [Next]_vars => PlaceOK'
<1> SUFFICES ASSUME PlaceOK, [Next]_vars
             PROVE  PlaceOK'
  OBVIOUS
<1>1. CASE \E reason \in ExitReasons : EndTurn(reason)
  BY <1>1 DEF EndTurn, control, PlaceOK
<1>2. CASE (\E place \in Working : GoTo(place)) /\ UNCHANGED control
  BY <1>2 DEF GoTo, control, PlaceOK
<1>3. CASE PrepareCall
  BY <1>3 DEF PrepareCall, GoTo, PlaceOK, Working
<1>4. CASE StartTurn
  <2>1. turn + 1 \in 0..MaxPrompts
    BY <1>4, BoundsAssumption DEF StartTurn, PlaceOK
  <2> QED
    BY <1>4, <2>1 DEF StartTurn, GoTo, PlaceOK
<1>5. CASE Cancel
  BY <1>5 DEF Cancel, PlaceOK
<1>6. CASE Crash
  <2>1. crashes + 1 \in 0..MaxCrashes
    BY <1>6, BoundsAssumption DEF Crash, PlaceOK
  <2> QED
    BY <1>6, <2>1 DEF Crash, control, PlaceOK
<1>7. CASE Resume
  BY <1>7 DEF Resume, control, PlaceOK, ExitReasons
<1>8. CASE UNCHANGED <<pc, exit, crashes, control>>
  BY <1>8 DEF control, PlaceOK
<1> QED
  BY <1>1, <1>2, <1>3, <1>4, <1>5, <1>6, <1>7, <1>8, PlaceSteps

\* The list of groups a batch is run in.
LEMMA SinglyType ==
  ASSUME NEW K \in SUBSET Nat, IsFiniteSet(K)
  PROVE  Singly(K) \in Seq(SUBSET Nat)
<1>1. Cardinality(K) \in Nat /\ InOrder(K) \in [1..Cardinality(K) -> K]
  BY InOrderType
<1>2. Singly(K) \in [1..Cardinality(K) -> SUBSET Nat]
  BY <1>1 DEF Singly
<1> QED
  BY <1>1, <1>2

LEMMA StartBatchType ==
  ASSUME BatchOK, NEW after \in {"next", "complete", "budget"}, StartBatch(after)
  PROVE  BatchOK'
<1> DEFINE Of(kinds) == {k \in Remaining : batch.tools[k] \in kinds}
           parallel  == IF Of({"safe"}) = {} THEN <<>> ELSE <<Of({"safe"})>>
           todo == parallel \o Singly(Of({"serial", "complete"})) \o Singly(Of({"ask"}))
<1>1. Remaining \in SUBSET Nat /\ IsFiniteSet(Remaining)
  <2>1. batch.tools \in Seq(ToolKinds)
    BY DEF BatchOK, Batches
  <2>2. DOMAIN batch.tools = 1..Len(batch.tools) /\ Len(batch.tools) \in Nat
    BY <2>1, LenProperties
  <2>3. IsFiniteSet(1..Len(batch.tools))
    BY <2>2, FS_Interval
  <2> QED
    BY <2>2, <2>3, FS_Subset DEF Remaining
<1>2. \A kinds : Of(kinds) \in SUBSET Nat /\ IsFiniteSet(Of(kinds))
  BY <1>1, FS_Subset
<1>3. todo \in Seq(SUBSET Nat)
  <2> DEFINE safe == Of({"safe"})
  <2>1. safe \in SUBSET Nat
    BY <1>2
  <2>2. parallel \in Seq(SUBSET Nat)
    <3> HIDE DEF safe
    <3>1. <<>> \in Seq(SUBSET Nat) /\ <<safe>> \in Seq(SUBSET Nat)
      BY <2>1
    <3> QED
      BY <3>1 DEF safe
  <2>3. /\ Singly(Of({"serial", "complete"})) \in Seq(SUBSET Nat)
        /\ Singly(Of({"ask"})) \in Seq(SUBSET Nat)
    <3> HIDE DEF Of
    <3> QED
      BY <1>2, SinglyType
  <2> HIDE DEF parallel, Of
  <2> QED
    BY <2>2, <2>3, ConcatProperties
<1>4. batch' = [batch EXCEPT !.results = @ \cup Of({"deny"}), !.todo = todo,
                             !.after = after]
  BY DEF StartBatch
<1> QED
  <2> HIDE DEF Of, todo
  <2> QED
    BY <1>2, <1>3, <1>4 DEF BatchOK, Batches

LEMMA StreamedType ==
  ASSUME NEW r \in Replies
  PROVE  /\ r.tools \in Seq(ToolKinds) /\ Len(r.tools) \in Nat /\ r.text \in BOOLEAN
         /\ \A S \in Streamed(r.tools) : S \in SUBSET Nat /\ S \subseteq DOMAIN r.tools
<1>1. r.tools \in Seq(ToolKinds) /\ r.text \in BOOLEAN
  BY InputsAssumption
<1>2. Len(r.tools) \in Nat /\ DOMAIN r.tools = 1..Len(r.tools)
  BY <1>1, LenProperties
<1>3. ASSUME NEW S \in Streamed(r.tools)
      PROVE  S \in SUBSET Nat /\ S \subseteq DOMAIN r.tools
  <2>1. CASE r.tools = <<>>
    BY <2>1 DEF Streamed
  <2>2. CASE r.tools # <<>>
    <3>1. PICK b \in Barriers(r.tools) : S = {k \in 1..b : r.tools[k] = "safe"}
      BY <2>2 DEF Streamed
    <3>2. b \in 1..Len(r.tools)
      BY <1>2 DEF Barriers
    <3> QED
      BY <1>2, <3>1, <3>2
  <2> QED
    BY <2>1, <2>2
<1> QED
  BY <1>1, <1>2, <1>3

LEMMA BatchStep == BatchOK /\ [Next]_vars => BatchOK'
<1> SUFFICES ASSUME BatchOK, [Next]_vars
             PROVE  BatchOK'
  OBVIOUS
<1>1. CASE UNCHANGED batch \/ batch' = NoBatch
  BY <1>1, FreshTypes DEF BatchOK
<1>2. ASSUME NEW r \in Replies, CommitReply(r)
      PROVE  BatchOK'
  <2>1. NoBatch = [tools |-> <<>>, text |-> FALSE, results |-> {}, todo |-> <<>>,
                   done |-> {}, after |-> "next"]
    BY DEF NoBatch
  <2>2. PICK S \in Streamed(r.tools) :
          batch' = [tools |-> r.tools, text |-> r.text, results |-> S,
                    todo |-> <<>>, done |-> {}, after |-> "next"]
    BY <1>2, <2>1 DEF CommitReply
  <2>3. <<>> \in Seq(SUBSET Nat)
    OBVIOUS
  <2> QED
    BY <2>2, <2>3, StreamedType DEF BatchOK, Batches
<1>3. CASE \E after \in {"next", "complete", "budget"} : StartBatch(after)
  BY <1>3, StartBatchType
<1>4. CASE RunGroup
  <2>1. batch.todo \in Seq(SUBSET Nat) /\ batch.todo # <<>>
    BY <1>4 DEF RunGroup, BatchOK, Batches
  <2>2. Head(batch.todo) \in SUBSET Nat /\ Tail(batch.todo) \in Seq(SUBSET Nat)
    BY <2>1, HeadTailProperties
  <2>3. batch' = [batch EXCEPT !.results = @ \cup Head(batch.todo),
                               !.todo = Tail(batch.todo)]
    BY <1>4 DEF RunGroup
  <2> QED
    BY <2>2, <2>3 DEF BatchOK, Batches
<1>5. CASE CommitResult
  <2>1. PICK k \in Uncommitted : batch' = [batch EXCEPT !.done = @ \cup {k}]
    BY <1>5 DEF CommitResult
  <2>2. k \in Nat
    BY <2>1 DEF Uncommitted, BatchOK, Batches
  <2> QED
    BY <2>1, <2>2 DEF BatchOK, Batches
<1>6. \/ UNCHANGED batch \/ batch' = NoBatch \/ RunGroup \/ CommitResult
      \/ \E r \in Replies : CommitReply(r)
      \/ \E after \in {"next", "complete", "budget"} : StartBatch(after)
  <2>1. CASE EndsTurn
    BY <2>1, EndsTurnReason DEF EndTurn
  <2>2. CASE RunTools \/ StopForBudget
    BY <2>2 DEF RunTools, StopForBudget, EndTurn
  <2>3. CASE Receive
    BY <2>3 DEF Receive, StreamFails, RecoverTruncated, Escalate, Continue, EndTurn
  <2>4. CASE StartTurn \/ EnterTurn \/ PrepareCall \/ CallStreams \/ RecoverTooLong
             \/ RecoverMaxTokens \/ FallBack \/ RunStopHooks
    BY <2>4 DEF StartTurn, EnterTurn, PrepareCall, CallStreams, RecoverTooLong,
                RecoverMaxTokens, Escalate, Continue, FallBack, RunStopHooks, EndTurn
  <2>5. CASE StopRunning \/ SettleAndGoOn \/ Cancel \/ Crash \/ Resume \/ UNCHANGED vars
    BY <2>5 DEF StopRunning, SettleAndGoOn, Cancel, Crash, Resume, vars
  <2> QED
    BY <2>1, <2>2, <2>3, <2>4, <2>5 DEF Next, LoopStep, EndsTurn
<1> QED
  BY <1>1, <1>2, <1>3, <1>4, <1>5, <1>6

-----------------------------------------------------------------------------
(* The cost of a turn.  Each provider call is paid for by one of the four   *)
(* counters of loopState: the tool rounds, the two kinds of retries and the *)
(* escalation.  While a reply is worked on, one call is not yet paid.       *)

Spent == ls.turnCount + ls.promptTooLong + ls.maxTokens + ls.escalated

Calling == Working \ {"top"}

CallsPaid ==
  /\ pc \in {"idle", "begun", "down"} => ls = FreshLoop
  /\ pc = "begun" => calls = 0
  /\ pc = "top" => calls = Spent
  /\ pc \in Calling => calls = Spent + 1 /\ ls.turnCount < MaxTurns
  /\ CallsBounded

\* What a step that goes on with the turn does to the counters.
Pays ==
  \/ ls.promptTooLong < RecoveryLimit /\ ls' = [ls EXCEPT !.promptTooLong = @ + 1]
  \/ ls.escalated = 0 /\ ls' = [ls EXCEPT !.escalated = 1]
  \/ ls.maxTokens < RecoveryLimit /\ ls' = [ls EXCEPT !.maxTokens = @ + 1]
  \/ ls' = [ls EXCEPT !.turnCount = @ + 1]

Noted ==
  \E n \in Nat : ls' = [ls EXCEPT !.nudged = TRUE, !.repeats = n, !.lastSig = batch.tools]

CostSteps ==
  \/ pc' \in {"idle", "down"} /\ ls' = FreshLoop /\ calls' = calls
  \/ pc = "idle" /\ pc' = "begun" /\ calls' = 0 /\ UNCHANGED ls
  \/ pc = "begun" /\ pc' = "top" /\ UNCHANGED <<ls, calls>>
  \/ pc = "top" /\ HasMoreTurns /\ pc' = "call" /\ calls' = calls + 1 /\ UNCHANGED ls
  \/ pc \in Calling /\ pc' \in Calling /\ calls' = calls /\ (UNCHANGED ls \/ Noted)
  \/ pc \in Calling /\ pc' = "top" /\ calls' = calls /\ Pays
  \/ pc = "down" /\ pc' = "idle" /\ UNCHANGED <<ls, calls>>
  \/ UNCHANGED <<pc, ls, calls>>

LEMMA EveryStepCosts ==
  ASSUME LoopStateOK, [Next]_vars
  PROVE  CostSteps
<1> USE DEF control
<1>1. CASE EndsTurn
  BY <1>1, EndsTurnReason DEF EndTurn, CostSteps
<1>2. CASE StartTurn \/ EnterTurn \/ PrepareCall \/ CallStreams
  BY <1>2 DEF StartTurn, EnterTurn, PrepareCall, CallStreams, GoTo, CostSteps,
              Calling, Working
<1>3. CASE RecoverTooLong
  BY <1>3 DEF RecoverTooLong, GoTo, CostSteps, Pays, Calling, Working
<1>4. ASSUME pc \in Calling, NEW partial, Escalate \/ Continue(partial)
      PROVE  CostSteps
  BY <1>4 DEF Escalate, Continue, MayContinue, GoTo, CostSteps, Pays
<1>5. CASE RecoverMaxTokens
  BY <1>4, <1>5 DEF RecoverMaxTokens, Calling, Working
<1>6. CASE FallBack \/ RunStopHooks
  BY <1>6 DEF FallBack, RunStopHooks, GoTo, EndTurn, CostSteps, Calling, Working
<1>7. CASE Receive
  <2>1. pc \in Calling
    BY <1>7 DEF Receive, Calling, Working
  <2>2. PICK r \in Replies : StreamFails(r) \/ RecoverTruncated(r) \/ CommitReply(r)
    BY <1>7 DEF Receive
  <2>3. CASE StreamFails(r)
    BY <2>3 DEF StreamFails, EndTurn, CostSteps
  <2>4. CASE RecoverTruncated(r)
    BY <1>4, <2>1, <2>4 DEF RecoverTruncated
  <2>5. CASE CommitReply(r)
    BY <2>1, <2>5 DEF CommitReply, GoTo, CostSteps, Calling, Working
  <2> QED
    BY <2>2, <2>3, <2>4, <2>5
<1>8. CASE StopForBudget
  BY <1>8 DEF StopForBudget, StartBatch, GoTo, CostSteps, Calling, Working
<1>9. CASE RunTools
  <2>1. ls.repeats + 1 \in Nat /\ 1 \in Nat
    BY DEF LoopStateOK, LoopStates
  <2>2. CASE EndTurn("no_progress")
    BY <2>2 DEF EndTurn, CostSteps
  <2>3. CASE ~EndTurn("no_progress")
    <3>1. Noted /\ \E after : StartBatch(after)
      BY <1>9, <2>1, <2>3 DEF RunTools, Rounds, Noted
    <3>2. pc = "tools"
      BY <1>9 DEF RunTools
    <3> QED
      BY <3>1, <3>2 DEF StartBatch, GoTo, CostSteps, Calling, Working
  <2> QED
    BY <2>2, <2>3
<1>10. CASE RunGroup \/ CommitResult \/ Cancel \/ UNCHANGED vars
  BY <1>10 DEF RunGroup, CommitResult, Cancel, vars, CostSteps
<1>11. CASE StopRunning
  BY <1>11 DEF StopRunning, GoTo, CostSteps, Calling, Working
<1>12. CASE SettleAndGoOn
  BY <1>12 DEF SettleAndGoOn, GoTo, CostSteps, Pays, Calling, Working
<1>13. CASE Crash \/ Resume
  BY <1>13 DEF Crash, Resume, CostSteps
<1> QED
  BY <1>1, <1>2, <1>3, <1>5, <1>6, <1>7, <1>8, <1>9, <1>10, <1>11, <1>12, <1>13
     DEF Next, LoopStep, EndsTurn

LEMMA CostStep ==
  ASSUME PlaceOK, BatchOK, LoopStateOK, CallsPaid, [Next]_vars
  PROVE  LoopStateOK' /\ CallsPaid'
<1> DEFINE limit == MaxTurns + 2 * RecoveryLimit + 1
<1>1. CostSteps
  BY EveryStepCosts
<1>2. /\ ls.turnCount \in Nat /\ ls.promptTooLong \in Nat /\ ls.maxTokens \in Nat
      /\ ls.escalated \in {0, 1} /\ ls.turnCount <= MaxTurns
      /\ ls.promptTooLong <= RecoveryLimit /\ ls.maxTokens <= RecoveryLimit
      /\ calls \in Nat /\ MaxTurns \in Nat /\ RecoveryLimit \in Nat
  BY BoundsAssumption DEF LoopStateOK, LoopStates, PlaceOK
<1>3. CASE pc' \in {"idle", "down"} /\ ls' = FreshLoop /\ calls' = calls
  BY <1>2, <1>3, FreshTypes
     DEF LoopStateOK, CallsPaid, CallsBounded, Calling, Working
<1>4. CASE pc = "idle" /\ pc' = "begun" /\ calls' = 0 /\ UNCHANGED ls
  BY <1>2, <1>4 DEF LoopStateOK, CallsPaid, CallsBounded, Calling, Working
<1>5. CASE pc = "begun" /\ pc' = "top" /\ UNCHANGED <<ls, calls>>
  BY <1>2, <1>5, FreshTypes
     DEF LoopStateOK, CallsPaid, CallsBounded, Calling, Working, Spent
<1>6. CASE /\ pc = "top" /\ HasMoreTurns /\ pc' = "call" /\ calls' = calls + 1
           /\ UNCHANGED ls
  <2>1. calls' = Spent + 1 /\ ls.turnCount < MaxTurns
    BY <1>6 DEF CallsPaid, HasMoreTurns
  <2>2. CallsBounded'
    BY <1>2, <2>1 DEF CallsBounded, Spent
  <2> QED
    BY <1>6, <2>1, <2>2 DEF LoopStateOK, CallsPaid, Spent, Calling, Working
<1>7. CASE pc \in Calling /\ pc' \in Calling /\ calls' = calls /\ (UNCHANGED ls \/ Noted)
  <2>1. /\ LoopStateOK' /\ ls'.turnCount = ls.turnCount
        /\ ls'.promptTooLong = ls.promptTooLong /\ ls'.maxTokens = ls.maxTokens
        /\ ls'.escalated = ls.escalated
    <3>1. CASE UNCHANGED ls
      BY <3>1 DEF LoopStateOK
    <3>2. CASE Noted
      <4>1. PICK n \in Nat : ls' = [ls EXCEPT !.nudged = TRUE, !.repeats = n,
                                              !.lastSig = batch.tools]
        BY <3>2 DEF Noted
      <4>2. batch.tools \in Seq(ToolKinds)
        BY DEF BatchOK, Batches
      <4>3. /\ ls' \in LoopStates /\ ls'.turnCount = ls.turnCount
            /\ ls'.promptTooLong = ls.promptTooLong /\ ls'.maxTokens = ls.maxTokens
            /\ ls'.escalated = ls.escalated
        BY <4>1, <4>2 DEF LoopStateOK, LoopStates
      <4> QED
        BY <1>2, <4>3 DEF LoopStateOK
    <3> QED
      BY <1>7, <3>1, <3>2
  <2>2. Spent' = Spent
    BY <2>1 DEF Spent
  <2> QED
    BY <1>7, <2>1, <2>2 DEF CallsPaid, CallsBounded, Calling, Working
<1>8. CASE pc \in Calling /\ pc' = "top" /\ calls' = calls /\ Pays
  <2>1. calls = Spent + 1 /\ ls.turnCount < MaxTurns /\ CallsBounded
    BY <1>8 DEF CallsPaid
  <2>2. LoopStateOK' /\ Spent' = Spent + 1
    <3>1. CASE /\ ls.promptTooLong < RecoveryLimit
               /\ ls' = [ls EXCEPT !.promptTooLong = @ + 1]
      <4>1. /\ ls' \in LoopStates /\ ls'.turnCount = ls.turnCount
            /\ ls'.promptTooLong = ls.promptTooLong + 1
            /\ ls'.maxTokens = ls.maxTokens /\ ls'.escalated = ls.escalated
        BY <1>2, <3>1 DEF LoopStateOK, LoopStates
      <4> QED
        BY <1>2, <3>1, <4>1 DEF LoopStateOK, Spent
    <3>2. CASE ls.escalated = 0 /\ ls' = [ls EXCEPT !.escalated = 1]
      <4>1. /\ ls' \in LoopStates /\ ls'.turnCount = ls.turnCount
            /\ ls'.promptTooLong = ls.promptTooLong
            /\ ls'.maxTokens = ls.maxTokens /\ ls'.escalated = 1
        BY <1>2, <3>2 DEF LoopStateOK, LoopStates
      <4> QED
        BY <1>2, <3>2, <4>1 DEF LoopStateOK, Spent
    <3>3. CASE ls.maxTokens < RecoveryLimit /\ ls' = [ls EXCEPT !.maxTokens = @ + 1]
      <4>1. /\ ls' \in LoopStates /\ ls'.turnCount = ls.turnCount
            /\ ls'.promptTooLong = ls.promptTooLong
            /\ ls'.maxTokens = ls.maxTokens + 1 /\ ls'.escalated = ls.escalated
        BY <1>2, <3>3 DEF LoopStateOK, LoopStates
      <4> QED
        BY <1>2, <3>3, <4>1 DEF LoopStateOK, Spent
    <3>4. CASE ls' = [ls EXCEPT !.turnCount = @ + 1]
      <4>1. /\ ls' \in LoopStates /\ ls'.turnCount = ls.turnCount + 1
            /\ ls'.promptTooLong = ls.promptTooLong
            /\ ls'.maxTokens = ls.maxTokens /\ ls'.escalated = ls.escalated
        BY <1>2, <3>4 DEF LoopStateOK, LoopStates
      <4> QED
        BY <1>2, <2>1, <4>1 DEF LoopStateOK, Spent
    <3> QED
      BY <1>8, <3>1, <3>2, <3>3, <3>4 DEF Pays
  <2> QED
    BY <1>8, <2>1, <2>2 DEF CallsPaid, CallsBounded, Calling, Working
<1>9. CASE pc = "down" /\ pc' = "idle" /\ UNCHANGED <<ls, calls>>
  BY <1>9 DEF LoopStateOK, CallsPaid, CallsBounded, Calling, Working
<1>10. CASE UNCHANGED <<pc, ls, calls>>
  BY <1>10 DEF LoopStateOK, CallsPaid, CallsBounded, Spent
<1> QED
  BY <1>1, <1>3, <1>4, <1>5, <1>6, <1>7, <1>8, <1>9, <1>10 DEF CostSteps

-----------------------------------------------------------------------------
(* The conversation, the log and the snapshot.                              *)

MsgsOK ==
  /\ conv \in Seq(Msgs) /\ log \in Seq(Msgs)
  /\ snap \in [exists : BOOLEAN, msgs : Seq(Msgs)]

LEMMA SavedType ==
  ASSUME NEW c \in Seq(Msgs), SaveSnapshot(c)
  PROVE  snap' \in [exists : BOOLEAN, msgs : Seq(Msgs)]
BY DEF SaveSnapshot, Saved

\* The messages the loop appends.
LEMMA AppendedTypes ==
  ASSUME PlaceOK
  PROVE  /\ Note \in Msgs /\ User(turn + 1) \in Msgs
         /\ \A n \in Nat, text \in BOOLEAN : Assistant(ReplyId, n, text) \in Msgs
         /\ \A k \in Nat : Result(ToolId(k)) \in Msgs
<1>1. turn \in Nat /\ calls \in Nat /\ turn + 1 \in Nat
  BY BoundsAssumption DEF PlaceOK
<1>2. Note \in Msgs /\ User(turn + 1) \in Msgs
  BY <1>1, Names, MessageType DEF Note, User
<1>3. \A n \in Nat, text \in BOOLEAN : Assistant(ReplyId, n, text) \in Msgs
  BY <1>1, AssistantType DEF ReplyId
<1>4. \A k \in Nat : Result(ToolId(k)) \in Msgs
  BY <1>1, Names, MessageType DEF Result, ToolId
<1> QED
  BY <1>2, <1>3, <1>4

LEMMA ContinueMsgs ==
  ASSUME PlaceOK, MsgsOK, NEW partial \in Seq(Msgs), Escalate \/ Continue(partial)
  PROVE  MsgsOK'
<1>1. CASE Escalate
  BY <1>1 DEF Escalate, MsgsOK, store
<1>2. CASE Continue(partial)
  <2>1. conv \o partial \in Seq(Msgs) /\ log \o partial \in Seq(Msgs)
    BY ConcatProperties DEF MsgsOK
  <2>2. Append(conv \o partial, Note) \in Seq(Msgs)
    BY <2>1, AppendedTypes, AppendProperties
  <2> QED
    BY <1>2, <2>1, <2>2, SavedType DEF Continue, MsgsOK
<1> QED
  BY <1>1, <1>2

LEMMA AppendTypes ==
  \A c \in Seq(Msgs), m \in Msgs : Append(c, m) \in Seq(Msgs)
BY AppendProperties

LEMMA MsgsStep ==
  ASSUME PlaceOK, BatchOK, MsgsOK, [Next]_vars
  PROVE  MsgsOK'
<1> USE DEF store
<1>1. CASE \/ EnterTurnFails \/ SkillsFail \/ OutOfTurns \/ SeeCancelled \/ CompactionFails
           \/ CallStreams \/ TooLongFails \/ MaxTokensFails \/ CallFails \/ Complete
           \/ StopForBudget \/ RunGroup \/ StopRunning \/ Cancel \/ UNCHANGED vars
  <2>1. UNCHANGED <<conv, log, snap>>
    BY <1>1 DEF EnterTurnFails, SkillsFail, OutOfTurns, SeeCancelled, CompactionFails,
       CallStreams, TooLongFails, MaxTokensFails, CallFails, Complete, StopForBudget,
       RunGroup, StopRunning, Cancel, vars
  <2> QED
    BY <2>1 DEF MsgsOK
<1>2. CASE StartTurn
  BY <1>2, AppendTypes, AppendedTypes DEF StartTurn, MsgsOK
<1>3. CASE EnterTurn
  BY <1>3, CompactedType, SavedType DEF EnterTurn, MsgsOK
<1>4. CASE PrepareCall
  <2>1. PICK c \in Compacted(conv) :
          \/ conv' = c /\ UNCHANGED snap
          \/ conv' \in Compacted(c) /\ SaveSnapshot(conv')
    BY <1>4 DEF PrepareCall
  <2>2. c \in Seq(Msgs)
    BY CompactedType DEF MsgsOK
  <2> QED
    BY <1>4, <2>1, <2>2, CompactedType, SavedType DEF PrepareCall, MsgsOK
<1>5. CASE RecoverTooLong
  <2>1. conv' \in Seq(Msgs)
    BY <1>5, TruncatedType, DrainedType DEF RecoverTooLong, Shrinkable, MsgsOK
  <2> QED
    BY <1>5, <2>1, SavedType DEF RecoverTooLong, MsgsOK
<1>6. CASE RecoverMaxTokens
  <2>1. <<>> \in Seq(Msgs)
    OBVIOUS
  <2> QED
    BY <1>6, <2>1, ContinueMsgs DEF RecoverMaxTokens
<1>7. CASE FallBack
  BY <1>7, TombstonedType DEF FallBack, MsgsOK
<1>8. CASE Receive
  <2>1. PICK r \in Replies : StreamFails(r) \/ RecoverTruncated(r) \/ CommitReply(r)
    BY <1>8 DEF Receive
  <2>2. CASE StreamFails(r)
    BY <2>2, SealedType DEF StreamFails, MsgsOK
  <2>3. CASE RecoverTruncated(r)
    <3> DEFINE m == Assistant(ReplyId, 0, r.text)
    <3>1. m \in Msgs
      BY AppendedTypes, StreamedType
    <3>2. <<m>> \in Seq(Msgs)
      <4> HIDE DEF m
      <4> QED
        BY <3>1
    <3> QED
      BY <2>3, <3>2, ContinueMsgs DEF RecoverTruncated
  <2>4. CASE CommitReply(r)
    <3> DEFINE m == Assistant(ReplyId, Len(r.tools), r.text \/ r.tools = <<>>)
    <3>1. (r.text \/ r.tools = <<>>) \in BOOLEAN /\ Len(r.tools) \in Nat
      BY StreamedType
    <3>2. m \in Msgs
      BY <3>1, AppendedTypes
    <3>3. conv' = Append(conv, m) /\ log' = Append(log, m) /\ UNCHANGED snap
      BY <2>4 DEF CommitReply
    <3> QED
      <4> HIDE DEF m
      <4> QED
        BY <3>2, <3>3, AppendTypes DEF MsgsOK
  <2> QED
    BY <2>1, <2>2, <2>3, <2>4
<1>9. CASE RunStopHooks \/ RunTools
  <2>1. UNCHANGED store /\ (UNCHANGED conv \/ conv' = Append(conv, Note))
    BY <1>9 DEF RunStopHooks, RunTools
  <2> QED
    BY <2>1, AppendTypes, AppendedTypes DEF MsgsOK
<1>10. CASE CommitResult
  <2>1. PICK k \in Uncommitted :
          /\ conv' = Append(conv, Result(ToolId(k)))
          /\ log' = Append(log, Result(ToolId(k)))
    BY <1>10 DEF CommitResult
  <2>2. k \in Nat
    BY DEF Uncommitted, BatchOK, Batches
  <2> QED
    BY <1>10, <2>1, <2>2, AppendTypes, AppendedTypes DEF CommitResult, MsgsOK
<1>11. CASE SettleCancelled
  <2>1. conv' \in Seq(Msgs)
    BY <1>11, SealedType DEF SettleCancelled, MsgsOK
  <2> QED
    BY <1>11, <2>1, SavedType DEF SettleCancelled, MsgsOK
<1>12. CASE SettleAndStop \/ SettleAndGoOn
  <2>1. \/ UNCHANGED <<conv, log>>
        \/ conv' = Append(conv, Note) /\ log' = Append(log, Note)
    BY <1>12 DEF SettleAndStop, SettleAndGoOn
  <2>2. SaveSnapshot(conv)
    BY <1>12 DEF SettleAndStop, SettleAndGoOn
  <2> QED
    BY <2>1, <2>2, SavedType, AppendTypes, AppendedTypes DEF MsgsOK
<1>13. CASE Panic \/ Crash
  <2>1. UNCHANGED store /\ (conv' = Sealed(conv) \/ conv' = <<>>)
    BY <1>13 DEF Panic, Crash
  <2>2. <<>> \in Seq(Msgs)
    OBVIOUS
  <2> QED
    BY <2>1, <2>2, SealedType DEF MsgsOK
<1>14. CASE Resume
  <2>1. Loaded \in Seq(Msgs)
    BY DEF Loaded, MsgsOK
  <2> QED
    BY <1>14, <2>1, SealedType DEF Resume, MsgsOK
<1> QED
  BY <1>1, <1>2, <1>3, <1>4, <1>5, <1>6, <1>7, <1>8, <1>9, <1>10, <1>11, <1>12,
     <1>13, <1>14 DEF Next, LoopStep

-----------------------------------------------------------------------------
(* The histories.                                                           *)

LEMMA RunSomeType ==
  ASSUME PlaceOK, HistoryOK, NEW K \in SUBSET Nat, RunSome(K)
  PROVE  ran' \subseteq Seq(Nat) /\ twice' \subseteq Seq(Nat)
<1>1. turn \in Nat /\ calls \in Nat
  BY BoundsAssumption DEF PlaceOK
<1>2. {ToolId(k) : k \in K} \subseteq Seq(Nat)
  BY <1>1, Names DEF ToolId
<1> QED
  BY <1>2 DEF RunSome, HistoryOK

LEMMA HistoryStep ==
  ASSUME PlaceOK, BatchOK, HistoryOK, [Next]_vars
  PROVE  HistoryOK'
<1> USE DEF history
<1>1. CASE \/ UNCHANGED history
           \/ ran' = {} /\ UNCHANGED <<twice, delivered>>
  BY <1>1 DEF HistoryOK
<1>2. CASE Receive
  <2>1. PICK r \in Replies : StreamFails(r) \/ RecoverTruncated(r) \/ CommitReply(r)
    BY <1>2 DEF Receive
  <2>2. \/ UNCHANGED history
        \/ (\E S \in Streamed(r.tools) : RunSome(S)) /\ UNCHANGED delivered
    BY <2>1 DEF StreamFails, RecoverTruncated, CommitReply
  <2> QED
    BY <1>1, <2>2, StreamedType, RunSomeType DEF HistoryOK
<1>3. CASE RunGroup
  <2>1. batch.todo \in Seq(SUBSET Nat) /\ batch.todo # <<>>
    BY <1>3 DEF RunGroup, BatchOK, Batches
  <2>2. Head(batch.todo) \in SUBSET Nat
    BY <2>1, HeadTailProperties
  <2> QED
    BY <1>3, <2>2, RunSomeType DEF RunGroup, HistoryOK
<1>4. CASE Complete
  <2>1. ReplyId \in Seq(Nat)
    BY BoundsAssumption, Names DEF ReplyId, PlaceOK
  <2> QED
    BY <1>4, <2>1 DEF Complete, HistoryOK
<1>5. CASE ~(Receive \/ RunGroup \/ Complete)
  <2>1. CASE \/ StartTurn \/ EnterTurn \/ EnterTurnFails \/ SkillsFail \/ OutOfTurns
             \/ SeeCancelled \/ CompactionFails \/ PrepareCall \/ CallStreams
             \/ RecoverTooLong \/ TooLongFails \/ RecoverMaxTokens \/ MaxTokensFails
             \/ FallBack \/ CallFails \/ RunStopHooks
    BY <1>1, <2>1 DEF StartTurn, EnterTurn, EnterTurnFails, SkillsFail, OutOfTurns,
       SeeCancelled, CompactionFails, PrepareCall, CallStreams, RecoverTooLong,
       TooLongFails, RecoverMaxTokens, MaxTokensFails, FallBack, CallFails, RunStopHooks
  <2>2. CASE \/ StopForBudget \/ RunTools \/ StopRunning \/ CommitResult
             \/ SettleCancelled \/ SettleAndStop \/ SettleAndGoOn
             \/ Cancel \/ Panic \/ Crash \/ Resume \/ UNCHANGED vars
    BY <1>1, <2>2 DEF StopForBudget, RunTools, StopRunning, CommitResult,
       SettleCancelled, SettleAndStop, SettleAndGoOn, Cancel, Panic, Crash, Resume, vars
  <2> QED
    BY <1>5, <2>1, <2>2 DEF Next, LoopStep
<1> QED
  BY <1>2, <1>3, <1>4, <1>5

-----------------------------------------------------------------------------
(* The inductive invariant and what follows from it.                        *)

\* The types, with the parts they rest on: what a message of the loop looks
\* like, and how the provider calls of a turn are accounted for.
IInv == PlaceOK /\ LoopStateOK /\ BatchOK /\ MsgsOK /\ HistoryOK /\ CallsPaid

LEMMA InitIInv == Init => IInv
<1> SUFFICES ASSUME Init
             PROVE  IInv
  OBVIOUS
<1> USE BoundsAssumption DEF Init
<1>1. PlaceOK
  <2>1. 0 \in 0..MaxPrompts /\ 0 \in 0..MaxCrashes /\ 0 \in Nat
    OBVIOUS
  <2> QED
    BY <2>1 DEF PlaceOK, ExitReasons
<1>2. LoopStateOK /\ BatchOK
  BY FreshTypes DEF LoopStateOK, BatchOK
<1>3. MsgsOK
  BY DEF MsgsOK, NoSnap
<1>4. HistoryOK /\ CallsPaid
  BY DEF HistoryOK, CallsPaid, CallsBounded, Calling, Working
<1> QED
  BY <1>1, <1>2, <1>3, <1>4 DEF IInv

LEMMA NextIInv == IInv /\ [Next]_vars => IInv'
<1> SUFFICES ASSUME IInv, [Next]_vars
             PROVE  IInv'
  OBVIOUS
<1> USE DEF IInv
<1>1. PlaceOK'
  BY PlaceStep
<1>2. LoopStateOK' /\ CallsPaid'
  BY CostStep
<1>3. BatchOK'
  BY BatchStep
<1>4. MsgsOK'
  BY MsgsStep
<1>5. HistoryOK'
  BY HistoryStep
<1> QED
  BY <1>1, <1>2, <1>3, <1>4, <1>5

THEOREM IInvHolds == Spec => []IInv
BY InitIInv, NextIInv, PTL DEF Spec

\* Every variable of the turn loop keeps its type and every counter of a turn
\* stays within its limit, for any limits, replies and failures.
THEOREM TypeCorrect == Spec => []TypeOK
<1>1. IInv => TypeOK
  <2> SUFFICES ASSUME IInv
               PROVE  TypeOK
    OBVIOUS
  <2>1. Seq(Msgs) \subseteq Seq(Messages)
    <3>1. Msgs \subseteq Messages
      BY DEF Msgs
    <3> QED
      BY <3>1
  <2>2. MessagesOK
    BY <2>1 DEF IInv, MsgsOK, MessagesOK
  <2> QED
    BY <2>2 DEF IInv, TypeOK
<1> QED
  BY <1>1, IInvHolds, PTL

\* One prompt costs at most MaxTurns + 2 * RecoveryLimit + 1 provider calls: the
\* retries of runLoop, which give their turn back, cannot make it endless.
THEOREM CostBounded == Spec => []CallsBounded
<1>1. IInv => CallsBounded
  BY DEF IInv, CallsPaid
<1> QED
  BY <1>1, IInvHolds, PTL

-----------------------------------------------------------------------------
(* No call runs twice.                                                      *)

\* The calls of the last reply that ran.
RanHere == {k \in Nat : ToolId(k) \in ran}

\* A list of groups that share no call, all of them in K.
Groups(s, K) ==
  /\ s \in Seq(SUBSET Nat)
  /\ \A i \in 1..Len(s) : s[i] \subseteq K
  /\ \A i, j \in 1..Len(s) : i # j => s[i] \cap s[j] = {}

\* What ran belongs to this provider call or to earlier ones; to earlier ones
\* until the reply is there.
RanNamed ==
  /\ ran \subseteq Nat \X Nat \X Nat
  /\ \A id \in ran : id[1] <= turn /\ (id[1] = turn => id[2] <= calls)
  /\ pc \in {"call", "recv"} => \A id \in ran : id[1] = turn => id[2] < calls

\* What ran of this reply has its result, and what is still to run has not run.
RanReported ==
  /\ pc \in {"hooks", "tools", "exec"} => RanHere \subseteq batch.results
  /\ pc = "exec" => Groups(batch.todo, Nat \ RanHere)

OnceInv == NoToolTwice /\ RanNamed /\ RanReported

LEMMA GroupsConcat ==
  ASSUME NEW K, NEW L, NEW s, NEW t, Groups(s, K), Groups(t, L), K \cap L = {}
  PROVE  Groups(s \o t, K \cup L)
<1> DEFINE u == s \o t
<1>1. /\ s \in Seq(SUBSET Nat) /\ t \in Seq(SUBSET Nat)
      /\ Len(s) \in Nat /\ Len(t) \in Nat
  BY LenProperties DEF Groups
<1>2. /\ u \in Seq(SUBSET Nat) /\ Len(u) = Len(s) + Len(t)
      /\ \A i \in 1..Len(u) : u[i] = IF i <= Len(s) THEN s[i] ELSE t[i - Len(s)]
  BY <1>1, ConcatProperties
<1>3. \A i \in 1..Len(u) :
        \/ i \in 1..Len(s) /\ u[i] = s[i]
        \/ i \notin 1..Len(s) /\ i - Len(s) \in 1..Len(t) /\ u[i] = t[i - Len(s)]
  BY <1>1, <1>2
<1>4. \A i \in 1..Len(u) : u[i] \subseteq K \cup L
  <2> HIDE DEF u
  <2> QED
    BY <1>3 DEF Groups
<1>5. ASSUME NEW i \in 1..Len(u), NEW j \in 1..Len(u), i # j
      PROVE  u[i] \cap u[j] = {}
  <2> HIDE DEF u
  <2>1. CASE i \in 1..Len(s) /\ j \in 1..Len(s)
    BY <1>3, <1>5, <2>1 DEF Groups
  <2>2. CASE i \notin 1..Len(s) /\ j \notin 1..Len(s)
    <3>1. /\ i - Len(s) \in 1..Len(t) /\ j - Len(s) \in 1..Len(t)
          /\ u[i] = t[i - Len(s)] /\ u[j] = t[j - Len(s)]
      BY <1>3, <2>2
    <3>2. i - Len(s) # j - Len(s)
      BY <1>1, <1>2, <1>5
    <3> QED
      BY <3>1, <3>2 DEF Groups
  <2>3. CASE i \in 1..Len(s) /\ j \notin 1..Len(s)
    <3>1. u[i] \subseteq K /\ u[j] \subseteq L
      BY <1>3, <2>3 DEF Groups
    <3> QED
      BY <3>1
  <2>4. CASE i \notin 1..Len(s) /\ j \in 1..Len(s)
    <3>1. u[i] \subseteq L /\ u[j] \subseteq K
      BY <1>3, <2>4 DEF Groups
    <3> QED
      BY <3>1
  <2> QED
    BY <2>1, <2>2, <2>3, <2>4
<1> QED
  BY <1>2, <1>4, <1>5 DEF Groups

LEMMA SinglyGroups ==
  ASSUME NEW K \in SUBSET Nat, IsFiniteSet(K)
  PROVE  Groups(Singly(K), K)
<1> DEFINE n == Cardinality(K)
<1>1. /\ n \in Nat /\ InOrder(K) \in [1..n -> K]
      /\ \A i, j \in 1..n : i < j => InOrder(K)[i] < InOrder(K)[j]
  BY InOrderType
<1>2. Singly(K) \in Seq(SUBSET Nat)
  BY SinglyType
<1>3. Len(Singly(K)) = n /\ \A i \in 1..n : Singly(K)[i] = {InOrder(K)[i]}
  BY <1>1, <1>2, LenProperties DEF Singly
<1>4. \A i \in 1..n : InOrder(K)[i] \in K /\ InOrder(K)[i] \in Nat
  BY <1>1
<1>5. \A i, j \in 1..n : i # j => InOrder(K)[i] # InOrder(K)[j]
  <2>1. \A i, j \in 1..n : i # j => i < j \/ j < i
    BY <1>1
  <2> QED
    BY <1>1, <1>4, <2>1
<1> QED
  <2> HIDE DEF n
  <2> QED
    BY <1>2, <1>3, <1>4, <1>5 DEF Groups

\* executeTools puts each call without a result into one group.
LEMMA StartBatchGroups ==
  ASSUME BatchOK, NEW after \in {"next", "complete", "budget"}, StartBatch(after)
  PROVE  Groups(batch'.todo, Remaining) /\ batch.results \subseteq batch'.results
<1> DEFINE Of(kinds) == {k \in Remaining : batch.tools[k] \in kinds}
           safe      == Of({"safe"})
           serial    == Of({"serial", "complete"})
           ask       == Of({"ask"})
           parallel  == IF safe = {} THEN <<>> ELSE <<safe>>
           todo      == parallel \o Singly(serial) \o Singly(ask)
<1>1. Remaining \in SUBSET Nat /\ IsFiniteSet(Remaining)
  <2>1. batch.tools \in Seq(ToolKinds)
    BY DEF BatchOK, Batches
  <2>2. DOMAIN batch.tools = 1..Len(batch.tools) /\ Len(batch.tools) \in Nat
    BY <2>1, LenProperties
  <2>3. IsFiniteSet(1..Len(batch.tools))
    BY <2>2, FS_Interval
  <2> QED
    BY <2>2, <2>3, FS_Subset DEF Remaining
<1>2. \A kinds : Of(kinds) \in SUBSET Nat /\ IsFiniteSet(Of(kinds))
  BY <1>1, FS_Subset
<1>3. /\ safe \subseteq Remaining /\ serial \subseteq Remaining /\ ask \subseteq Remaining
      /\ safe \cap serial = {} /\ (safe \cup serial) \cap ask = {}
  OBVIOUS
<1>4. Groups(parallel, safe)
  <2> HIDE DEF safe
  <2>1. safe \in SUBSET Nat
    BY <1>2 DEF safe
  <2>2. Groups(<<>>, safe)
    BY DEF Groups
  <2>3. Groups(<<safe>>, safe)
    <3>1. <<safe>> \in Seq(SUBSET Nat) /\ Len(<<safe>>) = 1 /\ <<safe>>[1] = safe
      BY <2>1
    <3> QED
      BY <3>1 DEF Groups
  <2> QED
    BY <2>2, <2>3
<1>5. Groups(Singly(serial), serial) /\ Groups(Singly(ask), ask)
  <2> HIDE DEF Of
  <2> QED
    BY <1>2, SinglyGroups
<1>6. Groups(todo, safe \cup serial \cup ask)
  <2> HIDE DEF safe, serial, ask, parallel
  <2>1. Groups(parallel \o Singly(serial), safe \cup serial)
    BY <1>3, <1>4, <1>5, GroupsConcat
  <2> QED
    BY <1>3, <1>5, <2>1, GroupsConcat
<1>7. Groups(todo, Remaining)
  <2> HIDE DEF todo, safe, serial, ask
  <2> QED
    BY <1>3, <1>6 DEF Groups
<1>8. batch' = [batch EXCEPT !.results = @ \cup Of({"deny"}), !.todo = todo,
                             !.after = after]
  BY DEF StartBatch
<1> QED
  <2> HIDE DEF Of, todo
  <2> QED
    BY <1>7, <1>8 DEF BatchOK, Batches

\* The handlers of calls that have not run.
LEMMA RunSomeOnce ==
  ASSUME PlaceOK, NoToolTwice, RanNamed, NEW K \in SUBSET Nat, K \cap RanHere = {},
         RunSome(K), UNCHANGED <<turn, calls>>
  PROVE  /\ NoToolTwice' /\ RanHere' \subseteq RanHere \cup K
         /\ ran' \subseteq Nat \X Nat \X Nat
         /\ \A id \in ran' : id[1] <= turn /\ (id[1] = turn => id[2] <= calls)
<1>1. PICK ids \in SUBSET {ToolId(k) : k \in K} :
        ran' = ran \cup ids /\ twice' = twice \cup (ids \cap ran)
  BY DEF RunSome
<1>2. turn \in Nat /\ calls \in Nat
  BY BoundsAssumption DEF PlaceOK
<1>3. \A id \in ids : \E k \in K : id = <<turn, calls, k>> /\ k \in Nat
  BY <1>1 DEF ToolId
<1>4. ids \cap ran = {}
  BY <1>1 DEF RanHere
<1>5. \A k \in Nat : ToolId(k) \in ids => k \in K
  <2>1. \A k, l \in Nat : ToolId(k) = ToolId(l) => k = l
    BY DEF ToolId
  <2> QED
    BY <1>1, <2>1
<1>6. RanHere' = {k \in Nat : ToolId(k) \in ran'}
  BY DEF RanHere, ToolId
<1>7. NoToolTwice'
  BY <1>1, <1>4 DEF NoToolTwice
<1>8. RanHere' \subseteq RanHere \cup K
  BY <1>1, <1>5, <1>6 DEF RanHere
<1>9. ran' \subseteq Nat \X Nat \X Nat
  <2>1. ids \subseteq Nat \X Nat \X Nat
    BY <1>2, <1>3
  <2> QED
    BY <1>1, <2>1 DEF RanNamed
<1>10. \A id \in ran' : id[1] <= turn /\ (id[1] = turn => id[2] <= calls)
  <2>1. \A id \in ids : id[1] = turn /\ id[2] = calls
    BY <1>3
  <2> QED
    BY <1>1, <1>2, <2>1 DEF RanNamed
<1> QED
  BY <1>7, <1>8, <1>9, <1>10

\* Steps that run nothing and leave the reply, if there is one, behind.
Leaves ==
  /\ UNCHANGED <<ran, twice, turn, calls>>
  /\ pc' \in {"idle", "begun", "top", "commit", "down"}

LEMMA LeavesOnce == OnceInv /\ Leaves => OnceInv'
BY DEF OnceInv, Leaves, NoToolTwice, RanNamed, RanReported

\* Steps that go on with the same reply.
Stays ==
  /\ UNCHANGED <<ran, twice, turn, calls, batch>>
  /\ \/ pc' = pc
     \/ pc = "call" /\ pc' = "recv"
     \/ pc = "hooks" /\ pc' = "tools"

LEMMA StaysOnce == OnceInv /\ Stays => OnceInv'
<1> SUFFICES ASSUME OnceInv, Stays PROVE OnceInv'
  OBVIOUS
<1>1. RanHere' = RanHere
  BY DEF RanHere, ToolId, Stays
<1> QED
  BY <1>1 DEF OnceInv, Stays, NoToolTwice, RanNamed, RanReported, Groups

LEMMA PrepareOnce == PlaceOK /\ OnceInv /\ PrepareCall => OnceInv'
<1> SUFFICES ASSUME PlaceOK, OnceInv, PrepareCall PROVE OnceInv'
  OBVIOUS
<1>1. calls \in Nat /\ turn \in Nat
  BY BoundsAssumption DEF PlaceOK
<1>2. UNCHANGED <<ran, twice, turn>> /\ calls' = calls + 1 /\ pc' = "call"
  BY DEF PrepareCall, history, GoTo
<1> QED
  BY <1>1, <1>2 DEF OnceInv, NoToolTwice, RanNamed, RanReported

LEMMA StartOnce == PlaceOK /\ OnceInv /\ StartTurn => OnceInv'
<1> SUFFICES ASSUME PlaceOK, OnceInv, StartTurn PROVE OnceInv'
  OBVIOUS
<1>1. calls \in Nat /\ turn \in Nat
  BY BoundsAssumption DEF PlaceOK
<1>2. UNCHANGED <<ran, twice>> /\ turn' = turn + 1 /\ pc' = "begun"
  BY DEF StartTurn, history, GoTo
<1>3. \A id \in ran : id[1] \in Nat /\ id[1] <= turn
  BY DEF OnceInv, RanNamed
<1> QED
  BY <1>1, <1>2, <1>3 DEF OnceInv, NoToolTwice, RanNamed, RanReported

LEMMA ReceiveOnce ==
  ASSUME PlaceOK, OnceInv, pc = "recv", NEW r \in Replies,
         NEW S \in Streamed(r.tools), RunSome(S), StreamFails(r) \/ CommitReply(r),
         pc' = "idle" \/ batch'.results = S
  PROVE  OnceInv'
<1>1. S \in SUBSET Nat /\ UNCHANGED <<turn, calls>>
  BY StreamedType DEF StreamFails, CommitReply, EndTurn, control
<1>2. RanHere = {}
  <2>1. calls \in Nat
    BY DEF PlaceOK
  <2>2. \A id \in ran : id[1] = turn => id[2] < calls
    BY DEF OnceInv, RanNamed
  <2>3. \A k \in Nat : ToolId(k)[1] = turn /\ ToolId(k)[2] = calls
    BY DEF ToolId
  <2> QED
    BY <2>1, <2>2, <2>3 DEF RanHere
<1>3. /\ NoToolTwice' /\ RanHere' \subseteq S
      /\ ran' \subseteq Nat \X Nat \X Nat
      /\ \A id \in ran' : id[1] <= turn /\ (id[1] = turn => id[2] <= calls)
  BY <1>1, <1>2, RunSomeOnce DEF OnceInv
<1>4. \/ pc' = "idle"
      \/ pc' = "hooks" /\ batch'.results = S
  BY DEF StreamFails, CommitReply, EndTurn, GoTo
<1> QED
  BY <1>1, <1>3, <1>4 DEF OnceInv, RanNamed, RanReported

LEMMA StartBatchOnce ==
  ASSUME PlaceOK, BatchOK, OnceInv, NEW after \in {"next", "complete", "budget"},
         pc = "tools", StartBatch(after), UNCHANGED history
  PROVE  OnceInv'
<1>1. UNCHANGED <<ran, twice, turn, calls>> /\ pc' = "exec"
  BY DEF StartBatch, GoTo, control, history
<1>2. Groups(batch'.todo, Remaining) /\ batch.results \subseteq batch'.results
  BY StartBatchGroups
<1>3. RanHere' = RanHere
  BY <1>1 DEF RanHere, ToolId
<1>4. RanHere \subseteq batch.results
  BY DEF OnceInv, RanReported
<1>5. Groups(batch'.todo, Nat \ RanHere)
  BY <1>2, <1>4 DEF Groups, Remaining
<1>6. RanReported'
  BY <1>1, <1>2, <1>3, <1>4, <1>5 DEF RanReported, Groups
<1> QED
  BY <1>1, <1>6 DEF OnceInv, NoToolTwice, RanNamed

LEMMA RunGroupOnce == PlaceOK /\ BatchOK /\ OnceInv /\ RunGroup => OnceInv'
<1> SUFFICES ASSUME PlaceOK, BatchOK, OnceInv, RunGroup PROVE OnceInv'
  OBVIOUS
<1> DEFINE head == Head(batch.todo)
<1>1. batch.todo \in Seq(SUBSET Nat) /\ batch.todo # <<>> /\ Groups(batch.todo, Nat \ RanHere)
  BY DEF RunGroup, OnceInv, RanReported, Groups
<1>2. /\ Len(batch.todo) \in Nat /\ Len(batch.todo) >= 1 /\ head = batch.todo[1]
      /\ Tail(batch.todo) \in Seq(SUBSET Nat) /\ Len(Tail(batch.todo)) = Len(batch.todo) - 1
      /\ \A i \in 1..Len(Tail(batch.todo)) : Tail(batch.todo)[i] = batch.todo[i + 1]
  BY <1>1
<1>3. head \in SUBSET Nat /\ head \cap RanHere = {}
  BY <1>1, <1>2 DEF Groups
<1>4. UNCHANGED <<turn, calls, pc>> /\ RunSome(head) /\ pc = "exec"
  BY DEF RunGroup, control
<1>5. /\ NoToolTwice' /\ RanHere' \subseteq RanHere \cup head
      /\ ran' \subseteq Nat \X Nat \X Nat
      /\ \A id \in ran' : id[1] <= turn /\ (id[1] = turn => id[2] <= calls)
  <2> HIDE DEF head
  <2> QED
    BY <1>3, <1>4, RunSomeOnce DEF OnceInv
<1>6. batch'.results = batch.results \cup head /\ batch'.todo = Tail(batch.todo)
  BY DEF RunGroup, BatchOK, Batches
<1>7. Groups(Tail(batch.todo), Nat \ RanHere')
  <2> HIDE DEF head
  <2>1. \A i \in 1..Len(Tail(batch.todo)) :
          /\ i + 1 \in 1..Len(batch.todo) /\ i + 1 # 1 /\ 1 \in 1..Len(batch.todo)
    BY <1>2
  <2>2. \A i \in 1..Len(Tail(batch.todo)) :
          Tail(batch.todo)[i] \subseteq Nat \ RanHere /\ Tail(batch.todo)[i] \cap head = {}
    BY <1>1, <1>2, <2>1 DEF Groups
  <2>3. \A i, j \in 1..Len(Tail(batch.todo)) :
          i # j => Tail(batch.todo)[i] \cap Tail(batch.todo)[j] = {}
    <3> SUFFICES ASSUME NEW i \in 1..Len(Tail(batch.todo)),
                        NEW j \in 1..Len(Tail(batch.todo)), i # j
                 PROVE  Tail(batch.todo)[i] \cap Tail(batch.todo)[j] = {}
      OBVIOUS
    <3>1. i + 1 # j + 1 /\ i + 1 \in 1..Len(batch.todo) /\ j + 1 \in 1..Len(batch.todo)
      BY <1>2, <2>1
    <3>2. batch.todo[i + 1] \cap batch.todo[j + 1] = {}
      BY <1>1, <3>1 DEF Groups
    <3> QED
      BY <1>2, <3>2
  <2> QED
    BY <1>2, <1>5, <2>2, <2>3 DEF Groups
<1>8. RanHere \subseteq batch.results
  BY <1>4 DEF OnceInv, RanReported
<1>9. RanReported'
  <2> HIDE DEF head
  <2> QED
    BY <1>4, <1>5, <1>6, <1>7, <1>8 DEF RanReported, Groups
<1> QED
  BY <1>4, <1>5, <1>9 DEF OnceInv, RanNamed

LEMMA OnceStep == PlaceOK /\ BatchOK /\ OnceInv /\ [Next]_vars => OnceInv'
<1> SUFFICES ASSUME PlaceOK, BatchOK, OnceInv, [Next]_vars PROVE OnceInv'
  OBVIOUS
<1> USE DEF control, history
<1>1. CASE EndsTurn
  <2>1. Leaves
    BY <1>1 DEF EndsTurn, Leaves, EndTurn, EnterTurnFails, SkillsFail, OutOfTurns,
       SeeCancelled, CompactionFails, TooLongFails, MaxTokensFails, CallFails, Complete,
       SettleCancelled, SettleAndStop, Panic
  <2> QED
    BY <2>1, LeavesOnce
<1>2. CASE \/ EnterTurn \/ RecoverTooLong \/ RecoverMaxTokens \/ StopRunning
           \/ SettleAndGoOn \/ Resume
  <2>1. Leaves
    BY <1>2 DEF Leaves, GoTo, EnterTurn, RecoverTooLong, RecoverMaxTokens, Escalate,
       Continue, StopRunning, SettleAndGoOn, Resume
  <2> QED
    BY <2>1, LeavesOnce
<1>3. CASE CallStreams \/ FallBack \/ RunStopHooks \/ Cancel \/ UNCHANGED vars
  <2>1. Leaves \/ Stays
    BY <1>3 DEF Leaves, Stays, GoTo, EndTurn, CallStreams, FallBack, RunStopHooks, Cancel,
       vars
  <2> QED
    BY <2>1, LeavesOnce, StaysOnce
<1>4. CASE CommitResult
  <2>1. UNCHANGED <<ran, twice, turn, calls, pc>> /\ pc = "commit"
    BY <1>4 DEF CommitResult
  <2> QED
    BY <2>1, LeavesOnce DEF Leaves
<1>5. CASE Receive
  <2>1. PICK r \in Replies : StreamFails(r) \/ RecoverTruncated(r) \/ CommitReply(r)
    BY <1>5 DEF Receive
  <2>2. pc = "recv"
    BY <1>5 DEF Receive
  <2>3. CASE RecoverTruncated(r)
    <3>1. Leaves
      BY <2>3 DEF RecoverTruncated, Leaves, Escalate, Continue, GoTo
    <3> QED
      BY <3>1, LeavesOnce
  <2>4. CASE StreamFails(r) \/ CommitReply(r)
    <3>1. PICK S \in Streamed(r.tools) :
            RunSome(S) /\ (pc' = "idle" \/ batch'.results = S)
      BY <2>4 DEF StreamFails, CommitReply, EndTurn, NoBatch
    <3> QED
      BY <2>2, <2>4, <3>1, ReceiveOnce
  <2> QED
    BY <2>1, <2>3, <2>4
<1>6. CASE StopForBudget \/ RunTools
  <2>1. pc = "tools" /\ UNCHANGED history
    BY <1>6 DEF StopForBudget, RunTools
  <2>2. \/ EndTurn("no_progress")
        \/ \E after \in {"next", "complete", "budget"} : StartBatch(after)
    BY <1>6 DEF StopForBudget, RunTools
  <2>3. CASE EndTurn("no_progress")
    <3>1. Leaves
      BY <2>1, <2>3 DEF Leaves, EndTurn
    <3> QED
      BY <3>1, LeavesOnce
  <2>4. CASE \E after \in {"next", "complete", "budget"} : StartBatch(after)
    BY <2>1, <2>4, StartBatchOnce
  <2> QED
    BY <2>2, <2>3, <2>4
<1>7. CASE Crash
  <2>1. ran' = {} /\ twice' = twice /\ pc' = "down"
    BY <1>7 DEF Crash
  <2> QED
    BY <2>1 DEF OnceInv, NoToolTwice, RanNamed, RanReported
<1> QED
  BY <1>1, <1>2, <1>3, <1>4, <1>5, <1>6, <1>7, PrepareOnce, StartOnce, RunGroupOnce
  DEF Next, LoopStep, EndsTurn

\* No tool call runs twice in the life of a process, whatever the model streams
\* and whatever interrupts the loop: the calls that run while a reply streams have
\* their result before executeTools groups the rest, and its groups share no call.
THEOREM ToolsRunOnce == Spec => []NoToolTwice
<1>1. Init => OnceInv
  BY DEF Init, OnceInv, NoToolTwice, RanNamed, RanReported
<1>2. IInv => PlaceOK /\ BatchOK
  BY DEF IInv
<1>3. OnceInv => NoToolTwice
  BY DEF OnceInv
<1> QED
  BY <1>1, <1>2, <1>3, OnceStep, IInvHolds, PTL DEF Spec

-----------------------------------------------------------------------------
(* The results of a reply are in call order.                                *)

RealAt(c, i) == c[i].kind = "result" /\ c[i].ok

\* Each result of d is one of c, and they are in the same order.
Thins(d, c) ==
  \E n \in Nat : \A i \in 1..Len(d) :
    RealAt(d, i) => i + n \in 1..Len(c) /\ c[i + n] = d[i]

InCallOrder(c) ==
  \A i, j \in 1..Len(c) :
    /\ i < j /\ RealAt(c, i) /\ RealAt(c, j)
    /\ c[i].id[1] = c[j].id[1] /\ c[i].id[2] = c[j].id[2]
    => c[i].id[3] < c[j].id[3]

\* A result belongs to a reply that is there, and to the last one only while
\* its results are committed or after.
KnownAt(id, t, n, place, done) ==
  /\ id \in Nat \X Nat \X Nat
  /\ id[1] <= t /\ (id[1] = t => id[2] <= n)
  /\ place \in {"call", "recv", "hooks", "tools", "exec"} /\ id[1] = t => id[2] < n
  /\ place = "commit" /\ id[1] = t /\ id[2] = n => id[3] \in done

\* Of this state, and of the next.
KnownId(id)   == KnownAt(id, turn, calls, pc, batch.done)
KnownNext(id) == KnownAt(id, turn', calls', pc', batch'.done)

Known(c) == \A i \in 1..Len(c) : RealAt(c, i) => KnownId(c[i].id)

Stores == {conv, log, snap.msgs}

\* What is committed comes before what is not.
CommitsInOrder ==
  /\ pc \in {"hooks", "tools", "exec"} => batch.done = {}
  /\ pc = "commit" => \A d \in batch.done, u \in Uncommitted : d < u

OrderInv == CommitsInOrder /\ \A c \in Stores : InCallOrder(c) /\ Known(c)

LEMMA ThinsSame == \A c \in Seq(Msgs) : Thins(c, c) /\ Thins(<<>>, c)
<1> SUFFICES ASSUME NEW c \in Seq(Msgs) PROVE Thins(c, c) /\ Thins(<<>>, c)
  OBVIOUS
<1>1. 0 \in Nat /\ Len(<<>>) = 0 /\ \A i \in 1..Len(c) : i + 0 = i
  BY LenProperties
<1> QED
  BY <1>1 DEF Thins

LEMMA ThinsTwice ==
  ASSUME NEW b, NEW c, NEW d, Thins(d, c), Thins(c, b)
  PROVE  Thins(d, b)
<1>1. PICK m \in Nat : \A i \in 1..Len(d) :
        RealAt(d, i) => i + m \in 1..Len(c) /\ c[i + m] = d[i]
  BY DEF Thins
<1>2. PICK n \in Nat : \A i \in 1..Len(c) :
        RealAt(c, i) => i + n \in 1..Len(b) /\ b[i + n] = c[i]
  BY DEF Thins
<1>3. m + n \in Nat
  OBVIOUS
<1>4. ASSUME NEW i \in 1..Len(d), RealAt(d, i)
      PROVE  i + (m + n) \in 1..Len(b) /\ b[i + (m + n)] = d[i]
  <2>1. i + m \in 1..Len(c) /\ c[i + m] = d[i] /\ RealAt(c, i + m)
    BY <1>1, <1>4 DEF RealAt
  <2>2. (i + m) + n \in 1..Len(b) /\ b[(i + m) + n] = d[i]
    BY <1>2, <2>1
  <2>3. (i + m) + n = i + (m + n)
    OBVIOUS
  <2> QED
    BY <2>2, <2>3
<1> QED
  BY <1>3, <1>4 DEF Thins

LEMMA ThinsExtended ==
  ASSUME NEW c \in Seq(Msgs), NEW e \in Seq(Msgs), \A i \in 1..Len(e) : ~RealAt(e, i)
  PROVE  Thins(c \o e, c)
<1>1. /\ Len(c) \in Nat /\ Len(e) \in Nat /\ Len(c \o e) = Len(c) + Len(e)
      /\ \A i \in 1..(Len(c) + Len(e)) :
           (c \o e)[i] = IF i <= Len(c) THEN c[i] ELSE e[i - Len(c)]
  BY ConcatProperties, LenProperties
<1>2. ASSUME NEW i \in 1..Len(c \o e), RealAt(c \o e, i)
      PROVE  i \in 1..Len(c) /\ c[i] = (c \o e)[i]
  <2>1. CASE i <= Len(c)
    BY <1>1, <2>1
  <2>2. CASE ~(i <= Len(c))
    <3>1. i - Len(c) \in 1..Len(e) /\ (c \o e)[i] = e[i - Len(c)]
      BY <1>1, <2>2
    <3> QED
      BY <1>2, <3>1 DEF RealAt
  <2> QED
    BY <2>1, <2>2
<1>3. 0 \in Nat /\ \A i \in 1..Len(c \o e) : i + 0 = i
  BY <1>1
<1> QED
  BY <1>2, <1>3 DEF Thins

LEMMA ThinsAppended ==
  ASSUME NEW c \in Seq(Msgs), NEW m \in Msgs, ~(m.kind = "result" /\ m.ok)
  PROVE  Thins(Append(c, m), c)
<1>1. /\ Len(c) \in Nat /\ Len(Append(c, m)) = Len(c) + 1
      /\ \A i \in 1..Len(c) : Append(c, m)[i] = c[i]
      /\ Append(c, m)[Len(c) + 1] = m
  BY AppendProperties, LenProperties
<1>2. ASSUME NEW i \in 1..Len(Append(c, m)), RealAt(Append(c, m), i)
      PROVE  i + 0 \in 1..Len(c) /\ c[i + 0] = Append(c, m)[i]
  <2>1. i # Len(c) + 1
    BY <1>1, <1>2 DEF RealAt
  <2> QED
    BY <1>1, <2>1
<1> QED
  BY <1>2 DEF Thins

LEMMA ThinsSuffix ==
  ASSUME NEW c \in Seq(Msgs), NEW k \in Nat
  PROVE  Thins(SubSeq(c, k + 1, Len(c)), c)
<1> DEFINE d == SubSeq(c, k + 1, Len(c))
<1>1. Len(c) \in Nat /\ k + 1 \in Nat
  BY LenProperties
<1>2. /\ Len(d) = IF k + 1 <= Len(c) THEN Len(c) - (k + 1) + 1 ELSE 0
      /\ \A i \in 1..Len(d) : d[i] = c[(k + 1) + i - 1]
  BY <1>1, SubSeqProperties
<1>3. \A i \in 1..Len(d) : i + k \in 1..Len(c) /\ c[i + k] = d[i]
  <2> HIDE DEF d
  <2>1. ASSUME NEW i \in 1..Len(d)
        PROVE  i + k \in 1..Len(c) /\ (k + 1) + i - 1 = i + k
    BY <1>1, <1>2
  <2> QED
    BY <1>2, <2>1
<1> QED
  BY <1>3 DEF Thins

LEMMA ThinsCompacted ==
  ASSUME NEW c \in Seq(Msgs), NEW d \in Compacted(c)
  PROVE  Thins(d, c)
<1>1. CASE d = c
  BY <1>1, ThinsSame
<1>2. CASE Shrinkable(c) /\ d = Truncated(c)
  BY <1>2, TruncatedSuffix, ThinsSuffix DEF Shrinkable
<1> QED
  BY <1>1, <1>2 DEF Compacted

LEMMA ThinsDrained ==
  ASSUME NEW c \in Seq(Msgs), Drainable(c)
  PROVE  Thins(Drained(c), c)
<1>1. Len(c) - MinDrainPairs * 2 \in Nat
  BY BoundsAssumption, LenProperties DEF Drainable
<1> QED
  BY <1>1, ThinsSuffix DEF Drained

LEMMA ThinsTombstoned ==
  ASSUME NEW c \in Seq(Msgs)
  PROVE  Thins(Tombstoned(c), c)
<1>1. Len(c) \in Nat /\ DOMAIN c = 1..Len(c)
  BY LenProperties
<1>2. Tombstoned(c) \in Seq(Msgs)
  BY TombstonedType
<1>3. DOMAIN Tombstoned(c) = 1..Len(c) /\ Len(Tombstoned(c)) = Len(c)
  BY <1>1, <1>2, LenProperties DEF Tombstoned
<1>4. \A i \in 1..Len(c) : Tombstoned(c)[i] \in {c[i], Tombstone}
  BY <1>1 DEF Tombstoned
<1>5. Tombstone.kind # "result"
  BY DEF Tombstone, Message
<1>6. \A i \in 1..Len(Tombstoned(c)) :
        RealAt(Tombstoned(c), i) => i + 0 \in 1..Len(c) /\ c[i + 0] = Tombstoned(c)[i]
  BY <1>1, <1>3, <1>4, <1>5 DEF RealAt
<1> QED
  BY <1>6 DEF Thins

LEMMA ThinsSealed ==
  ASSUME NEW c \in Seq(Msgs)
  PROVE  Thins(Sealed(c), c)
<1> DEFINE a == LastAssistant(c)
           K == Unanswered(c, a)
<1>1. CASE a = 0
  BY <1>1, ThinsSame DEF Sealed
<1>2. CASE a # 0
  <2>1. c[a] \in Msgs /\ c[a].kind = "assistant"
    BY <1>2, LastAssistantType
  <2>2. K \in SUBSET c[a].uses
    BY DEF Unanswered
  <2>3. SealsOf(c[a], K) \in Seq(Msgs)
    BY <2>1, <2>2, SealsType
  <2>4. \A i \in 1..Len(SealsOf(c[a], K)) : ~RealAt(SealsOf(c[a], K), i)
    <3>1. K \in SUBSET Nat /\ IsFiniteSet(K)
      BY <2>1, <2>2, FS_Subset DEF Msgs, Messages
    <3>2. Cardinality(K) \in Nat
      BY <3>1, FS_CardinalityType
    <3>3. \A i \in 1..Cardinality(K) : ~SealsOf(c[a], K)[i].ok
      BY DEF SealsOf, SealedResult, Message
    <3>4. Len(SealsOf(c[a], K)) = Cardinality(K)
      BY <2>3, <3>2, LenProperties DEF SealsOf
    <3> QED
      BY <3>3, <3>4 DEF RealAt
  <2>5. Sealed(c) = c \o SealsOf(c[a], K)
    BY <1>2 DEF Sealed
  <2> QED
    BY <2>3, <2>4, <2>5, ThinsExtended
<1> QED
  BY <1>1, <1>2

\* The messages of the loop that are no results.
LEMMA NoResults ==
  /\ Note.kind # "result" /\ User(turn + 1).kind # "result"
  /\ \A n, text : Assistant(ReplyId, n, text).kind # "result"
BY DEF Note, User, Assistant, Message

\* What is in the conversation or in the store after a step was there before,
\* save the result that a commit adds.
Drawn(d) == \E c \in Stores : Thins(d, c)

LEMMA DrawnThins ==
  ASSUME NEW c \in Stores, NEW d, Thins(d, c)
  PROVE  Drawn(d)
BY DEF Drawn

LEMMA DrawnSame == MsgsOK => \A c \in Stores : Drawn(c)
BY ThinsSame DEF MsgsOK, Stores, Drawn

LEMMA SavedDrawn ==
  ASSUME NEW c, Drawn(c), SaveSnapshot(c)
  PROVE  Drawn(snap'.msgs)
BY DEF SaveSnapshot, Saved

LEMMA AppendDrawn ==
  ASSUME PlaceOK, MsgsOK, NEW m \in Msgs, m.kind # "result"
  PROVE  Drawn(Append(conv, m)) /\ Drawn(Append(log, m))
BY ThinsAppended DEF MsgsOK, Stores, Drawn

LEMMA ContinueDrawn ==
  ASSUME PlaceOK, MsgsOK, NEW partial \in Seq(Msgs),
         \A i \in 1..Len(partial) : ~RealAt(partial, i), Escalate \/ Continue(partial)
  PROVE  Drawn(conv') /\ Drawn(log') /\ Drawn(snap'.msgs)
<1>1. CASE Escalate
  BY <1>1, DrawnSame DEF Escalate, store, Stores
<1>2. CASE Continue(partial)
  <2>1. conv \o partial \in Seq(Msgs) /\ conv \in Seq(Msgs) /\ log \in Seq(Msgs)
    BY ConcatProperties DEF MsgsOK
  <2>2. Thins(conv \o partial, conv) /\ Thins(log \o partial, log)
    BY <2>1, ThinsExtended
  <2>3. Thins(Append(conv \o partial, Note), conv \o partial)
    BY <2>1, AppendedTypes, NoResults, ThinsAppended
  <2>4. Drawn(conv') /\ Drawn(log')
    BY <1>2, <2>2, <2>3, ThinsTwice DEF Continue, Drawn, Stores
  <2> QED
    BY <1>2, <2>4, SavedDrawn DEF Continue
<1> QED
  BY <1>1, <1>2

LEMMA StoresDrawn ==
  ASSUME PlaceOK, BatchOK, MsgsOK, [Next]_vars, ~CommitResult
  PROVE  Drawn(conv') /\ Drawn(log') /\ Drawn(snap'.msgs)
<1> USE DEF store
<1>0. /\ conv \in Seq(Msgs) /\ log \in Seq(Msgs) /\ snap.msgs \in Seq(Msgs)
      /\ Drawn(conv) /\ Drawn(log) /\ Drawn(snap.msgs) /\ Drawn(<<>>)
  BY DrawnSame, ThinsSame DEF MsgsOK, Stores, Drawn
<1>1. CASE \/ EnterTurnFails \/ SkillsFail \/ OutOfTurns \/ SeeCancelled \/ CompactionFails
           \/ CallStreams \/ TooLongFails \/ MaxTokensFails \/ CallFails \/ Complete
           \/ StopForBudget \/ RunGroup \/ StopRunning \/ Cancel \/ UNCHANGED vars
  <2>1. UNCHANGED <<conv, log, snap>>
    BY <1>1 DEF EnterTurnFails, SkillsFail, OutOfTurns, SeeCancelled, CompactionFails,
       CallStreams, TooLongFails, MaxTokensFails, CallFails, Complete, StopForBudget,
       RunGroup, StopRunning, Cancel, vars
  <2> QED
    BY <1>0, <2>1
<1>2. CASE StartTurn
  BY <1>0, <1>2, AppendDrawn, AppendedTypes, NoResults DEF StartTurn
<1>3. CASE EnterTurn
  <2>1. Drawn(conv')
    BY <1>0, <1>3, ThinsCompacted DEF EnterTurn, Drawn, Stores
  <2> QED
    BY <1>0, <1>3, <2>1, SavedDrawn DEF EnterTurn
<1>4. CASE PrepareCall
  <2>1. PICK c \in Compacted(conv) :
          \/ conv' = c /\ UNCHANGED snap
          \/ conv' \in Compacted(c) /\ SaveSnapshot(conv')
    BY <1>4 DEF PrepareCall
  <2>2. c \in Seq(Msgs) /\ Thins(c, conv)
    BY <1>0, CompactedType, ThinsCompacted
  <2>3. Thins(conv', c)
    BY <2>1, <2>2, ThinsSame, ThinsCompacted
  <2>4. Drawn(conv')
    BY <2>2, <2>3, ThinsTwice DEF Drawn, Stores
  <2> QED
    BY <1>0, <1>4, <2>1, <2>4, SavedDrawn DEF PrepareCall
<1>5. CASE RecoverTooLong
  <2>1. \/ Shrinkable(conv) /\ conv' \in Compacted(conv)
        \/ Drainable(conv) /\ conv' = Drained(conv)
    BY <1>5 DEF RecoverTooLong, Compacted
  <2>2. Drawn(conv')
    BY <1>0, <2>1, ThinsCompacted, ThinsDrained DEF Drawn, Stores
  <2> QED
    BY <1>0, <1>5, <2>2, SavedDrawn DEF RecoverTooLong
<1>6. CASE RecoverMaxTokens
  <2>1. <<>> \in Seq(Msgs) /\ \A i \in 1..Len(<<>>) : ~RealAt(<<>>, i)
    OBVIOUS
  <2>2. Escalate \/ Continue(<<>>)
    BY <1>6 DEF RecoverMaxTokens
  <2> QED
    BY <2>1, <2>2, ContinueDrawn
<1>7. CASE FallBack
  BY <1>0, <1>7, ThinsTombstoned DEF FallBack, Drawn, Stores
<1>8. CASE Receive
  <2>1. PICK r \in Replies : StreamFails(r) \/ RecoverTruncated(r) \/ CommitReply(r)
    BY <1>8 DEF Receive
  <2>2. CASE StreamFails(r)
    BY <1>0, <2>2, ThinsSealed DEF StreamFails, Drawn, Stores
  <2>3. CASE RecoverTruncated(r)
    <3> DEFINE m == Assistant(ReplyId, 0, r.text)
    <3>1. m \in Msgs /\ m.kind # "result"
      BY AppendedTypes, StreamedType, NoResults
    <3>2. <<m>> \in Seq(Msgs) /\ \A i \in 1..Len(<<m>>) : ~RealAt(<<m>>, i)
      <4> HIDE DEF m
      <4> QED
        BY <3>1 DEF RealAt
    <3> QED
      BY <2>3, <3>2, ContinueDrawn DEF RecoverTruncated
  <2>4. CASE CommitReply(r)
    <3> DEFINE m == Assistant(ReplyId, Len(r.tools), r.text \/ r.tools = <<>>)
    <3>1. (r.text \/ r.tools = <<>>) \in BOOLEAN /\ Len(r.tools) \in Nat
      BY StreamedType
    <3>2. m \in Msgs /\ m.kind # "result"
      BY <3>1, AppendedTypes, NoResults
    <3>3. conv' = Append(conv, m) /\ log' = Append(log, m) /\ UNCHANGED snap
      BY <2>4 DEF CommitReply
    <3> QED
      <4> HIDE DEF m
      <4> QED
        BY <1>0, <3>2, <3>3, AppendDrawn
  <2> QED
    BY <2>1, <2>2, <2>3, <2>4
<1>9. CASE RunStopHooks \/ RunTools
  <2>1. UNCHANGED store /\ (UNCHANGED conv \/ conv' = Append(conv, Note))
    BY <1>9 DEF RunStopHooks, RunTools
  <2> QED
    BY <1>0, <2>1, AppendDrawn, AppendedTypes, NoResults
<1>10. CASE SettleCancelled
  <2>1. Drawn(conv')
    BY <1>0, <1>10, ThinsSealed DEF SettleCancelled, Drawn, Stores
  <2> QED
    BY <1>0, <1>10, <2>1, SavedDrawn DEF SettleCancelled
<1>11. CASE SettleAndStop \/ SettleAndGoOn
  <2>1. \/ UNCHANGED <<conv, log>>
        \/ conv' = Append(conv, Note) /\ log' = Append(log, Note)
    BY <1>11 DEF SettleAndStop, SettleAndGoOn
  <2>2. SaveSnapshot(conv)
    BY <1>11 DEF SettleAndStop, SettleAndGoOn
  <2> QED
    BY <1>0, <2>1, <2>2, SavedDrawn, AppendDrawn, AppendedTypes, NoResults
<1>12. CASE Panic \/ Crash
  <2>1. UNCHANGED store /\ (conv' = Sealed(conv) \/ conv' = <<>>)
    BY <1>12 DEF Panic, Crash
  <2> QED
    BY <1>0, <2>1, ThinsSealed DEF Drawn, Stores
<1>13. CASE Resume
  <2>1. Loaded \in Stores /\ Loaded \in Seq(Msgs)
    BY <1>0 DEF Loaded, Stores
  <2> QED
    BY <1>0, <1>13, <2>1, ThinsSealed DEF Resume, Drawn
<1> QED
  BY <1>1, <1>2, <1>3, <1>4, <1>5, <1>6, <1>7, <1>8, <1>9, <1>10, <1>11, <1>12, <1>13
  DEF Next, LoopStep

\* What is drawn from an ordered list is ordered and known.
LEMMA DrawnOrdered ==
  ASSUME \A c \in Stores : InCallOrder(c) /\ Known(c), NEW d, Drawn(d), Len(d) \in Nat
  PROVE  InCallOrder(d) /\ Known(d)
<1>1. PICK c \in Stores : Thins(d, c)
  BY DEF Drawn
<1>2. PICK n \in Nat : \A i \in 1..Len(d) :
        RealAt(d, i) => i + n \in 1..Len(c) /\ c[i + n] = d[i]
  BY <1>1 DEF Thins
<1>3. InCallOrder(c) /\ Known(c)
  BY <1>1
<1>4. ASSUME NEW i \in 1..Len(d), NEW j \in 1..Len(d), i < j, RealAt(d, i), RealAt(d, j),
             d[i].id[1] = d[j].id[1], d[i].id[2] = d[j].id[2]
      PROVE  d[i].id[3] < d[j].id[3]
  <2>1. /\ i + n \in 1..Len(c) /\ c[i + n] = d[i] /\ RealAt(c, i + n)
        /\ j + n \in 1..Len(c) /\ c[j + n] = d[j] /\ RealAt(c, j + n)
        /\ i + n < j + n
    BY <1>2, <1>4 DEF RealAt
  <2>2. c[i + n].id[3] < c[j + n].id[3]
    BY <1>3, <1>4, <2>1 DEF InCallOrder
  <2> QED
    BY <2>1, <2>2
<1>5. ASSUME NEW i \in 1..Len(d), RealAt(d, i)
      PROVE  KnownId(d[i].id)
  <2>1. i + n \in 1..Len(c) /\ c[i + n] = d[i] /\ RealAt(c, i + n)
    BY <1>2, <1>5 DEF RealAt
  <2>2. KnownId(c[i + n].id)
    BY <1>3, <2>1 DEF Known
  <2> QED
    BY <2>1, <2>2
<1> QED
  BY <1>4, <1>5 DEF InCallOrder, Known

\* Where a step leads, and what it does to the names of the replies.
NamesKept ==
  \/ UNCHANGED <<turn, calls, batch>> /\ pc' = pc
  \/ UNCHANGED <<turn, calls>> /\ pc' \in {"idle", "top", "down"}
  \/ UNCHANGED <<turn, calls>> /\ pc = "call" /\ pc' = "recv"
  \/ UNCHANGED <<turn, calls>> /\ pc = "recv" /\ pc' = "hooks" /\ batch'.done = {}
  \/ /\ UNCHANGED <<turn, calls>> /\ batch'.done = batch.done
     /\ pc \in {"hooks", "tools", "exec"} /\ pc' \in {"tools", "exec"}
  \/ UNCHANGED <<turn, calls, batch>> /\ pc = "exec" /\ pc' = "commit"
  \/ PrepareCall \/ StartTurn \/ CommitResult

LEMMA EveryStepKeepsNames == BatchOK /\ [Next]_vars => NamesKept
<1> SUFFICES ASSUME BatchOK, [Next]_vars PROVE NamesKept
  OBVIOUS
<1> USE DEF NamesKept, control
<1>1. CASE EndsTurn
  BY <1>1 DEF EndsTurn, EndTurn, EnterTurnFails, SkillsFail, OutOfTurns, SeeCancelled,
     CompactionFails, TooLongFails, MaxTokensFails, CallFails, Complete, SettleCancelled,
     SettleAndStop, Panic
<1>2. CASE EnterTurn \/ RecoverTooLong \/ RecoverMaxTokens \/ SettleAndGoOn
  BY <1>2 DEF GoTo, EnterTurn, RecoverTooLong, RecoverMaxTokens, Escalate, Continue,
     SettleAndGoOn
<1>3. CASE CallStreams \/ FallBack \/ Cancel \/ Crash \/ Resume \/ UNCHANGED vars
  BY <1>3 DEF GoTo, EndTurn, CallStreams, FallBack, Cancel, Crash, Resume, vars
<1>4. CASE RunStopHooks \/ StopRunning
  BY <1>4 DEF GoTo, EndTurn, RunStopHooks, StopRunning
<1>5. CASE Receive
  BY <1>5 DEF Receive, StreamFails, RecoverTruncated, CommitReply, Escalate, Continue,
     GoTo, EndTurn, NoBatch
<1>6. CASE StopForBudget \/ RunTools
  <2>1. pc = "tools"
    BY <1>6 DEF StopForBudget, RunTools
  <2>2. \/ EndTurn("no_progress")
        \/ \E after \in {"next", "complete", "budget"} : StartBatch(after)
    BY <1>6 DEF StopForBudget, RunTools
  <2>3. CASE \E after \in {"next", "complete", "budget"} : StartBatch(after)
    BY <2>1, <2>3 DEF StartBatch, GoTo, BatchOK, Batches
  <2> QED
    BY <2>2, <2>3 DEF EndTurn
<1>7. CASE RunGroup
  BY <1>7 DEF RunGroup, BatchOK, Batches
<1> QED
  BY <1>1, <1>2, <1>3, <1>4, <1>5, <1>6, <1>7 DEF Next, LoopStep, EndsTurn

LEMMA KnownStays ==
  ASSUME PlaceOK, BatchOK, NamesKept, NEW id, KnownId(id)
  PROVE  KnownNext(id)
<1>1. turn \in Nat /\ calls \in Nat /\ id[1] \in Nat /\ id[2] \in Nat
  BY BoundsAssumption DEF PlaceOK, KnownId, KnownAt
<1>2. CASE PrepareCall
  <2>1. turn' = turn /\ calls' = calls + 1 /\ pc' = "call"
    BY <1>2 DEF PrepareCall, GoTo
  <2> QED
    BY <1>1, <2>1 DEF KnownId, KnownNext, KnownAt
<1>3. CASE StartTurn
  <2>1. turn' = turn + 1 /\ pc' = "begun"
    BY <1>3 DEF StartTurn, GoTo
  <2> QED
    BY <1>1, <2>1 DEF KnownId, KnownNext, KnownAt
<1>4. CASE CommitResult
  <2>1. UNCHANGED <<turn, calls, pc>> /\ batch.done \subseteq batch'.done /\ pc = "commit"
    BY <1>4 DEF CommitResult, control, BatchOK, Batches
  <2> QED
    BY <1>1, <2>1 DEF KnownId, KnownNext, KnownAt
<1>5. CASE ~(PrepareCall \/ StartTurn \/ CommitResult)
  BY <1>1, <1>5 DEF NamesKept, KnownId, KnownNext, KnownAt
<1> QED
  BY <1>2, <1>3, <1>4, <1>5

\* commitToolResults adds the results from the first call to the last.
LEMMA CommitOrder ==
  ASSUME PlaceOK, BatchOK, MsgsOK, OrderInv, CommitResult
  PROVE  OrderInv'
<1>1. PICK k \in Uncommitted :
        /\ NextResult(k)
        /\ conv' = Append(conv, Result(ToolId(k)))
        /\ log' = Append(log, Result(ToolId(k)))
        /\ batch' = [batch EXCEPT !.done = @ \cup {k}]
  BY DEF CommitResult
<1>2. UNCHANGED <<pc, turn, calls, snap>> /\ pc = "commit"
  BY DEF CommitResult, control
<1>3. /\ turn \in Nat /\ calls \in Nat /\ k \in Nat /\ Uncommitted \subseteq Nat
      /\ k \notin batch.done /\ batch.done \subseteq Nat
  BY BoundsAssumption DEF PlaceOK, BatchOK, Batches, Uncommitted
<1>4. batch'.done = batch.done \cup {k} /\ batch'.results = batch.results
  BY <1>1 DEF BatchOK, Batches
<1>5. CommitsInOrder'
  <2>1. \A d \in batch.done, u \in Uncommitted : d < u
    BY <1>2 DEF OrderInv, CommitsInOrder
  <2>2. \A u \in Uncommitted \ {k} : k < u
    BY <1>1, <1>3 DEF NextResult
  <2>3. Uncommitted' = Uncommitted \ {k}
    BY <1>4 DEF Uncommitted
  <2> QED
    BY <1>2, <1>4, <2>1, <2>2, <2>3 DEF CommitsInOrder
<1> DEFINE m == Result(ToolId(k))
<1>6. ASSUME NEW c \in Stores
      PROVE  InCallOrder(c) /\ Known(c)
  BY DEF OrderInv
<1>7. ASSUME NEW id, KnownId(id)
      PROVE  KnownNext(id)
  BY <1>7, KnownStays DEF NamesKept
<1>8. ASSUME NEW c \in Stores, c \in Seq(Msgs), NEW d, d = Append(c, m)
      PROVE  InCallOrder(d) /\ \A i \in 1..Len(d) : RealAt(d, i) => KnownNext(d[i].id)
  <2>1. m \in Msgs /\ m.id = <<turn, calls, k>>
    BY <1>3, AppendedTypes DEF Result, Message, ToolId
  <2>2. /\ Len(c) \in Nat /\ Len(d) = Len(c) + 1 /\ d[Len(c) + 1] = m
        /\ \A i \in 1..Len(c) : d[i] = c[i]
    BY <1>8, <2>1, AppendProperties, LenProperties
  <2>3. \A i \in 1..Len(d) : i \in 1..Len(c) \/ i = Len(c) + 1
    BY <2>2
  <2>4. KnownNext(m.id)
    BY <1>2, <1>3, <1>4, <2>1 DEF KnownId, KnownNext, KnownAt
  <2>5. \A i \in 1..Len(c) : RealAt(c, i) => KnownId(c[i].id)
    BY <1>6 DEF Known
  <2>6. ASSUME NEW i \in 1..Len(d), RealAt(d, i) PROVE KnownNext(d[i].id)
    <3>1. CASE i = Len(c) + 1
      BY <2>2, <2>4, <3>1
    <3>2. CASE i \in 1..Len(c)
      <4>1. KnownId(c[i].id) /\ d[i] = c[i]
        BY <2>2, <2>5, <2>6, <3>2 DEF RealAt
      <4> QED
        BY <1>7, <4>1
    <3> QED
      BY <2>3, <3>1, <3>2
  <2>7. ASSUME NEW i \in 1..Len(d), NEW j \in 1..Len(d), i < j, RealAt(d, i), RealAt(d, j),
               d[i].id[1] = d[j].id[1], d[i].id[2] = d[j].id[2]
        PROVE  d[i].id[3] < d[j].id[3]
    <3>1. i \in 1..Len(c) /\ d[i] = c[i] /\ RealAt(c, i)
      BY <2>2, <2>3, <2>7 DEF RealAt
    <3>2. CASE j \in 1..Len(c)
      <4>1. d[j] = c[j] /\ RealAt(c, j)
        BY <2>2, <2>7, <3>2 DEF RealAt
      <4> QED
        BY <1>6, <2>7, <3>1, <3>2, <4>1 DEF InCallOrder
    <3>3. CASE j = Len(c) + 1
      <4>1. d[j].id = <<turn, calls, k>>
        BY <2>1, <2>2, <3>3
      <4>2. d[i].id[1] = turn /\ d[i].id[2] = calls
        BY <2>7, <4>1
      <4>3. KnownId(d[i].id)
        BY <2>5, <3>1
      <4>4. d[i].id[3] \in batch.done
        BY <1>2, <4>2, <4>3 DEF KnownId, KnownAt
      <4>5. d[i].id[3] < k
        BY <1>2, <4>4 DEF OrderInv, CommitsInOrder
      <4> QED
        BY <4>1, <4>5
    <3> QED
      BY <2>3, <3>2, <3>3
  <2> QED
    BY <2>6, <2>7 DEF InCallOrder
<1>9. InCallOrder(conv)' /\ Known(conv)' /\ InCallOrder(log)' /\ Known(log)'
  <2> HIDE DEF m
  <2>1. conv \in Stores /\ log \in Stores /\ conv \in Seq(Msgs) /\ log \in Seq(Msgs)
    BY DEF Stores, MsgsOK
  <2>2. /\ InCallOrder(conv')
        /\ \A i \in 1..Len(conv') : RealAt(conv', i) => KnownNext(conv'[i].id)
    BY <1>1, <1>8, <2>1 DEF m
  <2>3. /\ InCallOrder(log')
        /\ \A i \in 1..Len(log') : RealAt(log', i) => KnownNext(log'[i].id)
    BY <1>1, <1>8, <2>1 DEF m
  <2> QED
    BY <2>2, <2>3 DEF InCallOrder, Known, RealAt, KnownId, KnownNext
<1>10. InCallOrder(snap.msgs)' /\ Known(snap.msgs)'
  <2>1. InCallOrder(snap.msgs) /\ Known(snap.msgs)
    BY <1>6 DEF Stores
  <2> QED
    BY <1>2, <1>7, <2>1 DEF InCallOrder, Known, RealAt, KnownId, KnownNext
<1> QED
  BY <1>5, <1>9, <1>10 DEF OrderInv, Stores

LEMMA OrderStep ==
  ASSUME PlaceOK, BatchOK, MsgsOK, MsgsOK', OrderInv, [Next]_vars
  PROVE  OrderInv'
<1>1. CASE CommitResult
  BY <1>1, CommitOrder
<1>2. CASE ~CommitResult
  <2>1. NamesKept
    BY EveryStepKeepsNames
  <2>2. CommitsInOrder'
    <3>1. CASE PrepareCall \/ StartTurn
      BY <3>1 DEF PrepareCall, StartTurn, GoTo, CommitsInOrder
    <3>2. CASE ~(PrepareCall \/ StartTurn)
      BY <1>2, <2>1, <3>2 DEF NamesKept, OrderInv, CommitsInOrder, Uncommitted
    <3> QED
      BY <3>1, <3>2
  <2>3. ASSUME NEW d \in {conv', log', snap'.msgs}
        PROVE  InCallOrder(d) /\ \A i \in 1..Len(d) : RealAt(d, i) => KnownNext(d[i].id)
    <3>1. Drawn(d)
      BY <1>2, StoresDrawn
    <3>2. Len(d) \in Nat
      BY LenProperties DEF MsgsOK
    <3>3. InCallOrder(d) /\ Known(d)
      BY <3>1, <3>2, DrawnOrdered DEF OrderInv
    <3>4. ASSUME NEW i \in 1..Len(d), RealAt(d, i) PROVE KnownNext(d[i].id)
      <4>1. KnownId(d[i].id)
        BY <3>3, <3>4 DEF Known
      <4> QED
        BY <2>1, <4>1, KnownStays
    <3> QED
      BY <3>3, <3>4
  <2>4. \A d \in {conv', log', snap'.msgs} : InCallOrder(d)
    BY <2>3
  <2>5. \A c \in Stores' : InCallOrder(c)
    BY <2>4 DEF Stores
  <2>6. Known(conv)' /\ Known(log)' /\ Known(snap.msgs)'
    BY <2>3 DEF Known, RealAt, KnownId, KnownNext
  <2> QED
    BY <2>2, <2>5, <2>6 DEF OrderInv, Stores, InCallOrder, RealAt
<1> QED
  BY <1>1, <1>2

\* The results of one reply are in call order wherever the conversation goes:
\* through compaction, draining, a fallback, sealing, the snapshot and the log, and
\* a crash and resume in between.
THEOREM ResultsOrdered == Spec => []ResultsInCallOrder
<1>1. Init => OrderInv
  BY DEF Init, OrderInv, CommitsInOrder, Stores, InCallOrder, Known, NoSnap
<1>2. IInv => PlaceOK /\ BatchOK /\ MsgsOK
  BY DEF IInv
<1>3. ASSUME MsgsOK, OrderInv PROVE ResultsInCallOrder
  <2>1. InCallOrder(conv) /\ DOMAIN conv = 1..Len(conv)
    BY <1>3, LenProperties DEF OrderInv, Stores, MsgsOK
  <2> QED
    BY <2>1 DEF ResultsInCallOrder, InCallOrder, At, RealAt
<1>4. PlaceOK /\ BatchOK /\ MsgsOK /\ MsgsOK' /\ OrderInv /\ [Next]_vars => OrderInv'
  BY OrderStep
<1> QED
  BY <1>1, <1>2, <1>3, <1>4, IInvHolds, PTL DEF Spec

-----------------------------------------------------------------------------
(* A resume would load every result the model is about to be shown.         *)

\* The loop commits results with the snapshot still to come, and saves it before
\* it goes on: from the head of the loop to the next batch, the snapshot holds
\* what the conversation does.
Reporting == {"top", "call", "recv", "hooks", "tools", "exec"}
Covered   == pc \in Reporting => RealResults(conv) \subseteq RealResults(Loaded)

LEMMA ThinsReal ==
  ASSUME NEW c \in Seq(Msgs), NEW d \in Seq(Msgs), Thins(d, c)
  PROVE  RealResults(d) \subseteq RealResults(c)
<1>1. DOMAIN c = 1..Len(c) /\ DOMAIN d = 1..Len(d)
  BY LenProperties
<1>2. PICK n \in Nat : \A i \in 1..Len(d) :
        RealAt(d, i) => i + n \in 1..Len(c) /\ c[i + n] = d[i]
  BY DEF Thins
<1>3. ASSUME NEW i \in 1..Len(d), RealAt(d, i)
      PROVE  d[i].id \in RealResults(c)
  <2>1. i + n \in DOMAIN c /\ c[i + n] = d[i] /\ RealAt(c, i + n)
    BY <1>1, <1>2, <1>3 DEF RealAt
  <2> QED
    BY <2>1 DEF RealResults, At, RealAt
<1> QED
  BY <1>1, <1>3 DEF RealResults, At, RealAt

LEMMA AppendReal ==
  ASSUME NEW c \in Seq(Msgs), NEW m \in Msgs
  PROVE  RealResults(c) \subseteq RealResults(Append(c, m))
<1>1. /\ DOMAIN c = 1..Len(c) /\ DOMAIN Append(c, m) = 1..(Len(c) + 1)
      /\ \A i \in 1..Len(c) : Append(c, m)[i] = c[i]
      /\ Len(c) \in Nat
  BY AppendProperties, LenProperties
<1>2. \A i \in 1..Len(c) : i \in DOMAIN Append(c, m)
  BY <1>1
<1> QED
  BY <1>1, <1>2 DEF RealResults, At

\* A step that saves all it leaves in the conversation, and one that only takes
\* from the conversation.
SavesAll == \E c \in Seq(Msgs) : SaveSnapshot(c) /\ Thins(conv', c)
Takes    == /\ Thins(conv', conv) /\ UNCHANGED snap /\ pc \in Reporting
            /\ log' = log \/ \E m \in Msgs : log' = Append(log, m)

LEMMA CoveredBySteps ==
  ASSUME MsgsOK, MsgsOK', Covered, SavesAll \/ Takes \/ pc' \notin Reporting
  PROVE  Covered'
<1>1. CASE SavesAll
  <2>1. PICK c \in Seq(Msgs) : SaveSnapshot(c) /\ Thins(conv', c)
    BY <1>1 DEF SavesAll
  <2>2. Loaded' = c
    BY <2>1 DEF SaveSnapshot, Saved, Loaded
  <2>3. RealResults(conv') \subseteq RealResults(c)
    BY <2>1, ThinsReal DEF MsgsOK
  <2> QED
    BY <2>2, <2>3 DEF Covered, RealResults, At
<1>2. CASE Takes
  <2>1. RealResults(conv') \subseteq RealResults(conv)
    BY <1>2, ThinsReal DEF MsgsOK, Takes
  <2>2. RealResults(conv) \subseteq RealResults(Loaded)
    BY <1>2 DEF Covered, Takes
  <2>3. RealResults(log) \subseteq RealResults(log')
    BY <1>2, AppendReal DEF MsgsOK, Takes
  <2>4. snap' = snap
    BY <1>2 DEF Takes
  <2> QED
    BY <2>1, <2>2, <2>3, <2>4 DEF Covered, Loaded, RealResults, At
<1>3. CASE pc' \notin Reporting
  BY <1>3 DEF Covered
<1> QED
  BY <1>1, <1>2, <1>3

LEMMA ContinueSaves ==
  ASSUME PlaceOK, MsgsOK, MsgsOK', NEW partial \in Seq(Msgs), pc \in Reporting,
         Escalate \/ Continue(partial)
  PROVE  SavesAll \/ Takes
<1>1. CASE Escalate
  BY <1>1, ThinsSame DEF Escalate, store, MsgsOK, Takes
<1>2. CASE Continue(partial)
  BY <1>2, ThinsSame DEF Continue, MsgsOK, SavesAll
<1> QED
  BY <1>1, <1>2

LEMMA CoverStep ==
  ASSUME PlaceOK, BatchOK, MsgsOK, MsgsOK', Covered, [Next]_vars
  PROVE  Covered'
<1> SUFFICES ASSUME pc' \in Reporting
             PROVE  SavesAll \/ Takes
  BY CoveredBySteps
<1>0. /\ conv \in Seq(Msgs) /\ conv' \in Seq(Msgs)
      /\ Thins(conv, conv) /\ Thins(conv', conv') /\ "idle" \notin Reporting
      /\ "down" \notin Reporting /\ "begun" \notin Reporting /\ "commit" \notin Reporting
  BY ThinsSame DEF MsgsOK, Reporting
<1>1. CASE EndsTurn \/ Crash \/ Resume \/ StartTurn \/ StopRunning \/ CommitResult
  BY <1>0, <1>1 DEF EndsTurn, EndTurn, EnterTurnFails, SkillsFail, OutOfTurns,
     SeeCancelled, CompactionFails, TooLongFails, MaxTokensFails, CallFails, Complete,
     SettleCancelled, SettleAndStop, Panic, Crash, Resume, StartTurn, StopRunning,
     CommitResult, GoTo
<1>2. CASE EnterTurn \/ RecoverTooLong
  BY <1>0, <1>2 DEF EnterTurn, RecoverTooLong, SavesAll
<1>3. CASE CallStreams \/ StopForBudget \/ RunGroup \/ Cancel \/ UNCHANGED vars
  <2>1. UNCHANGED <<conv, log, snap>>
    BY <1>3 DEF CallStreams, StopForBudget, RunGroup, Cancel, vars, store
  <2>2. pc \in Reporting
    BY <1>3 DEF CallStreams, StopForBudget, RunGroup, Cancel, vars, Reporting
  <2> QED
    BY <1>0, <2>1, <2>2 DEF Takes
<1>4. CASE PrepareCall
  <2>1. PICK c \in Compacted(conv) :
          \/ conv' = c /\ UNCHANGED snap
          \/ conv' \in Compacted(c) /\ SaveSnapshot(conv')
    BY <1>4 DEF PrepareCall
  <2>2. c \in Seq(Msgs) /\ Thins(c, conv)
    BY <1>0, CompactedType, ThinsCompacted
  <2>3. pc \in Reporting /\ log' = log
    BY <1>4 DEF PrepareCall, Reporting
  <2> QED
    BY <1>0, <2>1, <2>2, <2>3 DEF SavesAll, Takes
<1>5. CASE RecoverMaxTokens
  <2>1. <<>> \in Seq(Msgs) /\ pc \in Reporting /\ (Escalate \/ Continue(<<>>))
    BY <1>5 DEF RecoverMaxTokens, Reporting
  <2> QED
    BY <2>1, ContinueSaves
<1>6. CASE FallBack
  BY <1>0, <1>6, ThinsTombstoned DEF FallBack, store, Takes, Reporting
<1>7. CASE Receive
  <2>0. pc \in Reporting
    BY <1>7 DEF Receive, Reporting
  <2>1. PICK r \in Replies : StreamFails(r) \/ RecoverTruncated(r) \/ CommitReply(r)
    BY <1>7 DEF Receive
  <2>2. CASE StreamFails(r)
    BY <1>0, <2>2 DEF StreamFails, EndTurn
  <2>3. CASE RecoverTruncated(r)
    <3> DEFINE m == Assistant(ReplyId, 0, r.text)
    <3>1. m \in Msgs
      BY AppendedTypes, StreamedType
    <3>2. <<m>> \in Seq(Msgs)
      <4> HIDE DEF m
      <4> QED
        BY <3>1
    <3> QED
      BY <2>0, <2>3, <3>2, ContinueSaves DEF RecoverTruncated
  <2>4. CASE CommitReply(r)
    <3> DEFINE m == Assistant(ReplyId, Len(r.tools), r.text \/ r.tools = <<>>)
    <3>1. (r.text \/ r.tools = <<>>) \in BOOLEAN /\ Len(r.tools) \in Nat
      BY StreamedType
    <3>2. m \in Msgs /\ m.kind # "result"
      BY <3>1, AppendedTypes, NoResults
    <3>3. conv' = Append(conv, m) /\ log' = Append(log, m) /\ UNCHANGED snap
      BY <2>4 DEF CommitReply
    <3> HIDE DEF m
    <3>4. Thins(conv', conv)
      BY <1>0, <3>2, <3>3, ThinsAppended
    <3> QED
      BY <2>0, <3>2, <3>3, <3>4 DEF Takes
  <2> QED
    BY <2>1, <2>2, <2>3, <2>4
<1>8. CASE RunStopHooks \/ RunTools
  <2>1. UNCHANGED store /\ (UNCHANGED conv \/ conv' = Append(conv, Note))
    BY <1>8 DEF RunStopHooks, RunTools
  <2>2. Thins(conv', conv)
    BY <1>0, <2>1, ThinsAppended, AppendedTypes, NoResults
  <2> QED
    BY <1>8, <2>1, <2>2 DEF RunStopHooks, RunTools, store, Takes, Reporting
<1>9. CASE SettleAndGoOn
  <2>1. SaveSnapshot(conv) /\ (UNCHANGED conv \/ conv' = Append(conv, Note))
    BY <1>9 DEF SettleAndGoOn
  <2>2. Thins(conv', conv)
    BY <1>0, <2>1, ThinsAppended, AppendedTypes, NoResults
  <2> QED
    BY <1>0, <2>1, <2>2 DEF SavesAll
<1> QED
  BY <1>1, <1>2, <1>3, <1>4, <1>5, <1>6, <1>7, <1>8, <1>9 DEF Next, LoopStep, EndsTurn

\* Every result the conversation holds when the model is called again is in what
\* a resume would load, whatever compaction, recovery or fallback came between.
THEOREM SnapshotCovers == Spec => []SnapshotCoversResults
<1>1. Init => Covered
  BY DEF Init, Covered, Reporting
<1>2. IInv => PlaceOK /\ BatchOK /\ MsgsOK
  BY DEF IInv
<1>3. Covered => SnapshotCoversResults
  BY DEF Covered, SnapshotCoversResults, Reporting
<1>4. PlaceOK /\ BatchOK /\ MsgsOK /\ MsgsOK' /\ Covered /\ [Next]_vars => Covered'
  BY CoverStep
<1> QED
  BY <1>1, <1>2, <1>3, <1>4, IInvHolds, PTL DEF Spec

-----------------------------------------------------------------------------
(* Every call of a tool is answered before the conversation is used again.  *)

\* Message j answers call k of message i: with a result, or by being the
\* tombstone of what may have been one.
Answers(c, i, k, j) ==
  \/ c[j].kind = "tombstone"
  \/ c[j].kind = "result" /\ c[j].id = <<c[i].id[1], c[i].id[2], k>>

AnsweredAt(c, i) ==
  \A k \in c[i].uses : \E j \in 1..Len(c) : i < j /\ Answers(c, i, k, j)

Speaks(c, i) == c[i].kind = "assistant"

\* No reply in c is of a turn after t; those of turn t have their answers.
Past(c, t)  == \A i \in 1..Len(c) : Speaks(c, i) => c[i].id[1] <= t
Sound(c, t) == /\ Past(c, t)
               /\ \A i \in 1..Len(c) : Speaks(c, i) /\ c[i].id[1] = t => AnsweredAt(c, i)

\* d is c and messages that ask for no tool.
Grown(d, c, t) ==
  /\ Len(c) <= Len(d)
  /\ \A i \in 1..Len(c) : d[i] = c[i]
  /\ \A i \in 1..Len(d) : i > Len(c) /\ Speaks(d, i) => d[i].id[1] <= t /\ d[i].uses = {}

LEMMA GrownSame == \A c \in Seq(Msgs), t \in Nat : Grown(c, c, t)
BY LenProperties DEF Grown

LEMMA GrownAppend ==
  ASSUME NEW c \in Seq(Msgs), NEW t \in Nat, NEW m \in Msgs,
         m.kind = "assistant" => m.id[1] <= t /\ m.uses = {}
  PROVE  Grown(Append(c, m), c, t)
<1>1. /\ Len(c) \in Nat /\ Len(Append(c, m)) = Len(c) + 1
      /\ \A i \in 1..Len(c) : Append(c, m)[i] = c[i]
      /\ Append(c, m)[Len(c) + 1] = m
  BY AppendProperties, LenProperties
<1>2. \A i \in 1..(Len(c) + 1) : i > Len(c) => i = Len(c) + 1
  BY <1>1
<1> QED
  BY <1>1, <1>2 DEF Grown, Speaks

LEMMA GrownTwice ==
  ASSUME NEW b \in Seq(Msgs), NEW c \in Seq(Msgs), NEW d \in Seq(Msgs), NEW t \in Nat,
         Grown(c, b, t), Grown(d, c, t)
  PROVE  Grown(d, b, t)
<1>1. Len(b) \in Nat /\ Len(c) \in Nat /\ Len(d) \in Nat
  BY LenProperties
<1>2. \A i \in 1..Len(b) : i \in 1..Len(c) /\ d[i] = b[i]
  BY <1>1 DEF Grown
<1>3. ASSUME NEW i \in 1..Len(d), i > Len(b), Speaks(d, i)
      PROVE  d[i].id[1] <= t /\ d[i].uses = {}
  <2>1. CASE i \in 1..Len(c)
    BY <1>3, <2>1 DEF Grown, Speaks
  <2>2. CASE i > Len(c)
    BY <1>3, <2>2 DEF Grown
  <2> QED
    BY <1>1, <2>1, <2>2
<1> QED
  BY <1>1, <1>2, <1>3 DEF Grown

LEMMA PastGrown ==
  ASSUME NEW c \in Seq(Msgs), NEW d \in Seq(Msgs), NEW t \in Nat,
         Past(c, t), Grown(d, c, t)
  PROVE  Past(d, t)
<1>1. Len(c) \in Nat /\ Len(d) \in Nat
  BY LenProperties
<1>2. ASSUME NEW i \in 1..Len(d), Speaks(d, i)
      PROVE  d[i].id[1] <= t
  <2>1. CASE i \in 1..Len(c)
    BY <1>2, <2>1 DEF Grown, Speaks, Past
  <2>2. CASE i > Len(c)
    BY <1>2, <2>2 DEF Grown
  <2> QED
    BY <1>1, <2>1, <2>2
<1> QED
  BY <1>2 DEF Past

\* An answer stays where it is when the conversation grows.
LEMMA AnsweredGrown ==
  ASSUME NEW c \in Seq(Msgs), NEW d \in Seq(Msgs), NEW t \in Nat, Grown(d, c, t),
         NEW i \in 1..Len(c), AnsweredAt(c, i)
  PROVE  AnsweredAt(d, i)
<1>1. Len(c) \in Nat /\ Len(d) \in Nat
  BY LenProperties
<1>2. \A j \in 1..Len(c) : j \in 1..Len(d) /\ d[j] = c[j]
  BY <1>1 DEF Grown
<1> QED
  BY <1>2 DEF AnsweredAt, Answers

LEMMA SoundGrown ==
  ASSUME NEW c \in Seq(Msgs), NEW d \in Seq(Msgs), NEW t \in Nat,
         Sound(c, t), Grown(d, c, t)
  PROVE  Sound(d, t)
<1>1. Len(c) \in Nat /\ Len(d) \in Nat
  BY LenProperties
<1>2. Past(d, t)
  BY PastGrown DEF Sound
<1>3. ASSUME NEW i \in 1..Len(d), Speaks(d, i), d[i].id[1] = t
      PROVE  AnsweredAt(d, i)
  <2>1. CASE i \in 1..Len(c)
    <3>1. Speaks(c, i) /\ c[i].id[1] = t
      BY <1>3, <2>1 DEF Grown, Speaks
    <3>2. AnsweredAt(c, i)
      BY <2>1, <3>1 DEF Sound
    <3> QED
      BY <2>1, <3>2, AnsweredGrown
  <2>2. CASE i > Len(c)
    BY <1>3, <2>2 DEF Grown, AnsweredAt
  <2> QED
    BY <1>1, <2>1, <2>2
<1> QED
  BY <1>2, <1>3 DEF Sound

\* Cutting from the front takes a call with its answers or leaves the answers.
LEMMA SoundSuffix ==
  ASSUME NEW c \in Seq(Msgs), NEW k \in Nat, NEW t \in Nat, Sound(c, t)
  PROVE  Sound(SubSeq(c, k + 1, Len(c)), t)
<1> DEFINE d == SubSeq(c, k + 1, Len(c))
<1>1. Len(c) \in Nat /\ k + 1 \in Nat
  BY LenProperties
<1>2. /\ Len(d) = IF k + 1 <= Len(c) THEN Len(c) - (k + 1) + 1 ELSE 0
      /\ \A i \in 1..Len(d) : d[i] = c[(k + 1) + i - 1]
  BY <1>1, SubSeqProperties
<1> HIDE DEF d
<1>3. \A i \in 1..Len(d) : i + k \in 1..Len(c) /\ d[i] = c[i + k]
  <2>1. ASSUME NEW i \in 1..Len(d)
        PROVE  i + k \in 1..Len(c) /\ (k + 1) + i - 1 = i + k
    BY <1>1, <1>2
  <2> QED
    BY <1>2, <2>1
<1>4. Past(d, t)
  BY <1>3 DEF Sound, Past, Speaks
<1>5. ASSUME NEW i \in 1..Len(d), Speaks(d, i), d[i].id[1] = t, NEW u \in d[i].uses
      PROVE  \E j \in 1..Len(d) : i < j /\ Answers(d, i, u, j)
  <2>1. i + k \in 1..Len(c) /\ d[i] = c[i + k] /\ Speaks(c, i + k)
    BY <1>3, <1>5 DEF Speaks
  <2>2. PICK j \in 1..Len(c) : i + k < j /\ Answers(c, i + k, u, j)
    BY <1>5, <2>1 DEF Sound, AnsweredAt
  <2>3. j - k \in 1..Len(d) /\ i < j - k /\ (j - k) + k = j
    BY <1>1, <1>2, <1>5, <2>2
  <2>4. d[j - k] = c[j]
    BY <1>3, <2>3
  <2> QED
    BY <2>1, <2>2, <2>3, <2>4 DEF Answers
<1> QED
  BY <1>4, <1>5 DEF Sound, AnsweredAt, d

LEMMA SoundCompacted ==
  ASSUME NEW c \in Seq(Msgs), NEW t \in Nat, Sound(c, t), NEW d \in Compacted(c)
  PROVE  Sound(d, t)
<1>1. CASE d = c
  BY <1>1
<1>2. CASE Shrinkable(c) /\ d = Truncated(c)
  BY <1>2, TruncatedSuffix, SoundSuffix DEF Shrinkable
<1> QED
  BY <1>1, <1>2 DEF Compacted

LEMMA SoundDrained ==
  ASSUME NEW c \in Seq(Msgs), NEW t \in Nat, Sound(c, t), Drainable(c)
  PROVE  Sound(Drained(c), t)
<1>1. Len(c) - MinDrainPairs * 2 \in Nat
  BY BoundsAssumption, LenProperties DEF Drainable
<1> QED
  BY <1>1, SoundSuffix DEF Drained

\* The fallback tombstones answers and no call.
LEMMA SoundTombstoned ==
  ASSUME NEW c \in Seq(Msgs), NEW t \in Nat, Sound(c, t)
  PROVE  Sound(Tombstoned(c), t)
<1> DEFINE d == Tombstoned(c)
           a == LastAssistant(c)
<1>1. Len(c) \in Nat /\ DOMAIN c = 1..Len(c) /\ d \in Seq(Msgs)
  BY LenProperties, TombstonedType
<1>2. DOMAIN d = 1..Len(c) /\ Len(d) = Len(c)
  BY <1>1, LenProperties DEF Tombstoned
<1>3. \A i \in 1..Len(c) : d[i] = IF i > a THEN Tombstone ELSE c[i]
  BY <1>1 DEF Tombstoned
<1>4. Tombstone.kind = "tombstone"
  BY DEF Tombstone, Message
<1> HIDE DEF d, a
<1>5. \A i \in 1..Len(d) : Speaks(d, i) => d[i] = c[i] /\ Speaks(c, i)
  BY <1>2, <1>3, <1>4 DEF Speaks
<1>6. Past(d, t)
  BY <1>2, <1>5 DEF Sound, Past
<1>7. ASSUME NEW i \in 1..Len(d), Speaks(d, i), d[i].id[1] = t, NEW u \in d[i].uses
      PROVE  \E j \in 1..Len(d) : i < j /\ Answers(d, i, u, j)
  <2>1. i \in 1..Len(c) /\ d[i] = c[i] /\ Speaks(c, i)
    BY <1>2, <1>5, <1>7
  <2>2. PICK j \in 1..Len(c) : i < j /\ Answers(c, i, u, j)
    BY <1>7, <2>1 DEF Sound, AnsweredAt
  <2>3. d[j] = c[j] \/ d[j] = Tombstone
    BY <1>3
  <2>4. Answers(d, i, u, j)
    BY <1>4, <2>1, <2>2, <2>3 DEF Answers
  <2> QED
    BY <1>2, <2>2, <2>4
<1> QED
  BY <1>6, <1>7 DEF Sound, AnsweredAt, d

\* Sealing names each unanswered call once, in call order.
LEMMA InOrderAll ==
  ASSUME NEW K \in SUBSET Nat, IsFiniteSet(K)
  PROVE  \A k \in K : \E i \in 1..Cardinality(K) : InOrder(K)[i] = k
<1> DEFINE n == Cardinality(K)
           f == InOrder(K)
<1>1. /\ n \in Nat /\ f \in [1..n -> K]
      /\ \A i, j \in 1..n : i < j => f[i] < f[j]
  BY InOrderType
<1>2. IsFiniteSet(1..n) /\ Cardinality(1..n) = n
  <2> HIDE DEF n
  <2> QED
    BY <1>1, FS_Interval
<1> HIDE DEF f
<1>3. \A i, j \in 1..n : i # j => f[i] # f[j]
  <2>1. \A i, j \in 1..n : i # j => i < j \/ j < i
    BY <1>1
  <2>2. \A i \in 1..n : f[i] \in Nat
    BY <1>1
  <2> QED
    BY <1>1, <2>1, <2>2
<1>4. f \in Injection(1..n, K)
  BY <1>1, <1>3 DEF Injection, IsInjective
<1>5. f \in Surjection(1..n, K)
  <2> HIDE DEF n
  <2>1. Cardinality(1..n) = Cardinality(K) <=> f \in Surjection(1..n, K)
    BY <1>4, FS_Injection
  <2> QED
    BY <1>2, <2>1 DEF n
<1> QED
  BY <1>5 DEF Surjection, f

\* What sealing adds: a result for each unanswered call, in call order.
LEMMA SealedParts ==
  ASSUME NEW c \in Seq(Msgs), LastAssistant(c) # 0
  PROVE  LET a == LastAssistant(c)
             K == Unanswered(c, a)
             n == Cardinality(K)
             d == Sealed(c)
         IN  /\ a \in 1..Len(c) /\ Len(c) \in Nat /\ c[a] \in Msgs /\ c[a].kind = "assistant"
             /\ K \in SUBSET Nat /\ IsFiniteSet(K) /\ K \subseteq c[a].uses /\ n \in Nat
             /\ Len(d) = Len(c) + n
             /\ \A i \in 1..Len(c) : d[i] = c[i]
             /\ \A i \in 1..n : /\ d[Len(c) + i].kind = "result"
                               /\ d[Len(c) + i].id = <<c[a].id[1], c[a].id[2], InOrder(K)[i]>>
                               /\ InOrder(K)[i] \in K
<1> DEFINE a == LastAssistant(c)
           K == Unanswered(c, a)
           n == Cardinality(K)
           e == SealsOf(c[a], K)
           d == Sealed(c)
<1>1. c[a] \in Msgs /\ c[a].kind = "assistant" /\ a \in 1..Len(c) /\ Len(c) \in Nat
  BY LastAssistantType, LenProperties
<1>2. K \in SUBSET c[a].uses
  BY DEF Unanswered
<1>3. K \in SUBSET Nat /\ IsFiniteSet(K)
  BY <1>1, <1>2, FS_Subset DEF Msgs, Messages
<1>4. n \in Nat /\ InOrder(K) \in [1..n -> K]
  BY <1>3, InOrderType
<1>5. e \in Seq(Msgs)
  BY <1>1, <1>2, SealsType
<1>6. Len(e) = n /\ \A i \in 1..n : e[i] = SealedResult(<<c[a].id[1], c[a].id[2], InOrder(K)[i]>>)
  <2>1. DOMAIN e = 1..n
    BY DEF SealsOf
  <2>2. Len(e) = n
    <3> HIDE DEF e, n
    <3> QED
      BY <1>4, <1>5, <2>1, LenProperties
  <2>3. \A i \in 1..n : e[i] = SealedResult(<<c[a].id[1], c[a].id[2], InOrder(K)[i]>>)
    BY DEF SealsOf
  <2> QED
    BY <2>2, <2>3
<1>7. \A i \in 1..n : /\ e[i].kind = "result"
                    /\ e[i].id = <<c[a].id[1], c[a].id[2], InOrder(K)[i]>>
  <2>1. \A id : SealedResult(id).kind = "result" /\ SealedResult(id).id = id
    BY DEF SealedResult, Message
  <2> HIDE DEF e, n, K, a
  <2> QED
    BY <1>6, <2>1
<1>8. d = c \o e
  BY DEF Sealed
<1>9. /\ Len(d) = Len(c) + n
      /\ \A i \in 1..Len(c) : d[i] = c[i]
      /\ \A i \in 1..n : d[Len(c) + i] = e[i]
  <2>1. /\ Len(c \o e) = Len(c) + Len(e)
        /\ \A i \in 1..(Len(c) + Len(e)) :
             (c \o e)[i] = IF i <= Len(c) THEN c[i] ELSE e[i - Len(c)]
    <3> HIDE DEF e
    <3> QED
      BY <1>5, ConcatProperties
  <2> HIDE DEF n, e, d
  <2>2. \A i \in 1..n : Len(c) + i \in 1..(Len(c) + Len(e)) /\ ~(Len(c) + i <= Len(c))
                        /\ (Len(c) + i) - Len(c) = i
    BY <1>1, <1>4, <1>6
  <2>3. \A i \in 1..Len(c) : i \in 1..(Len(c) + Len(e)) /\ i <= Len(c)
    BY <1>1, <1>4, <1>6
  <2> QED
    BY <1>6, <1>8, <2>1, <2>2, <2>3
<1>10. \A i \in 1..n : InOrder(K)[i] \in K
  BY <1>4
<1> HIDE DEF e, d, n, K, a
<1>11. \A i \in 1..n : /\ d[Len(c) + i].kind = "result"
                     /\ d[Len(c) + i].id = <<c[a].id[1], c[a].id[2], InOrder(K)[i]>>
                     /\ InOrder(K)[i] \in K
  BY <1>7, <1>9, <1>10
<1> QED
  BY <1>1, <1>2, <1>3, <1>4, <1>9, <1>11 DEF a, K, n, d

\* Nothing of the last reply is unanswered then.
LEMMA SealedAnswers ==
  ASSUME NEW c \in Seq(Msgs), LastAssistant(c) # 0
  PROVE  LET a == LastAssistant(c)
         IN  /\ a \in 1..Len(c)
             /\ AnsweredAt(Sealed(c), a)
             /\ \A i \in 1..Len(Sealed(c)) : i > Len(c) =>
                  /\ Sealed(c)[i].kind = "result"
                  /\ \E k \in Unanswered(c, a) :
                       Sealed(c)[i].id = <<c[a].id[1], c[a].id[2], k>>
<1> DEFINE a == LastAssistant(c)
           K == Unanswered(c, a)
           n == Cardinality(K)
           d == Sealed(c)
<1>1. /\ a \in 1..Len(c) /\ Len(c) \in Nat /\ c[a] \in Msgs /\ c[a].kind = "assistant"
      /\ K \in SUBSET Nat /\ IsFiniteSet(K) /\ n \in Nat /\ Len(d) = Len(c) + n
      /\ \A i \in 1..Len(c) : d[i] = c[i]
      /\ \A i \in 1..n : /\ d[Len(c) + i].kind = "result"
                        /\ d[Len(c) + i].id = <<c[a].id[1], c[a].id[2], InOrder(K)[i]>>
                        /\ InOrder(K)[i] \in K
  BY SealedParts
<1>2. \A k \in K : \E i \in 1..n : InOrder(K)[i] = k
  BY <1>1, InOrderAll
<1>3. d[a] = c[a]
  <2> HIDE DEF d, a
  <2> QED
    BY <1>1
<1>4. \A k \in c[a].uses :
        k \in K \/ \E i \in At(c, "result") : i > a /\ c[i].id = <<c[a].id[1], c[a].id[2], k>>
  BY DEF Unanswered
<1> HIDE DEF n, d, a, K
<1>5. ASSUME NEW k \in c[a].uses
      PROVE  \E j \in 1..Len(d) : a < j /\ Answers(d, a, k, j)
  <2>1. CASE k \in K
    <3>1. PICK i \in 1..n : InOrder(K)[i] = k
      BY <1>2, <2>1
    <3>2. Len(c) + i \in 1..Len(d) /\ a < Len(c) + i
      BY <1>1
    <3>3. Answers(d, a, k, Len(c) + i)
      BY <1>1, <1>3, <3>1 DEF Answers
    <3> QED
      BY <3>2, <3>3
  <2>2. CASE k \notin K
    <3>1. PICK j \in At(c, "result") : j > a /\ c[j].id = <<c[a].id[1], c[a].id[2], k>>
      BY <1>4, <2>2
    <3>2. j \in 1..Len(c) /\ c[j].kind = "result"
      BY <3>1, LenProperties DEF At
    <3>3. j \in 1..Len(d) /\ d[j] = c[j] /\ a < j
      BY <1>1, <3>1, <3>2
    <3>4. Answers(d, a, k, j)
      BY <1>3, <3>1, <3>2, <3>3 DEF Answers
    <3> QED
      BY <3>3, <3>4
  <2> QED
    BY <2>1, <2>2
<1>6. ASSUME NEW i \in 1..Len(d), i > Len(c)
      PROVE  d[i].kind = "result" /\ \E k \in K : d[i].id = <<c[a].id[1], c[a].id[2], k>>
  <2>1. i - Len(c) \in 1..n /\ Len(c) + (i - Len(c)) = i
    BY <1>1, <1>6
  <2> QED
    BY <1>1, <2>1
<1> QED
  BY <1>1, <1>5, <1>6 DEF AnsweredAt, a, K, d

LEMMA GrownSealed == \A c \in Seq(Msgs), t \in Nat : Grown(Sealed(c), c, t)
<1> SUFFICES ASSUME NEW c \in Seq(Msgs), NEW t \in Nat
             PROVE  Grown(Sealed(c), c, t)
  OBVIOUS
<1> DEFINE a == LastAssistant(c)
           e == SealsOf(c[a], Unanswered(c, a))
<1>1. CASE a = 0
  BY <1>1, GrownSame DEF Sealed
<1>2. CASE a # 0
  <2>1. Sealed(c) = c \o e
    BY <1>2 DEF Sealed
  <2>2. e \in Seq(Msgs)
    <3>1. c[a] \in Msgs /\ c[a].kind = "assistant"
      BY <1>2, LastAssistantType
    <3>2. Unanswered(c, a) \in SUBSET c[a].uses
      BY DEF Unanswered
    <3> QED
      BY <3>1, <3>2, SealsType
  <2>3. Len(c) <= Len(Sealed(c)) /\ \A i \in 1..Len(c) : Sealed(c)[i] = c[i]
    <3> HIDE DEF e
    <3>1. /\ Len(c) \in Nat /\ Len(e) \in Nat /\ Len(c \o e) = Len(c) + Len(e)
          /\ \A i \in 1..(Len(c) + Len(e)) :
               (c \o e)[i] = IF i <= Len(c) THEN c[i] ELSE e[i - Len(c)]
      BY <2>2, ConcatProperties, LenProperties
    <3> QED
      BY <2>1, <3>1
  <2>4. \A i \in 1..Len(Sealed(c)) : i > Len(c) => Sealed(c)[i].kind = "result"
    BY <1>2, SealedAnswers
  <2> QED
    BY <2>3, <2>4 DEF Grown, Speaks
<1> QED
  BY <1>1, <1>2

LEMMA LastAssistantIs ==
  ASSUME NEW c \in Seq(Msgs), NEW a \in 1..Len(c), Speaks(c, a),
         \A j \in 1..Len(c) : j > a => ~Speaks(c, j)
  PROVE  LastAssistant(c) = a
<1> DEFINE A == At(c, "assistant")
<1>1. DOMAIN c = 1..Len(c) /\ Len(c) \in Nat
  BY LenProperties
<1>2. A \in SUBSET (1..Len(c)) /\ a \in A /\ \A j \in A : j <= a
  BY <1>1 DEF At, Speaks
<1>3. LastAssistant(c) = CHOOSE i \in A : \A j \in A : j <= i
  BY <1>2 DEF LastAssistant
<1>4. \A i \in A : (\A j \in A : j <= i) => i = a
  <2> HIDE DEF A
  <2> QED
    BY <1>1, <1>2
<1> QED
  <2> HIDE DEF A
  <2> QED
    BY <1>2, <1>3, <1>4

\* The reply whose calls are being run, at position a of the conversation: it is
\* the last one, those before it have their answers, and so have the calls
\* whose results are committed.
Replying == {"hooks", "tools", "exec", "commit"}

LastReply(a) ==
  /\ a \in 1..Len(conv) /\ Speaks(conv, a)
  /\ conv[a].id = ReplyId /\ conv[a].uses = DOMAIN batch.tools
  /\ \A i \in 1..Len(conv) : i > a => ~Speaks(conv, i)
  /\ \A i \in 1..Len(conv) : i < a /\ Speaks(conv, i) /\ conv[i].id[1] = turn
                               => AnsweredAt(conv, i)
  /\ \A k \in batch.done : \E j \in 1..Len(conv) : a < j /\ conv[j] = Result(ToolId(k))

\* But for the last reply, the calls of the turn have their answers.
Left ==
  \A i \in 1..Len(conv) : Speaks(conv, i) /\ conv[i].id[1] = turn /\ conv[i].id # ReplyId
                          => AnsweredAt(conv, i)

\* Where the conversation has no call open.
Closed ==
  \/ pc \in {"begun", "top", "call", "recv"}
  \/ pc = "idle" /\ exit \notin {"no_progress", "stop_hook"}

Calls(s) == UNION {s[i] : i \in 1..Len(s)}

\* Each call of the reply has its result or is in a group still to run; when the
\* batch is committed uncancelled, each has its result.
AllScheduled ==
  /\ pc = "exec" => DOMAIN batch.tools \subseteq batch.results \cup Calls(batch.todo)
  /\ pc = "commit" /\ ~cancelled => DOMAIN batch.tools \subseteq batch.results

\* Until there is a snapshot there is no reply a resume could find.
StoreSound ==
  /\ Sound(snap.msgs, turn)
  /\ ~snap.exists => /\ \A i \in 1..Len(log) : ~Speaks(log, i)
                     /\ pc \in {"idle", "begun", "down"}

ConvSound ==
  /\ Past(conv, turn)
  /\ Closed => Sound(conv, turn)
  /\ pc \in Replying => \E a \in 1..Len(conv) : LastReply(a)
  /\ pc = "idle" => Left

AnswerInv == AllScheduled /\ StoreSound /\ ConvSound

LEMMA CallsConcat ==
  ASSUME NEW s \in Seq(SUBSET Nat), NEW t \in Seq(SUBSET Nat)
  PROVE  s \o t \in Seq(SUBSET Nat) /\ Calls(s) \cup Calls(t) \subseteq Calls(s \o t)
<1>1. /\ Len(s) \in Nat /\ Len(t) \in Nat /\ Len(s \o t) = Len(s) + Len(t)
      /\ s \o t \in Seq(SUBSET Nat)
      /\ \A i \in 1..(Len(s) + Len(t)) :
           (s \o t)[i] = IF i <= Len(s) THEN s[i] ELSE t[i - Len(s)]
  BY ConcatProperties, LenProperties
<1>2. \A i \in 1..Len(s) : i \in 1..Len(s \o t) /\ (s \o t)[i] = s[i]
  BY <1>1
<1>3. \A i \in 1..Len(t) : i + Len(s) \in 1..Len(s \o t) /\ (s \o t)[i + Len(s)] = t[i]
  <2>1. \A i \in 1..Len(t) : /\ i + Len(s) \in 1..(Len(s) + Len(t))
                             /\ ~(i + Len(s) <= Len(s)) /\ (i + Len(s)) - Len(s) = i
    BY <1>1
  <2> QED
    BY <1>1, <2>1
<1>4. Calls(s) \subseteq Calls(s \o t)
  BY <1>2 DEF Calls
<1>5. Calls(t) \subseteq Calls(s \o t)
  BY <1>3 DEF Calls
<1> QED
  BY <1>1, <1>4, <1>5

LEMMA SinglyCalls ==
  ASSUME NEW K \in SUBSET Nat, IsFiniteSet(K)
  PROVE  K \subseteq Calls(Singly(K))
<1> DEFINE n == Cardinality(K)
<1>1. n \in Nat /\ Singly(K) \in Seq(SUBSET Nat)
  BY InOrderType, SinglyType
<1>2. \A k \in K : \E i \in 1..n : InOrder(K)[i] = k
  BY InOrderAll
<1>3. Len(Singly(K)) = n /\ \A i \in 1..n : Singly(K)[i] = {InOrder(K)[i]}
  BY <1>1, LenProperties DEF Singly
<1> QED
  <2> HIDE DEF n
  <2> QED
    BY <1>1, <1>2, <1>3 DEF Calls

LEMMA StartBatchSchedules ==
  ASSUME BatchOK, NEW after \in {"next", "complete", "budget"}, StartBatch(after)
  PROVE  /\ DOMAIN batch.tools \subseteq batch'.results \cup Calls(batch'.todo)
         /\ batch'.tools = batch.tools /\ batch'.done = batch.done
<1> DEFINE Of(kinds) == {k \in Remaining : batch.tools[k] \in kinds}
           safe      == Of({"safe"})
           serial    == Of({"serial", "complete"})
           ask       == Of({"ask"})
           deny      == Of({"deny"})
           parallel  == IF safe = {} THEN <<>> ELSE <<safe>>
           todo      == parallel \o Singly(serial) \o Singly(ask)
<1>1. /\ batch.tools \in Seq(ToolKinds)
      /\ \A k \in DOMAIN batch.tools : batch.tools[k] \in ToolKinds
  <2>1. batch.tools \in Seq(ToolKinds)
    BY DEF BatchOK, Batches
  <2> QED
    BY <2>1, ElementOfSeq, LenProperties
<1>2. Remaining \in SUBSET Nat /\ IsFiniteSet(Remaining)
  <2>1. DOMAIN batch.tools = 1..Len(batch.tools) /\ Len(batch.tools) \in Nat
    BY <1>1, LenProperties
  <2>2. IsFiniteSet(1..Len(batch.tools))
    BY <2>1, FS_Interval
  <2> QED
    BY <2>1, <2>2, FS_Subset DEF Remaining
<1>3. \A kinds : Of(kinds) \in SUBSET Nat /\ IsFiniteSet(Of(kinds))
  BY <1>2, FS_Subset
<1>4. Remaining \subseteq safe \cup serial \cup ask \cup deny
  BY <1>1 DEF Remaining, ToolKinds
<1>5. parallel \in Seq(SUBSET Nat) /\ safe \subseteq Calls(parallel)
  <2>1. safe \in SUBSET Nat
    BY <1>3
  <2> HIDE DEF safe
  <2>2. <<>> \in Seq(SUBSET Nat) /\ <<safe>> \in Seq(SUBSET Nat)
    BY <2>1
  <2>3. safe \subseteq Calls(<<safe>>)
    <3>1. Len(<<safe>>) = 1 /\ <<safe>>[1] = safe
      OBVIOUS
    <3> QED
      BY <3>1 DEF Calls
  <2> QED
    BY <2>2, <2>3
<1>6. /\ Singly(serial) \in Seq(SUBSET Nat) /\ serial \subseteq Calls(Singly(serial))
      /\ Singly(ask) \in Seq(SUBSET Nat) /\ ask \subseteq Calls(Singly(ask))
  <2> HIDE DEF Of
  <2> QED
    BY <1>3, SinglyType, SinglyCalls
<1>7. safe \cup serial \cup ask \subseteq Calls(todo)
  <2> HIDE DEF safe, serial, ask, parallel
  <2>1. /\ parallel \o Singly(serial) \in Seq(SUBSET Nat)
        /\ safe \cup serial \subseteq Calls(parallel \o Singly(serial))
    BY <1>5, <1>6, CallsConcat
  <2>2. Calls(parallel \o Singly(serial)) \cup Calls(Singly(ask)) \subseteq Calls(todo)
    BY <1>6, <2>1, CallsConcat
  <2> QED
    BY <1>6, <2>1, <2>2
<1>8. batch' = [batch EXCEPT !.results = @ \cup deny, !.todo = todo, !.after = after]
  BY DEF StartBatch
<1>9. /\ batch'.results = batch.results \cup deny /\ batch'.todo = todo
      /\ batch'.tools = batch.tools /\ batch'.done = batch.done
  <2> HIDE DEF todo, deny
  <2> QED
    BY <1>8 DEF BatchOK, Batches
<1> QED
  <2> HIDE DEF todo, deny, safe, serial, ask
  <2> QED
    BY <1>4, <1>7, <1>9 DEF Remaining

LEMMA TailCalls ==
  ASSUME NEW s \in Seq(SUBSET Nat), s # <<>>
  PROVE  Calls(s) \subseteq Head(s) \cup Calls(Tail(s))
<1>1. /\ Len(s) \in Nat /\ Len(s) >= 1 /\ Head(s) = s[1]
      /\ Tail(s) \in Seq(SUBSET Nat) /\ Len(Tail(s)) = Len(s) - 1
      /\ \A i \in 1..Len(Tail(s)) : Tail(s)[i] = s[i + 1]
  OBVIOUS
<1>2. ASSUME NEW i \in 1..Len(s)
      PROVE  s[i] \subseteq Head(s) \cup Calls(Tail(s))
  <2>1. CASE i = 1
    BY <1>1, <2>1
  <2>2. CASE i # 1
    <3>1. i - 1 \in 1..Len(Tail(s)) /\ (i - 1) + 1 = i
      BY <1>1, <2>2
    <3>2. Tail(s)[i - 1] = s[i]
      BY <1>1, <3>1
    <3> QED
      BY <3>1, <3>2 DEF Calls
  <2> QED
    BY <2>1, <2>2
<1> QED
  BY <1>2 DEF Calls

\* The batch only moves on: what is scheduled stays scheduled.
LEMMA ScheduleStep ==
  ASSUME PlaceOK, BatchOK, AllScheduled, [Next]_vars
  PROVE  AllScheduled'
<1> USE DEF control
<1>1. CASE EndsTurn \/ SettleAndGoOn \/ EnterTurn \/ PrepareCall \/ CallStreams \/ RecoverTooLong
           \/ RecoverMaxTokens \/ FallBack \/ StartTurn \/ Crash \/ Resume \/ RunStopHooks
  BY <1>1 DEF EndsTurn, EndTurn, GoTo, EnterTurnFails, SkillsFail, OutOfTurns,
     SeeCancelled, CompactionFails, TooLongFails, MaxTokensFails, CallFails, Complete,
     SettleCancelled, SettleAndStop, Panic, SettleAndGoOn, EnterTurn, PrepareCall,
     CallStreams, RecoverTooLong, RecoverMaxTokens, Escalate, Continue, FallBack,
     StartTurn, Crash, Resume, RunStopHooks, AllScheduled
<1>2. CASE Receive
  BY <1>2 DEF Receive, StreamFails, RecoverTruncated, CommitReply, Escalate, Continue,
     GoTo, EndTurn, AllScheduled
<1>3. CASE StopForBudget \/ RunTools
  <2>1. \/ EndTurn("no_progress")
        \/ \E after \in {"next", "complete", "budget"} : StartBatch(after)
    BY <1>3 DEF StopForBudget, RunTools
  <2>2. CASE \E after \in {"next", "complete", "budget"} : StartBatch(after)
    <3>1. DOMAIN batch.tools \subseteq batch'.results \cup Calls(batch'.todo)
          /\ batch'.tools = batch.tools
      BY <2>2, StartBatchSchedules
    <3>2. pc' = "exec"
      BY <2>2 DEF StartBatch, GoTo
    <3> QED
      BY <3>1, <3>2 DEF AllScheduled, Calls
  <2> QED
    BY <2>1, <2>2 DEF EndTurn, AllScheduled
<1>4. CASE RunGroup
  <2>1. batch.todo \in Seq(SUBSET Nat) /\ batch.todo # <<>> /\ pc = "exec" /\ pc' = pc
    BY <1>4 DEF RunGroup, BatchOK, Batches
  <2>2. /\ batch'.results = batch.results \cup Head(batch.todo)
        /\ batch'.todo = Tail(batch.todo) /\ batch'.tools = batch.tools
    BY <1>4 DEF RunGroup, BatchOK, Batches
  <2>3. Calls(batch.todo) \subseteq Head(batch.todo) \cup Calls(Tail(batch.todo))
    BY <2>1, TailCalls
  <2> QED
    BY <2>1, <2>2, <2>3 DEF AllScheduled, Calls
<1>5. CASE StopRunning
  <2>1. /\ pc = "exec" /\ pc' = "commit" /\ UNCHANGED <<batch, cancelled>>
        /\ (batch.todo = <<>> \/ cancelled)
    BY <1>5 DEF StopRunning, GoTo
  <2>2. Calls(<<>>) = {}
    BY DEF Calls
  <2> QED
    BY <2>1, <2>2 DEF AllScheduled
<1>6. CASE CommitResult
  BY <1>6 DEF CommitResult, BatchOK, Batches, AllScheduled
<1>7. CASE Cancel \/ UNCHANGED vars
  BY <1>7 DEF Cancel, vars, AllScheduled, Calls
<1> QED
  BY <1>1, <1>2, <1>3, <1>4, <1>5, <1>6, <1>7 DEF Next, LoopStep, EndsTurn

\* The reply and its answers stay in place while a batch is under way.
LEMMA ReplyKept ==
  ASSUME PlaceOK, MsgsOK, NEW a, LastReply(a), UNCHANGED <<turn, calls>>,
         batch'.tools = batch.tools, NEW m \in Msgs, m.kind # "assistant",
         conv' = conv \/ conv' = Append(conv, m),
         \A k \in batch'.done : \/ k \in batch.done
                                \/ conv' = Append(conv, m) /\ m = Result(ToolId(k))
  PROVE  LastReply(a)'
<1>1. /\ Len(conv) \in Nat /\ Len(Append(conv, m)) = Len(conv) + 1
      /\ \A i \in 1..Len(conv) : Append(conv, m)[i] = conv[i]
      /\ Append(conv, m)[Len(conv) + 1] = m
  BY AppendProperties, LenProperties DEF MsgsOK
<1>2. /\ Len(conv') \in {Len(conv), Len(conv) + 1}
      /\ \A i \in 1..Len(conv) : conv'[i] = conv[i]
      /\ \A i \in 1..Len(conv') : i \in 1..Len(conv) \/ conv'[i] = m
  BY <1>1
<1>3. a \in 1..Len(conv) /\ a \in Nat
  BY <1>1 DEF LastReply
<1>4. \A j \in 1..Len(conv) : j \in 1..Len(conv')
  BY <1>1, <1>2
<1>5. /\ a \in 1..Len(conv') /\ conv'[a] = conv[a]
      /\ conv'[a].id = <<turn, calls>> /\ conv'[a].uses = DOMAIN batch'.tools
  BY <1>2, <1>3, <1>4 DEF LastReply, ReplyId
<1>6. \A i \in 1..Len(conv') : i > a => conv'[i].kind # "assistant"
  BY <1>2 DEF LastReply, Speaks
<1>7. ASSUME NEW i \in 1..Len(conv'), i < a, conv'[i].kind = "assistant",
             conv'[i].id[1] = turn, NEW u \in conv'[i].uses
      PROVE  \E j \in 1..Len(conv') : i < j /\ Answers(conv', i, u, j)
  <2>1. i \in 1..Len(conv) /\ conv'[i] = conv[i]
    BY <1>1, <1>2, <1>3, <1>7
  <2>2. AnsweredAt(conv, i)
    BY <1>7, <2>1 DEF LastReply, Speaks
  <2>3. PICK j \in 1..Len(conv) : i < j /\ Answers(conv, i, u, j)
    BY <1>7, <2>1, <2>2 DEF AnsweredAt
  <2> QED
    BY <1>2, <1>4, <2>1, <2>3 DEF Answers
<1>8. ASSUME NEW k \in batch'.done
      PROVE  \E j \in 1..Len(conv') : a < j /\ conv'[j] = Result(ToolId(k))
  <2>1. CASE k \in batch.done
    BY <1>2, <1>4, <2>1 DEF LastReply
  <2>2. CASE conv' = Append(conv, m) /\ m = Result(ToolId(k))
    <3>1. Len(conv) + 1 \in 1..Len(conv') /\ a < Len(conv) + 1
      BY <1>1, <1>3, <2>2
    <3> QED
      BY <1>1, <2>2, <3>1
  <2> QED
    BY <1>8, <2>1, <2>2
<1>9. \A k : (Result(ToolId(k)))' = Result(ToolId(k))
  BY DEF Result, ToolId, Message
<1> QED
  BY <1>3, <1>5, <1>6, <1>7, <1>8, <1>9
  DEF LastReply, Speaks, ReplyId, AnsweredAt, Answers

\* With all its calls committed the reply is as sound as the ones before it.
LEMMA ReplySettled ==
  ASSUME PlaceOK, MsgsOK, Past(conv, turn), NEW a, LastReply(a),
         DOMAIN batch.tools \subseteq batch.done
  PROVE  Sound(conv, turn)
<1>1. a \in 1..Len(conv) /\ Len(conv) \in Nat
  BY LenProperties DEF LastReply, MsgsOK
<1>2. ASSUME NEW k \in conv[a].uses
      PROVE  \E j \in 1..Len(conv) : a < j /\ Answers(conv, a, k, j)
  <2>1. k \in batch.done
    BY DEF LastReply
  <2>2. PICK j \in 1..Len(conv) : a < j /\ conv[j] = Result(ToolId(k))
    BY <2>1 DEF LastReply
  <2>3. conv[j].kind = "result" /\ conv[j].id = <<conv[a].id[1], conv[a].id[2], k>>
    BY <2>2 DEF Result, ToolId, Message, LastReply, ReplyId
  <2> QED
    BY <2>2, <2>3 DEF Answers
<1>3. AnsweredAt(conv, a)
  BY <1>2 DEF AnsweredAt
<1>4. \A i \in 1..Len(conv) : i < a \/ i = a \/ i > a
  BY <1>1
<1> QED
  BY <1>3, <1>4 DEF Sound, LastReply

\* Sealing answers the calls of the reply that have no result.
LEMMA ReplySealed ==
  ASSUME PlaceOK, MsgsOK, Past(conv, turn), NEW a, LastReply(a)
  PROVE  Sound(Sealed(conv), turn)
<1>1. /\ a \in 1..Len(conv) /\ Len(conv) \in Nat /\ conv \in Seq(Msgs) /\ turn \in Nat
      /\ Speaks(conv, a) /\ \A j \in 1..Len(conv) : j > a => ~Speaks(conv, j)
  BY LenProperties DEF LastReply, MsgsOK, PlaceOK
<1>2. LastAssistant(conv) = a /\ a # 0
  BY <1>1, LastAssistantIs
<1>3. Sealed(conv) \in Seq(Msgs) /\ Grown(Sealed(conv), conv, turn)
  BY <1>1, SealedType, GrownSealed
<1>4. /\ AnsweredAt(Sealed(conv), a)
      /\ \A i \in 1..Len(Sealed(conv)) : i > Len(conv) => Sealed(conv)[i].kind = "result"
  BY <1>1, <1>2, SealedAnswers
<1>5. Past(Sealed(conv), turn)
  BY <1>1, <1>3, PastGrown
<1>6. ASSUME NEW i \in 1..Len(Sealed(conv)), Speaks(Sealed(conv), i),
             Sealed(conv)[i].id[1] = turn
      PROVE  AnsweredAt(Sealed(conv), i)
  <2>1. i \in 1..Len(conv) /\ Speaks(conv, i) /\ conv[i].id[1] = turn
    <3>1. i \in 1..Len(conv)
      BY <1>1, <1>4, <1>6 DEF Speaks
    <3> QED
      BY <1>3, <1>6, <3>1 DEF Grown, Speaks
  <2>2. CASE i = a
    BY <1>4, <2>2
  <2>3. CASE i < a
    BY <1>1, <1>3, <2>1, <2>3, AnsweredGrown DEF LastReply
  <2>4. ~(i > a)
    BY <1>1, <2>1
  <2> QED
    BY <1>1, <2>1, <2>2, <2>3, <2>4
<1> QED
  BY <1>5, <1>6 DEF Sound

\* A new reply, after everything before it was closed.
LEMMA ReplyOpened ==
  ASSUME PlaceOK, MsgsOK, Sound(conv, turn), NEW n \in Nat, NEW text \in BOOLEAN,
         conv' = Append(conv, Assistant(ReplyId, n, text)),
         UNCHANGED <<turn, calls>>, batch'.done = {}, DOMAIN batch'.tools = 1..n
  PROVE  Past(conv', turn) /\ \E a \in 1..Len(conv') : LastReply(a)'
<1> DEFINE m == Assistant(ReplyId, n, text)
<1>0. PICK a \in Nat : a = Len(conv) + 1
  BY LenProperties DEF MsgsOK
<1>1. /\ m \in Msgs /\ m.kind = "assistant" /\ m.id = <<turn, calls>> /\ m.uses = 1..n
      /\ turn \in Nat
  BY AppendedTypes DEF Assistant, Message, ReplyId, PlaceOK
<1>2. conv' = Append(conv, m)
  OBVIOUS
<1> HIDE DEF m
<1>3. /\ Len(conv) \in Nat /\ Len(conv') = Len(conv) + 1
      /\ \A i \in 1..Len(conv) : conv'[i] = conv[i]
      /\ conv'[a] = m
  BY <1>0, <1>1, <1>2, AppendProperties, LenProperties DEF MsgsOK
<1>4. \A i \in 1..Len(conv') : i \in 1..Len(conv) \/ i = a
  BY <1>0, <1>3
<1>5. Past(conv', turn)
  <2>1. ASSUME NEW i \in 1..Len(conv'), Speaks(conv', i)
        PROVE  conv'[i].id[1] <= turn
    <3>1. CASE i \in 1..Len(conv)
      BY <1>3, <2>1, <3>1 DEF Sound, Past, Speaks
    <3>2. CASE i = a
      BY <1>1, <1>3, <3>2
    <3> QED
      BY <1>4, <3>1, <3>2
  <2> QED
    BY <2>1 DEF Past
<1>6. a \in 1..Len(conv') /\ \A i \in 1..Len(conv') : ~(i > a)
  BY <1>0, <1>3
<1>7. ASSUME NEW i \in 1..Len(conv'), i < a, conv'[i].kind = "assistant",
             conv'[i].id[1] = turn, NEW u \in conv'[i].uses
      PROVE  \E j \in 1..Len(conv') : i < j /\ Answers(conv', i, u, j)
  <2>1. i \in 1..Len(conv) /\ conv'[i] = conv[i]
    BY <1>0, <1>3, <1>4, <1>7
  <2>2. PICK j \in 1..Len(conv) : i < j /\ Answers(conv, i, u, j)
    BY <1>7, <2>1 DEF Sound, Speaks, AnsweredAt
  <2>3. j \in 1..Len(conv') /\ conv'[j] = conv[j]
    BY <1>3
  <2> QED
    BY <2>1, <2>2, <2>3 DEF Answers
<1>8. LastReply(a)'
  <2>1. \A i \in 1..Len(conv') : conv'[i].kind = "assistant" /\ conv'[i].id[1] = turn /\ i < a
          => \A u \in conv'[i].uses :
               \E j \in 1..Len(conv') : i < j /\ Answers(conv', i, u, j)
    BY <1>7
  <2> QED
    BY <1>1, <1>3, <1>6, <2>1 DEF LastReply, Speaks, ReplyId, AnsweredAt, Answers
<1> QED
  BY <1>5, <1>6, <1>8

\* What a step does to the store: it saves a conversation with no call open, or
\* leaves the snapshot.
Stored ==
  \/ \E c \in Seq(Msgs) : SaveSnapshot(c) /\ Sound(c, turn)
  \/ UNCHANGED snap /\ (snap.exists \/ (UNCHANGED log /\ pc' \in {"idle", "begun", "down"}))

LEMMA SavedSound ==
  ASSUME Sound(snap'.msgs, turn')
  PROVE  Sound(snap.msgs, turn)'
BY DEF Sound, Past, Speaks, AnsweredAt, Answers

LEMMA StoredSound == StoreSound /\ turn' = turn /\ Stored => StoreSound'
<1> SUFFICES ASSUME StoreSound, turn' = turn, Stored PROVE StoreSound'
  OBVIOUS
<1>1. CASE \E c \in Seq(Msgs) : SaveSnapshot(c) /\ Sound(c, turn)
  <2>1. PICK c \in Seq(Msgs) : SaveSnapshot(c) /\ Sound(c, turn)
    BY <1>1
  <2>2. snap'.msgs = c /\ snap'.exists
    BY <2>1 DEF SaveSnapshot, Saved
  <2>3. Sound(snap.msgs, turn)'
    BY <2>1, <2>2, SavedSound
  <2> QED
    BY <2>2, <2>3 DEF StoreSound
<1>2. CASE UNCHANGED snap /\ (snap.exists \/ (UNCHANGED log /\ pc' \in {"idle", "begun", "down"}))
  <2>1. Sound(snap.msgs, turn)'
    BY <1>2, SavedSound DEF StoreSound
  <2> QED
    BY <1>2, <2>1 DEF StoreSound, Speaks
<1> QED
  BY <1>1, <1>2 DEF Stored

\* A step that leaves no call open, and a step that goes on with the reply.
LEMMA ClosedSound ==
  ASSUME turn' = turn, Sound(conv', turn), pc' \notin Replying
  PROVE  ConvSound'
BY DEF ConvSound, Left, Sound, Past, Speaks, AnsweredAt, Answers

LEMMA OpenSound ==
  ASSUME PlaceOK, MsgsOK, MsgsOK', ConvSound, pc \in Replying, pc' \in Replying,
         UNCHANGED <<turn, calls>>, batch'.tools = batch.tools,
         NEW m \in Msgs, m.kind # "assistant", conv' = conv \/ conv' = Append(conv, m),
         \A k \in batch'.done : \/ k \in batch.done
                                \/ conv' = Append(conv, m) /\ m = Result(ToolId(k))
  PROVE  ConvSound'
<1>1. PICK a \in 1..Len(conv) : LastReply(a)
  BY DEF ConvSound
<1>2. LastReply(a)'
  BY <1>1, ReplyKept
<1>3. Past(conv', turn)
  <2>1. turn \in Nat /\ conv \in Seq(Msgs) /\ conv' \in Seq(Msgs) /\ Past(conv, turn)
    BY BoundsAssumption DEF PlaceOK, MsgsOK, ConvSound
  <2>2. Grown(conv', conv, turn)
    BY <2>1, GrownSame, GrownAppend
  <2> QED
    BY <2>1, <2>2, PastGrown
<1>4. ~Closed' /\ pc' # "idle"
  BY DEF Closed, Replying
<1>5. a \in 1..Len(conv')
  BY <1>2 DEF LastReply
<1> QED
  BY <1>2, <1>3, <1>4, <1>5 DEF ConvSound, Past, Speaks

\* A turn that a stop hook or no-progress ends leaves its last calls open.
LEMMA LeftSound ==
  ASSUME PlaceOK, MsgsOK, MsgsOK', NEW a, LastReply(a), UNCHANGED <<turn, calls>>,
         Grown(conv', conv, turn), Past(conv', turn),
         \A i \in 1..Len(conv') : i \in 1..Len(conv) \/ ~Speaks(conv', i),
         pc' = "idle", exit' \in {"no_progress", "stop_hook"}
  PROVE  ConvSound'
<1>1. /\ conv \in Seq(Msgs) /\ conv' \in Seq(Msgs) /\ turn \in Nat /\ Len(conv) \in Nat
      /\ a \in 1..Len(conv)
  BY BoundsAssumption, LenProperties DEF PlaceOK, MsgsOK, LastReply
<1>2. ASSUME NEW i \in 1..Len(conv'), Speaks(conv', i), conv'[i].id[1] = turn,
             conv'[i].id # ReplyId
      PROVE  AnsweredAt(conv', i)
  <2>1. i \in 1..Len(conv)
    BY <1>2
  <2>2. conv'[i] = conv[i] /\ Speaks(conv, i)
    BY <1>2, <2>1 DEF Grown, Speaks
  <2>3. ~(i > a) /\ i # a
    BY <1>2, <2>1, <2>2 DEF LastReply
  <2>4. AnsweredAt(conv, i)
    BY <1>1, <1>2, <2>1, <2>2, <2>3 DEF LastReply
  <2> QED
    BY <1>1, <2>1, <2>4, AnsweredGrown
<1>3. Left'
  BY <1>2 DEF Left, ReplyId, Speaks, AnsweredAt, Answers
<1> QED
  BY <1>3 DEF ConvSound, Past, Speaks, Closed, Replying

LEMMA NoteAdded ==
  ASSUME PlaceOK, NEW c \in Seq(Msgs)
  PROVE  Append(c, Note) \in Seq(Msgs) /\ Grown(Append(c, Note), c, turn)
<1>1. turn \in Nat /\ Note \in Msgs /\ Note.kind # "assistant"
  BY BoundsAssumption, AppendedTypes DEF PlaceOK, Note, Message
<1> QED
  BY <1>1, GrownAppend, AppendTypes

LEMMA SoundStart ==
  ASSUME PlaceOK, MsgsOK, MsgsOK', StoreSound, ConvSound, StartTurn
  PROVE  StoreSound' /\ ConvSound'
<1> DEFINE m == User(turn + 1)
<1>1. /\ turn \in Nat /\ turn + 1 \in Nat /\ m \in Msgs /\ m.kind # "assistant"
      /\ conv \in Seq(Msgs) /\ log \in Seq(Msgs) /\ snap.msgs \in Seq(Msgs)
  BY BoundsAssumption, AppendedTypes DEF PlaceOK, MsgsOK, User, Message
<1>2. /\ conv' = Append(conv, m) /\ log' = Append(log, m) /\ snap' = snap
      /\ turn' = turn + 1 /\ pc' = "begun"
  BY DEF StartTurn, GoTo
<1> HIDE DEF m
<1>3. ASSUME NEW c \in Seq(Msgs), Past(c, turn)
      PROVE  Sound(c, turn + 1)
  <2>1. \A i \in 1..Len(c) : Speaks(c, i) => c[i] \in Msgs /\ c[i].id[1] \in Nat
    <3>1. \A i \in 1..Len(c) : c[i] \in Msgs
      BY ElementOfSeq
    <3> QED
      BY <3>1 DEF Speaks, Msgs
  <2>2. \A i \in 1..Len(c) : Speaks(c, i) => c[i].id[1] <= turn /\ c[i].id[1] # turn + 1
    BY <1>1, <2>1, <1>3 DEF Past
  <2>3. \A i \in 1..Len(c) : Speaks(c, i) => c[i].id[1] <= turn + 1
    BY <1>1, <2>1, <2>2
  <2> QED
    BY <2>2, <2>3 DEF Sound, Past
<1>4. Sound(snap.msgs, turn + 1)
  BY <1>1, <1>3 DEF StoreSound, Sound
<1>5. Sound(conv', turn + 1)
  <2>1. Sound(conv, turn + 1)
    BY <1>1, <1>3 DEF ConvSound
  <2>2. Grown(Append(conv, m), conv, turn + 1) /\ Append(conv, m) \in Seq(Msgs)
    BY <1>1, GrownAppend, AppendTypes
  <2> QED
    BY <1>1, <1>2, <2>1, <2>2, SoundGrown
<1>6. ~snap.exists => \A i \in 1..Len(log') : log'[i].kind # "assistant"
  <2>1. /\ Len(log) \in Nat /\ Len(log') = Len(log) + 1 /\ log'[Len(log) + 1] = m
        /\ \A i \in 1..Len(log) : log'[i] = log[i]
    BY <1>1, <1>2, AppendProperties, LenProperties
  <2>2. \A i \in 1..Len(log') : i \in 1..Len(log) \/ i = Len(log) + 1
    BY <2>1
  <2> QED
    BY <1>1, <2>1, <2>2 DEF StoreSound, Speaks
<1>7. StoreSound'
  <2>1. Sound(snap.msgs, turn)'
    BY <1>2, <1>4, SavedSound
  <2> QED
    BY <1>2, <1>6, <2>1 DEF StoreSound, Speaks
<1>8. ConvSound'
  BY <1>2, <1>5 DEF ConvSound, Sound, Past, Speaks, AnsweredAt, Answers, Replying
<1> QED
  BY <1>7, <1>8

\* The recovery from a cut-off reply.
LEMMA SoundContinue ==
  ASSUME PlaceOK, MsgsOK, MsgsOK', StoreSound, ConvSound, pc \in {"call", "recv"},
         NEW partial \in Seq(Msgs), Escalate \/ Continue(partial),
         Grown(conv \o partial, conv, turn)
  PROVE  StoreSound' /\ ConvSound'
<1>1. /\ turn \in Nat /\ conv \in Seq(Msgs) /\ conv \o partial \in Seq(Msgs)
      /\ Sound(conv, turn) /\ snap.exists
  BY BoundsAssumption, ConcatProperties DEF PlaceOK, MsgsOK, ConvSound, Closed, StoreSound
<1>2. turn' = turn /\ pc' \notin Replying
  BY DEF Escalate, Continue, GoTo, control, Replying
<1>3. Sound(Append(conv \o partial, Note), turn) /\ Append(conv \o partial, Note) \in Seq(Msgs)
  <2>1. Sound(conv \o partial, turn)
    BY <1>1, SoundGrown
  <2> QED
    BY <1>1, <2>1, NoteAdded, SoundGrown
<1>4. CASE Escalate
  <2>1. UNCHANGED <<conv, snap>>
    BY <1>4 DEF Escalate, store
  <2>2. Stored
    BY <1>1, <2>1 DEF Stored
  <2>3. Sound(conv', turn)
    BY <1>1, <2>1
  <2> QED
    BY <1>2, <2>2, <2>3, StoredSound, ClosedSound
<1>5. CASE Continue(partial)
  <2>1. Stored /\ Sound(conv', turn)
    BY <1>3, <1>5 DEF Continue, Stored
  <2> QED
    BY <1>2, <2>1, StoredSound, ClosedSound
<1> QED
  BY <1>4, <1>5

\* The steps of a conversation with no call open.
LEMMA ClosedSteps ==
  ASSUME PlaceOK, BatchOK, MsgsOK, MsgsOK', StoreSound, ConvSound, Closed,
         \/ EnterTurn \/ EnterTurnFails \/ SkillsFail \/ OutOfTurns \/ SeeCancelled
         \/ CompactionFails \/ PrepareCall \/ CallStreams \/ RecoverTooLong \/ TooLongFails
         \/ RecoverMaxTokens \/ MaxTokensFails \/ FallBack \/ CallFails
  PROVE  StoreSound' /\ ConvSound'
<1>0. /\ turn \in Nat /\ conv \in Seq(Msgs) /\ conv' \in Seq(Msgs) /\ Sound(conv, turn)
      /\ pc \in {"top", "call", "recv"} => snap.exists
  BY BoundsAssumption DEF PlaceOK, MsgsOK, ConvSound, StoreSound
<1>1. SUFFICES ASSUME ~RecoverMaxTokens
               PROVE  turn' = turn /\ pc' \notin Replying /\ Stored /\ Sound(conv', turn)
  <2>1. CASE RecoverMaxTokens
    <3>1. pc \in {"call", "recv"} /\ (Escalate \/ Continue(<<>>))
      BY <2>1 DEF RecoverMaxTokens
    <3>2. <<>> \in Seq(Msgs) /\ conv \o <<>> = conv
      BY <1>0
    <3> QED
      BY <1>0, <3>1, <3>2, GrownSame, SoundContinue
  <2> QED
    BY <2>1, <1>1, StoredSound, ClosedSound
<1>2. CASE \/ EnterTurnFails \/ SkillsFail \/ OutOfTurns \/ SeeCancelled
           \/ CompactionFails \/ TooLongFails \/ MaxTokensFails \/ CallFails
  <2>1. UNCHANGED <<conv, snap, log, turn>> /\ pc' = "idle"
    BY <1>2 DEF EnterTurnFails, SkillsFail, OutOfTurns, SeeCancelled, CompactionFails,
       TooLongFails, MaxTokensFails, CallFails, EndTurn, control, store
  <2>2. Stored
    BY <2>1 DEF Stored
  <2> QED
    BY <1>0, <2>1, <2>2 DEF Replying
<1>3. CASE EnterTurn
  <2>1. conv' \in Compacted(conv) /\ SaveSnapshot(conv') /\ turn' = turn /\ pc' = "top"
    BY <1>3 DEF EnterTurn, GoTo, control
  <2>2. Sound(conv', turn)
    BY <1>0, <2>1, SoundCompacted
  <2> QED
    BY <1>0, <2>1, <2>2 DEF Stored, Replying
<1>4. CASE PrepareCall
  <2>1. PICK c \in Compacted(conv) :
          \/ conv' = c /\ UNCHANGED snap
          \/ conv' \in Compacted(c) /\ SaveSnapshot(conv')
    BY <1>4 DEF PrepareCall
  <2>2. turn' = turn /\ pc' = "call" /\ snap.exists
    BY <1>0, <1>4 DEF PrepareCall, GoTo
  <2>3. Sound(c, turn) /\ c \in Seq(Msgs)
    BY <1>0, SoundCompacted, CompactedType
  <2>4. Sound(conv', turn)
    BY <1>0, <2>1, <2>3, SoundCompacted
  <2> QED
    BY <1>0, <2>1, <2>2, <2>4 DEF Stored, Replying
<1>5. CASE CallStreams
  <2>1. UNCHANGED <<conv, snap, turn>> /\ pc = "call" /\ pc' = "recv"
    BY <1>5 DEF CallStreams, GoTo, control, store
  <2> QED
    BY <1>0, <2>1 DEF Stored, Replying
<1>6. CASE RecoverTooLong
  <2>1. /\ SaveSnapshot(conv') /\ turn' = turn /\ pc' = "top"
        /\ \/ Shrinkable(conv) /\ conv' \in Compacted(conv)
           \/ Drainable(conv) /\ conv' = Drained(conv)
    BY <1>6 DEF RecoverTooLong, Compacted, GoTo, control
  <2>2. Sound(conv', turn)
    BY <1>0, <2>1, SoundCompacted, SoundDrained
  <2> QED
    BY <1>0, <2>1, <2>2 DEF Stored, Replying
<1>7. CASE FallBack
  <2>1. /\ UNCHANGED <<snap, turn>> /\ pc = "call" /\ pc' \in {"recv", "idle"}
        /\ conv' = Tombstoned(conv)
    BY <1>7 DEF FallBack, GoTo, EndTurn, control, store
  <2>2. Sound(conv', turn)
    BY <1>0, <2>1, SoundTombstoned
  <2> QED
    BY <1>0, <2>1, <2>2 DEF Stored, Replying
<1> QED
  BY <1>1, <1>2, <1>3, <1>4, <1>5, <1>6, <1>7

LEMMA ReceiveSound ==
  ASSUME PlaceOK, BatchOK, MsgsOK, MsgsOK', StoreSound, ConvSound, Receive
  PROVE  StoreSound' /\ ConvSound'
<1>0. /\ turn \in Nat /\ conv \in Seq(Msgs) /\ conv' \in Seq(Msgs) /\ Sound(conv, turn)
      /\ snap.exists /\ pc = "recv"
  BY BoundsAssumption DEF PlaceOK, MsgsOK, ConvSound, StoreSound, Closed, Receive
<1>1. PICK r \in Replies : StreamFails(r) \/ RecoverTruncated(r) \/ CommitReply(r)
  BY DEF Receive
<1>2. CASE StreamFails(r)
  <2>1. UNCHANGED <<snap, turn>> /\ conv' = Sealed(conv) /\ pc' = "idle"
    BY <1>2 DEF StreamFails, EndTurn, control, store
  <2>2. Sound(conv', turn)
    BY <1>0, <2>1, GrownSealed, SoundGrown
  <2>3. Stored
    BY <1>0, <2>1 DEF Stored
  <2> QED
    BY <2>1, <2>2, <2>3, StoredSound, ClosedSound DEF Replying
<1>3. CASE RecoverTruncated(r)
  <2> DEFINE m == Assistant(ReplyId, 0, r.text)
  <2>1. m \in Msgs /\ m.id[1] <= turn /\ m.uses = {}
    <3>1. m \in Msgs
      BY AppendedTypes, StreamedType
    <3>2. m.id = <<turn, calls>> /\ m.uses = 1..0
      BY DEF Assistant, Message, ReplyId
    <3> HIDE DEF m
    <3> QED
      BY <1>0, <3>1, <3>2
  <2>2. Escalate \/ Continue(<<m>>)
    BY <1>3 DEF RecoverTruncated
  <2> HIDE DEF m
  <2>3. <<m>> \in Seq(Msgs) /\ conv \o <<m>> = Append(conv, m)
    BY <1>0, <2>1
  <2>4. Grown(conv \o <<m>>, conv, turn)
    BY <1>0, <2>1, <2>3, GrownAppend
  <2> QED
    BY <1>0, <2>2, <2>3, <2>4, SoundContinue
<1>4. CASE CommitReply(r)
  <2> DEFINE n == Len(r.tools)
             text == (r.text \/ r.tools = <<>>)
  <2>1. n \in Nat /\ text \in BOOLEAN /\ r.tools \in Seq(ToolKinds)
    BY StreamedType
  <2>2. /\ conv' = Append(conv, Assistant(ReplyId, n, text))
        /\ UNCHANGED <<turn, calls, snap>> /\ pc' = "hooks"
    BY <1>4 DEF CommitReply, GoTo, control
  <2>3. batch'.done = {} /\ batch'.tools = r.tools
    BY <1>4 DEF CommitReply, NoBatch
  <2>4. DOMAIN batch'.tools = 1..n
    BY <2>1, <2>3, LenProperties
  <2> HIDE DEF n, text
  <2>5. Past(conv', turn) /\ \E a \in 1..Len(conv') : LastReply(a)'
    BY <1>0, <2>1, <2>2, <2>3, <2>4, ReplyOpened
  <2>6. ConvSound'
    BY <2>2, <2>5 DEF ConvSound, Past, Speaks, Closed
  <2>7. Stored
    BY <1>0, <2>2 DEF Stored
  <2> QED
    BY <2>2, <2>6, <2>7, StoredSound
<1> QED
  BY <1>1, <1>2, <1>3, <1>4

\* The steps of a batch.
LEMMA BatchSound ==
  ASSUME PlaceOK, BatchOK, MsgsOK, MsgsOK', StoreSound, ConvSound,
         RunStopHooks \/ StopForBudget \/ RunTools \/ RunGroup \/ StopRunning \/ CommitResult
  PROVE  StoreSound' /\ ConvSound'
<1> USE DEF control, store
<1>0. pc \in Replying /\ snap.exists
  BY DEF RunStopHooks, StopForBudget, RunTools, RunGroup, StopRunning, CommitResult,
     Replying, StoreSound
<1>1. UNCHANGED <<turn, calls, snap>>
  BY DEF RunStopHooks, StopForBudget, RunTools, RunGroup, StopRunning, CommitResult,
     StartBatch, EndTurn, GoTo
<1>2. StoreSound'
  <2>1. Stored
    BY <1>0, <1>1 DEF Stored
  <2> QED
    BY <1>1, <2>1, StoredSound
<1>3. Note \in Msgs /\ Note.kind # "assistant" /\ turn \in Nat /\ conv \in Seq(Msgs)
  BY BoundsAssumption, AppendedTypes DEF PlaceOK, MsgsOK, Note, Message
<1>4. ASSUME conv' = conv \/ conv' = Append(conv, Note),
             pc' = "idle", exit' \in {"no_progress", "stop_hook"}
      PROVE  ConvSound'
  <2>1. Grown(conv', conv, turn) /\ conv' \in Seq(Msgs) /\ Past(conv, turn)
    BY <1>3, <1>4, GrownSame, NoteAdded DEF ConvSound
  <2>2. Past(conv', turn)
    BY <1>3, <2>1, PastGrown
  <2>3. PICK a \in 1..Len(conv) : LastReply(a)
    BY <1>0 DEF ConvSound
  <2>4. \A i \in 1..Len(conv') : i \in 1..Len(conv) \/ ~Speaks(conv', i)
    <3>1. CASE conv' = conv
      BY <3>1
    <3>2. CASE conv' = Append(conv, Note)
      <4>1. Len(conv') = Len(conv) + 1 /\ Len(conv) \in Nat /\ conv'[Len(conv) + 1] = Note
        BY <1>3, <3>2, AppendProperties, LenProperties
      <4> QED
        BY <1>3, <4>1 DEF Speaks
    <3> QED
      BY <1>4, <3>1, <3>2
  <2> QED
    BY <1>1, <1>4, <2>1, <2>2, <2>3, <2>4, LeftSound
<1>5. ASSUME conv' = conv \/ conv' = Append(conv, Note), pc' \in Replying,
             batch'.tools = batch.tools, batch'.done = batch.done
      PROVE  ConvSound'
  BY <1>0, <1>1, <1>3, <1>5, OpenSound
<1>6. CASE RunStopHooks
  <2>1. conv' = conv \/ conv' = Append(conv, Note)
    BY <1>6 DEF RunStopHooks
  <2>2. \/ pc' = "tools" /\ batch' = batch
        \/ pc' = "idle" /\ exit' = "stop_hook"
    BY <1>6 DEF RunStopHooks, GoTo, EndTurn
  <2> QED
    BY <1>2, <1>4, <1>5, <2>1, <2>2 DEF Replying
<1>7. CASE StopForBudget \/ RunTools
  <2>1. conv' = conv \/ conv' = Append(conv, Note)
    BY <1>7 DEF StopForBudget, RunTools
  <2>2. \/ EndTurn("no_progress")
        \/ \E after \in {"next", "complete", "budget"} : StartBatch(after)
    BY <1>7 DEF StopForBudget, RunTools
  <2>3. CASE \E after \in {"next", "complete", "budget"} : StartBatch(after)
    <3>1. batch'.tools = batch.tools /\ batch'.done = batch.done
      BY <2>3, StartBatchSchedules
    <3>2. pc' \in Replying
      BY <2>3 DEF StartBatch, GoTo, Replying
    <3> QED
      BY <1>2, <1>5, <2>1, <3>1, <3>2
  <2>4. CASE EndTurn("no_progress")
    BY <1>2, <1>4, <2>1, <2>4 DEF EndTurn
  <2> QED
    BY <2>2, <2>3, <2>4
<1>8. CASE RunGroup \/ StopRunning
  <2>1. /\ conv' = conv /\ pc' \in Replying
        /\ batch'.tools = batch.tools /\ batch'.done = batch.done
    BY <1>8 DEF RunGroup, StopRunning, GoTo, Replying, BatchOK, Batches
  <2> QED
    BY <1>2, <1>5, <2>1
<1>9. CASE CommitResult
  <2>1. PICK k \in Uncommitted :
          /\ conv' = Append(conv, Result(ToolId(k)))
          /\ batch' = [batch EXCEPT !.done = @ \cup {k}]
    BY <1>9 DEF CommitResult
  <2>2. k \in Nat
    BY DEF Uncommitted, BatchOK, Batches
  <2>3. Result(ToolId(k)) \in Msgs /\ Result(ToolId(k)).kind # "assistant"
    BY <2>2, AppendedTypes DEF Result, Message
  <2>4. batch'.done = batch.done \cup {k} /\ batch'.tools = batch.tools /\ pc' \in Replying
    BY <1>0, <1>9, <2>1 DEF CommitResult, BatchOK, Batches
  <2>5. \A l \in batch'.done : \/ l \in batch.done
                               \/ /\ conv' = Append(conv, Result(ToolId(k)))
                                  /\ Result(ToolId(k)) = Result(ToolId(l))
    BY <2>1, <2>4
  <2>6. ConvSound'
    BY <1>0, <1>1, <2>1, <2>3, <2>4, <2>5, OpenSound
  <2> QED
    BY <1>2, <2>6
<1> QED
  BY <1>6, <1>7, <1>8, <1>9

\* The steps that close a batch.
LEMMA SettleSound ==
  ASSUME PlaceOK, BatchOK, MsgsOK, MsgsOK', AnswerInv,
         Complete \/ SettleCancelled \/ SettleAndStop \/ SettleAndGoOn
  PROVE  StoreSound' /\ ConvSound'
<1> USE DEF control, store
<1>0. /\ turn \in Nat /\ conv \in Seq(Msgs) /\ conv' \in Seq(Msgs) /\ Past(conv, turn)
      /\ StoreSound /\ ConvSound /\ AllScheduled /\ pc \in Replying
  BY BoundsAssumption DEF PlaceOK, MsgsOK, AnswerInv, ConvSound, Complete,
     SettleCancelled, SettleAndStop, SettleAndGoOn, Replying
<1>1. PICK a \in 1..Len(conv) : LastReply(a)
  BY <1>0 DEF ConvSound
<1>2. turn' = turn /\ pc' \notin Replying
  BY DEF Complete, SettleCancelled, SettleAndStop, SettleAndGoOn, EndTurn, GoTo, Replying
<1>3. SUFFICES Stored /\ Sound(conv', turn)
  BY <1>0, <1>2, StoredSound, ClosedSound
<1>4. CASE Complete
  <2>1. UNCHANGED <<conv, snap, log>> /\ pc' = "idle" /\ DOMAIN batch.tools = {}
    BY <1>4 DEF Complete, EndTurn
  <2>2. Sound(conv, turn)
    BY <1>0, <1>1, <2>1, ReplySettled
  <2> QED
    BY <2>1, <2>2 DEF Stored
<1>5. CASE SettleCancelled
  <2>1. conv' = Sealed(conv) /\ SaveSnapshot(conv')
    BY <1>5 DEF SettleCancelled
  <2>2. Sound(conv', turn)
    BY <1>0, <1>1, <2>1, ReplySealed
  <2> QED
    BY <1>0, <2>1, <2>2 DEF Stored
<1>6. CASE SettleAndStop \/ SettleAndGoOn
  <2>1. /\ pc = "commit" /\ ~cancelled /\ Uncommitted = {} /\ SaveSnapshot(conv)
        /\ conv' = conv \/ conv' = Append(conv, Note)
    BY <1>6 DEF SettleAndStop, SettleAndGoOn
  <2>2. DOMAIN batch.tools \subseteq batch.done
    BY <1>0, <2>1 DEF AllScheduled, Uncommitted
  <2>3. Sound(conv, turn)
    BY <1>0, <1>1, <2>2, ReplySettled
  <2>4. Sound(conv', turn)
    BY <1>0, <2>1, <2>3, NoteAdded, SoundGrown
  <2> QED
    BY <1>0, <2>1, <2>3, <2>4 DEF Stored
<1> QED
  BY <1>4, <1>5, <1>6

\* What runs against the loop.
LEMMA OutsideSound ==
  ASSUME PlaceOK, BatchOK, MsgsOK, MsgsOK', StoreSound, ConvSound,
         Cancel \/ Panic \/ Crash \/ Resume \/ UNCHANGED vars
  PROVE  StoreSound' /\ ConvSound'
<1> USE DEF control, store
<1>0. /\ turn \in Nat /\ conv \in Seq(Msgs) /\ conv' \in Seq(Msgs) /\ Past(conv, turn)
      /\ snap.msgs \in Seq(Msgs) /\ log \in Seq(Msgs)
  BY BoundsAssumption DEF PlaceOK, MsgsOK, ConvSound
<1>1. CASE Cancel \/ UNCHANGED vars
  <2>1. UNCHANGED <<conv, log, snap, pc, exit, turn, calls, batch>>
    BY <1>1 DEF Cancel, vars
  <2>2. StoreSound'
    <3>1. Sound(snap.msgs, turn)'
      BY <2>1, SavedSound DEF StoreSound
    <3> QED
      BY <2>1, <3>1 DEF StoreSound, Speaks
  <2>3. ConvSound'
    <3>1. CASE pc \in Replying
      <4>1. Note \in Msgs /\ Note.kind # "assistant"
        BY AppendedTypes DEF Note, Message
      <4>2. /\ batch'.tools = batch.tools /\ pc' \in Replying
            /\ \A k \in batch'.done : k \in batch.done
            /\ conv' = conv /\ turn' = turn /\ calls' = calls
        BY <2>1, <3>1
      <4> QED
        BY <3>1, <4>1, <4>2, OpenSound
    <3>2. CASE pc \notin Replying
      <4>1. CASE Closed
        BY <2>1, <3>2, <4>1, ClosedSound DEF ConvSound
      <4>2. CASE ~Closed
        <5>1. ~Closed' /\ pc' \notin Replying /\ Past(conv', turn')
          BY <2>1, <3>2, <4>2 DEF ConvSound, Closed, Past, Speaks
        <5>2. pc' = "idle" => Left'
          <6>1. conv' = conv /\ turn' = turn /\ calls' = calls /\ pc' = pc
            BY <2>1
          <6>2. ReplyId' = ReplyId
            BY <6>1 DEF ReplyId
          <6>3. ASSUME Left, NEW i \in 1..Len(conv'), Speaks(conv', i),
                       conv'[i].id[1] = turn', conv'[i].id # ReplyId'
                PROVE  AnsweredAt(conv', i)
            BY <6>1, <6>2, <6>3 DEF Left
          <6>4. Left => Left'
            BY <6>3 DEF Left, Speaks, AnsweredAt, Answers
          <6> QED
            BY <6>1, <6>4 DEF ConvSound
        <5> QED
          BY <5>1, <5>2 DEF ConvSound, Past, Speaks
      <4> QED
        BY <4>1, <4>2
    <3> QED
      BY <3>1, <3>2
  <2> QED
    BY <2>2, <2>3
<1>2. CASE Panic
  <2>1. UNCHANGED <<log, snap, turn>> /\ conv' = Sealed(conv) /\ pc' = "idle"
    BY <1>2 DEF Panic, EndTurn
  <2>2. CASE pc \in Replying
    <3>1. Sound(conv', turn)
      BY <1>0, <2>1, <2>2, ReplySealed DEF ConvSound
    <3>2. Stored
      BY <2>1 DEF Stored
    <3> QED
      BY <2>1, <3>1, <3>2, StoredSound, ClosedSound DEF Replying
  <2>3. CASE pc \notin Replying
    <3>1. Sound(conv, turn)
      BY <1>2, <2>3 DEF Panic, PlaceOK, Working, Replying, ConvSound, Closed
    <3>2. Sound(conv', turn)
      BY <1>0, <2>1, <3>1, GrownSealed, SoundGrown
    <3>3. Stored
      BY <2>1 DEF Stored
    <3> QED
      BY <2>1, <3>2, <3>3, StoredSound, ClosedSound DEF Replying
  <2> QED
    BY <2>2, <2>3
<1>3. CASE Crash
  <2>1. UNCHANGED <<log, snap, turn>> /\ conv' = <<>> /\ pc' = "down"
    BY <1>3 DEF Crash
  <2>2. Sound(<<>>, turn)
    BY DEF Sound, Past
  <2>3. Stored
    BY <2>1 DEF Stored
  <2> QED
    BY <2>1, <2>2, <2>3, StoredSound, ClosedSound DEF Replying
<1>4. CASE Resume
  <2>1. UNCHANGED <<log, snap, turn>> /\ conv' = Sealed(Loaded) /\ pc' = "idle"
    BY <1>4 DEF Resume
  <2>2. Loaded \in Seq(Msgs) /\ Sound(Loaded, turn)
    BY <1>0 DEF Loaded, StoreSound, Sound, Past
  <2>3. Sound(conv', turn)
    BY <1>0, <2>1, <2>2, GrownSealed, SoundGrown
  <2>4. Stored
    BY <2>1 DEF Stored
  <2> QED
    BY <2>1, <2>3, <2>4, StoredSound, ClosedSound DEF Replying
<1> QED
  BY <1>1, <1>2, <1>3, <1>4

LEMMA AnswerStep ==
  ASSUME PlaceOK, BatchOK, MsgsOK, MsgsOK', AnswerInv, [Next]_vars
  PROVE  AnswerInv'
<1>1. AllScheduled'
  BY ScheduleStep DEF AnswerInv
<1>2. StoreSound /\ ConvSound
  BY DEF AnswerInv
<1>3. CASE \/ EnterTurn \/ EnterTurnFails \/ SkillsFail \/ OutOfTurns \/ SeeCancelled
           \/ CompactionFails \/ PrepareCall \/ CallStreams \/ RecoverTooLong \/ TooLongFails
           \/ RecoverMaxTokens \/ MaxTokensFails \/ FallBack \/ CallFails
  <2>1. Closed
    BY <1>3 DEF EnterTurn, EnterTurnFails, SkillsFail, OutOfTurns, SeeCancelled,
       CompactionFails, PrepareCall, CallStreams, RecoverTooLong, TooLongFails,
       RecoverMaxTokens, MaxTokensFails, FallBack, CallFails, Closed
  <2> QED
    BY <1>1, <1>2, <1>3, <2>1, ClosedSteps DEF AnswerInv
<1>4. CASE Receive
  BY <1>1, <1>2, <1>4, ReceiveSound DEF AnswerInv
<1>5. CASE RunStopHooks \/ StopForBudget \/ RunTools \/ RunGroup \/ StopRunning \/ CommitResult
  BY <1>1, <1>2, <1>5, BatchSound DEF AnswerInv
<1>6. CASE Complete \/ SettleCancelled \/ SettleAndStop \/ SettleAndGoOn
  BY <1>1, <1>6, SettleSound DEF AnswerInv
<1>7. CASE Cancel \/ Panic \/ Crash \/ Resume \/ UNCHANGED vars
  BY <1>1, <1>2, <1>7, OutsideSound DEF AnswerInv
<1>8. CASE StartTurn
  BY <1>1, <1>2, <1>8, SoundStart DEF AnswerInv
<1> QED
  BY <1>3, <1>4, <1>5, <1>6, <1>7, <1>8 DEF Next, LoopStep

LEMMA AnswerHolds == Spec => []AnswerInv
<1>1. Init => AnswerInv
  <2> SUFFICES ASSUME Init PROVE AnswerInv
    OBVIOUS
  <2>1. AllScheduled
    BY DEF Init, AllScheduled
  <2>2. /\ Sound(conv, turn) /\ Sound(snap.msgs, turn) /\ Past(conv, turn)
        /\ \A i \in 1..Len(log) : ~Speaks(log, i)
    BY DEF Init, NoSnap, Sound, Past
  <2>3. pc = "idle" /\ Left
    BY DEF Init, Left
  <2> QED
    BY <2>1, <2>2, <2>3 DEF AnswerInv, StoreSound, ConvSound, Replying
<1>2. IInv => PlaceOK /\ BatchOK /\ MsgsOK
  BY DEF IInv
<1>3. PlaceOK /\ BatchOK /\ MsgsOK /\ MsgsOK' /\ AnswerInv /\ [Next]_vars => AnswerInv'
  BY AnswerStep
<1> QED
  BY <1>1, <1>2, <1>3, IInvHolds, PTL DEF Spec

\* However a turn ends, its calls of tools have their answers, but for those of the
\* last reply when no-progress or a stop hook refused it; a session resumed from the
\* snapshot or from the log is as good.
THEOREM UsesAnswered == Spec => []EveryUseAnswered
<1>1. ASSUME MsgsOK, AnswerInv PROVE EveryUseAnswered
  <2> SUFFICES ASSUME pc = "idle", NEW i \in At(conv, "assistant"), conv[i].id[1] = turn,
                      ~(exit \in {"no_progress", "stop_hook"} /\ conv[i].id = ReplyId),
                      NEW k \in conv[i].uses
               PROVE  AnsweredIn(conv, i, k)
    BY DEF EveryUseAnswered
  <2>1. DOMAIN conv = 1..Len(conv)
    BY <1>1, LenProperties DEF MsgsOK
  <2>2. i \in 1..Len(conv) /\ Speaks(conv, i)
    BY <2>1 DEF At, Speaks
  <2>3. CASE exit \notin {"no_progress", "stop_hook"}
    BY <1>1, <2>1, <2>2, <2>3 DEF AnswerInv, ConvSound, Closed, Sound, AnsweredAt, AnsweredIn,
       Answers
  <2>4. CASE conv[i].id # ReplyId
    BY <1>1, <2>1, <2>2, <2>4 DEF AnswerInv, ConvSound, Left, AnsweredAt, AnsweredIn, Answers
  <2> QED
    BY <2>3, <2>4
<1>2. IInv => MsgsOK
  BY DEF IInv
<1> QED
  BY <1>1, <1>2, IInvHolds, AnswerHolds, PTL

-----------------------------------------------------------------------------
(* Sealing a cancelled batch.                                               *)

\* Once the batch is over, what ran of it has a result.
RanCommitted == pc = "commit" => RanHere \subseteq batch.results

LEMMA RanCommittedStep ==
  ASSUME PlaceOK, BatchOK, OnceInv, RanCommitted, [Next]_vars
  PROVE  RanCommitted'
<1> SUFFICES ASSUME pc' = "commit"
             PROVE  RanHere' \subseteq batch'.results
  BY DEF RanCommitted
<1>1. StopRunning \/ CommitResult \/ (pc = "commit" /\ (Cancel \/ UNCHANGED vars))
  <2>1. ~EndsTurn
    BY DEF EndsTurn, EndTurn, EnterTurnFails, SkillsFail, OutOfTurns, SeeCancelled,
       CompactionFails, TooLongFails, MaxTokensFails, CallFails, Complete,
       SettleCancelled, SettleAndStop, Panic
  <2>2. ~(EnterTurn \/ PrepareCall \/ CallStreams \/ RecoverTooLong \/ RecoverMaxTokens
          \/ FallBack \/ RunStopHooks \/ SettleAndGoOn \/ StartTurn \/ Crash \/ Resume)
    BY DEF EnterTurn, PrepareCall, CallStreams, RecoverTooLong, RecoverMaxTokens,
       Escalate, Continue, FallBack, RunStopHooks, SettleAndGoOn, StartTurn, Crash, Resume,
       GoTo, EndTurn
  <2>3. ~(Receive \/ StopForBudget \/ RunTools \/ RunGroup)
    BY DEF Receive, StreamFails, RecoverTruncated, CommitReply, Escalate, Continue,
       StopForBudget, RunTools, StartBatch, RunGroup, GoTo, EndTurn
  <2>4. Cancel \/ UNCHANGED vars => pc = "commit"
    BY DEF Cancel, vars
  <2> QED
    BY <2>1, <2>2, <2>3, <2>4 DEF Next, LoopStep, EndsTurn
<1>2. /\ UNCHANGED <<turn, calls, ran>> /\ batch'.results = batch.results
      /\ pc \in {"exec", "commit"}
  BY <1>1 DEF StopRunning, CommitResult, Cancel, vars, control, history, BatchOK, Batches
<1>3. RanHere' = RanHere
  BY <1>2 DEF RanHere, ToolId
<1> QED
  BY <1>2, <1>3 DEF OnceInv, RanReported, RanCommitted

LEMMA SealsOnlyUnrun ==
  ASSUME PlaceOK, BatchOK, MsgsOK, RanCommitted, AnswerInv, SettleCancelled,
         NEW i \in DOMAIN conv', i > Len(conv)
  PROVE  conv'[i].id \notin ran
<1>1. pc = "commit" /\ Uncommitted = {} /\ conv' = Sealed(conv)
  BY DEF SettleCancelled
<1>2. PICK a \in 1..Len(conv) : LastReply(a)
  BY <1>1 DEF AnswerInv, ConvSound, Replying
<1>3. conv \in Seq(Msgs) /\ Sealed(conv) \in Seq(Msgs) /\ Len(conv) \in Nat
  BY SealedType, LenProperties DEF MsgsOK
<1>4. LastAssistant(conv) = a /\ a # 0
  BY <1>2, <1>3, LastAssistantIs DEF LastReply
<1>5. i \in 1..Len(Sealed(conv))
  BY <1>1, <1>3, LenProperties
<1>6. PICK k \in Unanswered(conv, a) :
        Sealed(conv)[i].id = <<conv[a].id[1], conv[a].id[2], k>>
  BY <1>3, <1>4, <1>5, SealedAnswers
<1>7. conv[a].id[1] = turn /\ conv[a].id[2] = calls /\ k \in conv[a].uses
  BY <1>2, <1>6 DEF LastReply, ReplyId, Unanswered
<1>8. conv'[i].id = ToolId(k)
  BY <1>1, <1>6, <1>7 DEF ToolId
<1>9. k \notin batch.done
  <2> SUFFICES ASSUME k \in batch.done PROVE FALSE
    OBVIOUS
  <2>1. PICK j \in 1..Len(conv) : a < j /\ conv[j] = Result(ToolId(k))
    BY <1>2 DEF LastReply
  <2>2. conv[j].kind = "result" /\ conv[j].id = <<conv[a].id[1], conv[a].id[2], k>>
    BY <1>7, <2>1 DEF Result, ToolId, Message
  <2>3. j \in At(conv, "result") /\ j > a
    BY <1>3, <2>1, <2>2, LenProperties DEF At
  <2> QED
    BY <1>6, <2>2, <2>3 DEF Unanswered
<1>10. k \in Nat
  <2>1. DOMAIN batch.tools = 1..Len(batch.tools)
    BY LenProperties DEF BatchOK, Batches
  <2>2. k \in 1..Len(batch.tools)
    BY <1>2, <1>7, <2>1 DEF LastReply
  <2> QED
    BY <2>2
<1>11. k \notin RanHere
  BY <1>1, <1>9 DEF RanCommitted, Uncommitted
<1> QED
  BY <1>8, <1>10, <1>11 DEF RanHere

\* Sealing a cancelled batch says "did not complete" of no call whose handler ran,
\* however the batch was cut off, streamed calls included.
THEOREM CancelSealsUnrun == Spec => CancelSealsOnlyUnrun
<1> DEFINE Step == pc = "commit" /\ pc' = "idle" /\ exit' # "panic" =>
                     \A i \in DOMAIN conv' : i > Len(conv) => conv'[i].id \notin ran
<1>1. Init => OnceInv /\ RanCommitted
  BY DEF Init, OnceInv, NoToolTwice, RanNamed, RanReported, RanCommitted
<1>2. IInv => PlaceOK /\ BatchOK /\ MsgsOK
  BY DEF IInv
<1>3. PlaceOK /\ BatchOK /\ OnceInv /\ RanCommitted /\ [Next]_vars
        => OnceInv' /\ RanCommitted'
  BY OnceStep, RanCommittedStep
<1>4. ASSUME PlaceOK, BatchOK, MsgsOK, RanCommitted, AnswerInv, [Next]_vars
      PROVE  [Step]_vars
  <2> SUFFICES ASSUME pc = "commit", pc' = "idle", exit' # "panic",
                      NEW i \in DOMAIN conv', i > Len(conv)
               PROVE  conv'[i].id \notin ran
    OBVIOUS
  <2>1. SettleCancelled \/ SettleAndStop
    <3>1. ~(EnterTurnFails \/ SkillsFail \/ OutOfTurns \/ SeeCancelled \/ CompactionFails
            \/ TooLongFails \/ MaxTokensFails \/ CallFails \/ Complete \/ Panic)
      BY DEF EnterTurnFails, SkillsFail, OutOfTurns, SeeCancelled, CompactionFails,
         TooLongFails, MaxTokensFails, CallFails, Complete, Panic, EndTurn
    <3>2. ~(EnterTurn \/ PrepareCall \/ CallStreams \/ RecoverTooLong \/ RecoverMaxTokens
            \/ FallBack \/ RunStopHooks \/ SettleAndGoOn \/ StartTurn \/ Crash \/ Resume
            \/ Receive \/ StopForBudget \/ RunTools \/ RunGroup \/ StopRunning)
      BY DEF EnterTurn, PrepareCall, CallStreams, RecoverTooLong, RecoverMaxTokens,
         FallBack, RunStopHooks, SettleAndGoOn, StartTurn, Crash, Resume, Receive,
         StopForBudget, RunTools, RunGroup, StopRunning, GoTo
    <3>3. ~(CommitResult \/ Cancel \/ UNCHANGED vars)
      BY DEF CommitResult, Cancel, vars
    <3> QED
      BY <1>4, <3>1, <3>2, <3>3 DEF Next, LoopStep
  <2>2. CASE SettleCancelled
    BY <1>4, <2>2, SealsOnlyUnrun
  <2>3. CASE SettleAndStop
    <3>1. conv' = conv
      BY <2>3 DEF SettleAndStop
    <3> QED
      BY <1>4, <3>1, LenProperties DEF MsgsOK
  <2> QED
    BY <2>1, <2>2, <2>3
<1>5. CancelSealsOnlyUnrun <=> [][Step]_vars
  BY DEF CancelSealsOnlyUnrun
<1> HIDE DEF Step
<1> QED
  BY <1>1, <1>2, <1>3, <1>4, <1>5, IInvHolds, AnswerHolds, PTL DEF Spec

-----------------------------------------------------------------------------
(* Requests pair results with calls.                                        *)

\* Results and groups are of calls of the reply.
BatchNamed ==
  /\ batch.results \subseteq DOMAIN batch.tools
  /\ \A i \in 1..Len(batch.todo) : batch.todo[i] \subseteq DOMAIN batch.tools

LEMMA BatchNamedStep == BatchOK /\ BatchNamed /\ [Next]_vars => BatchNamed'
<1> SUFFICES ASSUME BatchOK, BatchNamed, [Next]_vars PROVE BatchNamed'
  OBVIOUS
<1>1. ASSUME batch' = NoBatch PROVE BatchNamed'
  BY <1>1 DEF NoBatch, BatchNamed
<1>2. ASSUME UNCHANGED batch PROVE BatchNamed'
  BY <1>2 DEF BatchNamed
<1>3. CASE EndsTurn \/ FallBack \/ RunStopHooks \/ SettleAndGoOn \/ Crash
  <2>1. batch' = NoBatch \/ UNCHANGED batch
    BY <1>3 DEF EndsTurn, EndTurn, EnterTurnFails, SkillsFail, OutOfTurns,
       SeeCancelled, CompactionFails, TooLongFails, MaxTokensFails, CallFails, Complete,
       SettleCancelled, SettleAndStop, Panic, FallBack, RunStopHooks, SettleAndGoOn, Crash
  <2> QED
    BY <1>1, <1>2, <2>1
<1>4. CASE \/ EnterTurn \/ PrepareCall \/ CallStreams \/ RecoverTooLong \/ RecoverMaxTokens
           \/ StopRunning \/ StartTurn \/ Cancel \/ Resume \/ UNCHANGED vars
  <2>1. UNCHANGED batch
    BY <1>4 DEF EnterTurn, PrepareCall, CallStreams, RecoverTooLong, RecoverMaxTokens,
       Escalate, Continue, StopRunning, StartTurn, Cancel, Resume, vars
  <2> QED
    BY <1>2, <2>1
<1>5. CASE Receive
  <2>1. PICK r \in Replies : StreamFails(r) \/ RecoverTruncated(r) \/ CommitReply(r)
    BY <1>5 DEF Receive
  <2>2. CASE StreamFails(r)
    BY <1>1, <2>2 DEF StreamFails, EndTurn
  <2>3. CASE RecoverTruncated(r)
    BY <1>2, <2>3 DEF RecoverTruncated, Escalate, Continue
  <2>4. CASE CommitReply(r)
    <3>1. PICK S \in Streamed(r.tools) :
            batch'.tools = r.tools /\ batch'.results = S /\ batch'.todo = <<>>
      BY <2>4 DEF CommitReply, NoBatch
    <3>2. S \subseteq DOMAIN r.tools
      BY StreamedType
    <3> QED
      BY <3>1, <3>2 DEF BatchNamed
  <2> QED
    BY <2>1, <2>2, <2>3, <2>4
<1>6. CASE StopForBudget \/ RunTools
  <2>1. \/ EndTurn("no_progress")
        \/ \E after \in {"next", "complete", "budget"} : StartBatch(after)
    BY <1>6 DEF StopForBudget, RunTools
  <2>2. ASSUME NEW after \in {"next", "complete", "budget"}, StartBatch(after)
        PROVE  BatchNamed'
    <3>1. Groups(batch'.todo, Remaining) /\ batch'.tools = batch.tools
      BY <2>2, StartBatchGroups, StartBatchSchedules
    <3>2. batch'.results \subseteq batch.results \cup Remaining
      <4> DEFINE deny == {k \in Remaining : batch.tools[k] \in {"deny"}}
      <4>1. batch'.results = batch.results \cup deny
        BY <2>2 DEF StartBatch, BatchOK, Batches
      <4> QED
        BY <4>1
    <3>3. Remaining \subseteq DOMAIN batch.tools
      BY DEF Remaining
    <3> QED
      BY <3>1, <3>2, <3>3 DEF BatchNamed, Groups
  <2> QED
    BY <1>1, <2>1, <2>2 DEF EndTurn
<1>7. CASE RunGroup
  <2>1. batch.todo \in Seq(SUBSET Nat) /\ batch.todo # <<>>
    BY <1>7 DEF RunGroup, BatchOK, Batches
  <2>2. /\ batch'.results = batch.results \cup Head(batch.todo)
        /\ batch'.todo = Tail(batch.todo) /\ batch'.tools = batch.tools
    BY <1>7 DEF RunGroup, BatchOK, Batches
  <2>3. /\ 1 \in 1..Len(batch.todo) /\ Head(batch.todo) = batch.todo[1]
        /\ \A i \in 1..Len(Tail(batch.todo)) :
             i + 1 \in 1..Len(batch.todo) /\ Tail(batch.todo)[i] = batch.todo[i + 1]
    BY <2>1
  <2> QED
    BY <2>2, <2>3 DEF BatchNamed
<1>8. CASE CommitResult
  <2>1. /\ batch'.results = batch.results /\ batch'.todo = batch.todo
        /\ batch'.tools = batch.tools
    BY <1>8 DEF CommitResult, BatchOK, Batches
  <2> QED
    BY <2>1 DEF BatchNamed
<1> QED
  BY <1>3, <1>4, <1>5, <1>6, <1>7, <1>8 DEF Next, LoopStep, EndsTurn

Reports(c, i)     == c[i].kind = "result"
OfReply(c, i, j)  == c[i].id[1] = c[j].id[1] /\ c[i].id[2] = c[j].id[2]

\* No two replies have one name, results come after their reply, and no two have
\* one name.
Shaped(c) ==
  /\ \A i, j \in 1..Len(c) : Speaks(c, i) /\ Speaks(c, j) /\ OfReply(c, i, j) => i = j
  /\ \A i, j \in 1..Len(c) : Reports(c, i) /\ Speaks(c, j) /\ OfReply(c, i, j) => j < i
  /\ \A i, j \in 1..Len(c) : Reports(c, i) /\ Reports(c, j) /\ c[i].id = c[j].id => i = j

\* The replies and the results are those of provider calls made so far; to one that
\* is under way there is no reply yet.
NamedAt(id, t, n, place) ==
  /\ id[1] <= t /\ (id[1] = t => id[2] <= n)
  /\ place \in {"call", "recv"} /\ id[1] = t => id[2] < n

Named(c, t, n, place, done) ==
  \A i \in 1..Len(c) : /\ Speaks(c, i) => NamedAt(c[i].id, t, n, place)
                       /\ Reports(c, i) => KnownAt(c[i].id, t, n, place, done)

\* Each result answers a call of an earlier message.  Cutting a conversation may
\* take the call and leave the result.
NoCuts   == Compaction = {} /\ "too_long" \notin ProviderErrors
Paired(c) ==
  \A i \in 1..Len(c) : Reports(c, i) =>
    \E j \in 1..Len(c) : j < i /\ Speaks(c, j) /\ OfReply(c, i, j) /\ c[i].id[3] \in c[j].uses

Fits(c, t, n, place, done) ==
  Shaped(c) /\ Named(c, t, n, place, done) /\ (NoCuts => Paired(c))

FitNow(c)  == Fits(c, turn, calls, pc, batch.done)
FitNext(c) == Fits(c, turn', calls', pc', batch'.done)

PairInv ==
  /\ FitNow(conv) /\ FitNow(snap.msgs)
  /\ ~snap.exists => \A i \in 1..Len(log) : ~Reports(log, i)

\* d has of c a stretch of it, some messages of it replaced by others that are no
\* replies or results; without cuts, all its replies.
Follows(d, c) ==
  /\ \E n \in Nat : \A i \in 1..Len(d) :
       Speaks(d, i) \/ Reports(d, i) => i + n \in 1..Len(c) /\ c[i + n] = d[i]
  /\ NoCuts =>
       /\ \A i \in 1..Len(c) : Speaks(c, i) => i \in 1..Len(d) /\ d[i] = c[i]
       /\ \A i \in 1..Len(d) : Reports(d, i) => i \in 1..Len(c) /\ d[i] = c[i]

LEMMA FollowsSame == \A c \in Seq(Msgs) : Follows(c, c)
<1> SUFFICES ASSUME NEW c \in Seq(Msgs) PROVE Follows(c, c)
  OBVIOUS
<1>1. 0 \in Nat /\ \A i \in 1..Len(c) : i + 0 = i
  BY LenProperties
<1> QED
  BY <1>1 DEF Follows

LEMMA FollowsAppend ==
  ASSUME NEW c \in Seq(Msgs), NEW m \in Msgs, m.kind \notin {"assistant", "result"}
  PROVE  Follows(Append(c, m), c)
<1> DEFINE d == Append(c, m)
<1>1. /\ Len(c) \in Nat /\ Len(d) = Len(c) + 1 /\ d[Len(c) + 1] = m
      /\ \A i \in 1..Len(c) : d[i] = c[i]
  BY AppendProperties, LenProperties
<1> HIDE DEF d
<1>2. ASSUME NEW i \in 1..Len(d), Speaks(d, i) \/ Reports(d, i)
      PROVE  i + 0 \in 1..Len(c) /\ c[i + 0] = d[i] /\ i \in 1..Len(c)
  <2>1. i # Len(c) + 1
    BY <1>1, <1>2 DEF Speaks, Reports
  <2> QED
    BY <1>1, <2>1
<1>3. \A i \in 1..Len(c) : i \in 1..Len(d)
  BY <1>1
<1> QED
  BY <1>1, <1>2, <1>3 DEF Follows, d

\* A cut from the front, where there are cuts.
LEMMA FollowsSuffix ==
  ASSUME NEW c \in Seq(Msgs), NEW k \in Nat, ~NoCuts
  PROVE  Follows(SubSeq(c, k + 1, Len(c)), c)
<1> DEFINE d == SubSeq(c, k + 1, Len(c))
<1>1. Len(c) \in Nat /\ k + 1 \in Nat
  BY LenProperties
<1>2. /\ Len(d) = IF k + 1 <= Len(c) THEN Len(c) - (k + 1) + 1 ELSE 0
      /\ \A i \in 1..Len(d) : d[i] = c[(k + 1) + i - 1]
  BY <1>1, SubSeqProperties
<1>3. \A i \in 1..Len(d) : i + k \in 1..Len(c) /\ c[i + k] = d[i]
  <2> HIDE DEF d
  <2>1. ASSUME NEW i \in 1..Len(d)
        PROVE  i + k \in 1..Len(c) /\ (k + 1) + i - 1 = i + k
    BY <1>1, <1>2
  <2> QED
    BY <1>2, <2>1
<1> QED
  BY <1>3 DEF Follows

LEMMA FollowsCompacted ==
  ASSUME NEW c \in Seq(Msgs), NEW d \in Compacted(c)
  PROVE  Follows(d, c)
<1>1. CASE d = c
  BY <1>1, FollowsSame
<1>2. CASE Shrinkable(c) /\ d = Truncated(c)
  BY <1>2, TruncatedSuffix, FollowsSuffix DEF Shrinkable, NoCuts
<1> QED
  BY <1>1, <1>2 DEF Compacted

LEMMA FollowsTombstoned ==
  ASSUME NEW c \in Seq(Msgs)
  PROVE  Follows(Tombstoned(c), c)
<1> DEFINE d == Tombstoned(c)
           a == LastAssistant(c)
<1>1. Len(c) \in Nat /\ DOMAIN c = 1..Len(c) /\ d \in Seq(Msgs)
  BY LenProperties, TombstonedType
<1>2. DOMAIN d = 1..Len(c) /\ Len(d) = Len(c)
  BY <1>1, LenProperties DEF Tombstoned
<1>3. \A i \in 1..Len(c) : d[i] = IF i > a THEN Tombstone ELSE c[i]
  BY <1>1 DEF Tombstoned
<1>4. Tombstone.kind = "tombstone"
  BY DEF Tombstone, Message
<1>5. \A i \in 1..Len(c) : Speaks(c, i) => ~(i > a)
  <2> DEFINE A == At(c, "assistant")
  <2>1. \A i \in 1..Len(c) : Speaks(c, i) => i \in A
    BY <1>1 DEF At, Speaks
  <2>2. A \in SUBSET Nat /\ \A i \in A : i <= Len(c)
    BY <1>1 DEF At
  <2>3. A # {} => \A j \in A : j <= a
    <3> SUFFICES ASSUME A # {} PROVE \A j \in A : j <= a
      OBVIOUS
    <3>1. a = CHOOSE i \in A : \A j \in A : j <= i
      BY DEF LastAssistant
    <3> HIDE DEF A, a
    <3>2. \E i \in A : \A j \in A : j <= i
      BY <1>1, <2>2, GreatestNatural
    <3> QED
      BY <3>1, <3>2
  <2>4. A # {} => a \in A
    <3> SUFFICES ASSUME A # {} PROVE a \in A
      OBVIOUS
    <3>1. a = CHOOSE i \in A : \A j \in A : j <= i
      BY DEF LastAssistant
    <3> HIDE DEF A, a
    <3>2. \E i \in A : \A j \in A : j <= i
      BY <1>1, <2>2, GreatestNatural
    <3> QED
      BY <3>1, <3>2
  <2> HIDE DEF A, a
  <2> SUFFICES ASSUME NEW i \in 1..Len(c), Speaks(c, i) PROVE ~(i > a)
    OBVIOUS
  <2>5. i \in A
    BY <2>1
  <2>6. i <= a /\ a \in A
    BY <2>3, <2>4, <2>5
  <2>7. a \in Nat /\ i \in Nat
    BY <2>2, <2>6, <2>5
  <2> QED
    BY <2>6, <2>7
<1> HIDE DEF d, a
<1>6. \A i \in 1..Len(d) : Speaks(d, i) \/ Reports(d, i) => d[i] = c[i] /\ i \in 1..Len(c)
  BY <1>2, <1>3, <1>4 DEF Speaks, Reports
<1>7. \A i \in 1..Len(c) : Speaks(c, i) => i \in 1..Len(d) /\ d[i] = c[i]
  BY <1>2, <1>3, <1>5
<1>8. 0 \in Nat /\ \A i \in 1..Len(d) : i + 0 = i
  BY <1>1, <1>2
<1> QED
  BY <1>6, <1>7, <1>8 DEF Follows, d

\* What follows a conversation that fits does fit.
LEMMA FitsFollows ==
  ASSUME NEW c \in Seq(Msgs), NEW d \in Seq(Msgs), Follows(d, c),
         NEW t, NEW n, NEW place, NEW done, Fits(c, t, n, place, done)
  PROVE  Fits(d, t, n, place, done)
<1>1. Len(c) \in Nat /\ Len(d) \in Nat
  BY LenProperties
<1>2. PICK s \in Nat : \A i \in 1..Len(d) :
        Speaks(d, i) \/ Reports(d, i) => i + s \in 1..Len(c) /\ c[i + s] = d[i]
  BY DEF Follows
<1>3. \A i \in 1..Len(d) : /\ Speaks(d, i) => Speaks(c, i + s)
                           /\ Reports(d, i) => Reports(c, i + s)
  BY <1>2 DEF Speaks, Reports
<1>4. \A i, j \in 1..Len(d) : /\ i + s = j + s => i = j
                              /\ i + s < j + s => i < j
  BY <1>1
<1>5. Shaped(c) /\ Named(c, t, n, place, done) /\ (NoCuts => Paired(c))
  BY DEF Fits
<1>6. Shaped(d)
  <2>1. ASSUME NEW i \in 1..Len(d), NEW j \in 1..Len(d), Speaks(d, i), Speaks(d, j),
               OfReply(d, i, j)
        PROVE  i = j
    <3>1. /\ i + s \in 1..Len(c) /\ c[i + s] = d[i] /\ Speaks(c, i + s)
          /\ j + s \in 1..Len(c) /\ c[j + s] = d[j] /\ Speaks(c, j + s)
      BY <1>2, <1>3, <2>1
    <3>2. i + s = j + s
      BY <1>5, <2>1, <3>1 DEF Shaped, OfReply
    <3> QED
      BY <1>4, <3>2
  <2>2. ASSUME NEW i \in 1..Len(d), NEW j \in 1..Len(d), Reports(d, i), Speaks(d, j),
               OfReply(d, i, j)
        PROVE  j < i
    <3>1. /\ i + s \in 1..Len(c) /\ c[i + s] = d[i] /\ Reports(c, i + s)
          /\ j + s \in 1..Len(c) /\ c[j + s] = d[j] /\ Speaks(c, j + s)
      BY <1>2, <1>3, <2>2
    <3>2. j + s < i + s
      BY <1>5, <2>2, <3>1 DEF Shaped, OfReply
    <3> QED
      BY <1>4, <3>2
  <2>3. ASSUME NEW i \in 1..Len(d), NEW j \in 1..Len(d), Reports(d, i), Reports(d, j),
               d[i].id = d[j].id
        PROVE  i = j
    <3>1. /\ i + s \in 1..Len(c) /\ c[i + s] = d[i] /\ Reports(c, i + s)
          /\ j + s \in 1..Len(c) /\ c[j + s] = d[j] /\ Reports(c, j + s)
      BY <1>2, <1>3, <2>3
    <3>2. i + s = j + s
      BY <1>5, <2>3, <3>1 DEF Shaped
    <3> QED
      BY <1>4, <3>2
  <2> QED
    BY <2>1, <2>2, <2>3 DEF Shaped
<1>7. Named(d, t, n, place, done)
  <2>1. ASSUME NEW i \in 1..Len(d), Speaks(d, i) \/ Reports(d, i)
        PROVE  /\ Speaks(d, i) => NamedAt(d[i].id, t, n, place)
               /\ Reports(d, i) => KnownAt(d[i].id, t, n, place, done)
    <3>1. i + s \in 1..Len(c) /\ c[i + s] = d[i]
      BY <1>2, <2>1
    <3> QED
      BY <1>3, <1>5, <3>1 DEF Named
  <2> QED
    BY <2>1 DEF Named
<1>8. ASSUME NoCuts, NEW i \in 1..Len(d), Reports(d, i)
      PROVE  \E j \in 1..Len(d) :
               j < i /\ Speaks(d, j) /\ OfReply(d, i, j) /\ d[i].id[3] \in d[j].uses
  <2>1. i \in 1..Len(c) /\ d[i] = c[i] /\ Reports(c, i)
    BY <1>8 DEF Follows, Reports
  <2>2. PICK j \in 1..Len(c) :
          j < i /\ Speaks(c, j) /\ OfReply(c, i, j) /\ c[i].id[3] \in c[j].uses
    BY <1>5, <1>8, <2>1 DEF Paired
  <2>3. j \in 1..Len(d) /\ d[j] = c[j]
    BY <1>8, <2>2 DEF Follows
  <2> QED
    BY <2>1, <2>2, <2>3 DEF Speaks, OfReply
<1> QED
  BY <1>6, <1>7, <1>8 DEF Fits, Paired

LEMMA NamedStays ==
  ASSUME PlaceOK, NamesKept, NEW id, id[1] \in Nat, id[2] \in Nat,
         NamedAt(id, turn, calls, pc)
  PROVE  NamedAt(id, turn', calls', pc')
<1>1. turn \in Nat /\ calls \in Nat
  BY BoundsAssumption DEF PlaceOK
<1>2. CASE PrepareCall
  <2>1. turn' = turn /\ calls' = calls + 1 /\ pc' = "call"
    BY <1>2 DEF PrepareCall, GoTo
  <2> QED
    BY <1>1, <2>1 DEF NamedAt
<1>3. CASE StartTurn
  <2>1. turn' = turn + 1 /\ pc' = "begun"
    BY <1>3 DEF StartTurn, GoTo
  <2> QED
    BY <1>1, <2>1 DEF NamedAt
<1>4. CASE CommitResult
  <2>1. UNCHANGED <<turn, calls, pc>>
    BY <1>4 DEF CommitResult, control
  <2> QED
    BY <2>1 DEF NamedAt
<1>5. CASE ~(PrepareCall \/ StartTurn \/ CommitResult)
  BY <1>1, <1>5 DEF NamesKept, NamedAt
<1> QED
  BY <1>2, <1>3, <1>4, <1>5

LEMMA RepliesNamed ==
  \A c \in Seq(Msgs) : \A i \in 1..Len(c) :
    Speaks(c, i) => /\ c[i].id \in Nat \X Nat /\ c[i].id[1] \in Nat /\ c[i].id[2] \in Nat
                    /\ c[i].uses \subseteq Nat
<1> SUFFICES ASSUME NEW c \in Seq(Msgs), NEW i \in 1..Len(c), Speaks(c, i)
             PROVE  /\ c[i].id \in Nat \X Nat /\ c[i].id[1] \in Nat /\ c[i].id[2] \in Nat
                    /\ c[i].uses \subseteq Nat
  OBVIOUS
<1>1. c[i] \in Msgs
  BY ElementOfSeq
<1>2. c[i].id \in Nat \X Nat /\ c[i].uses \subseteq Nat
  BY <1>1 DEF Speaks, Msgs, Messages
<1> QED
  BY <1>2

\* What fits goes on fitting when the loop goes on ...
LEMMA FitsStay ==
  ASSUME PlaceOK, BatchOK, NamesKept, NEW c \in Seq(Msgs), FitNow(c)
  PROVE  FitNext(c)
<1>1. Shaped(c) /\ Named(c, turn, calls, pc, batch.done) /\ (NoCuts => Paired(c))
  BY DEF FitNow, Fits
<1>2. ASSUME NEW i \in 1..Len(c), Speaks(c, i)
      PROVE  NamedAt(c[i].id, turn', calls', pc')
  <2>1. c[i].id[1] \in Nat /\ c[i].id[2] \in Nat
    BY <1>2, RepliesNamed
  <2>2. NamedAt(c[i].id, turn, calls, pc)
    BY <1>1, <1>2 DEF Named
  <2> QED
    BY <2>1, <2>2, NamedStays
<1>3. ASSUME NEW i \in 1..Len(c), Reports(c, i)
      PROVE  KnownAt(c[i].id, turn', calls', pc', batch'.done)
  <2>1. KnownId(c[i].id)
    BY <1>1, <1>3 DEF Named, KnownId
  <2> QED
    BY <2>1, KnownStays DEF KnownNext
<1>4. Named(c, turn', calls', pc', batch'.done)
  BY <1>2, <1>3 DEF Named
<1> QED
  BY <1>1, <1>4 DEF FitNext, Fits

\* ... and when the turn is over or gives up the reply it waited for.
LEMMA FitsAnywhere ==
  ASSUME NEW c, NEW t, NEW n, NEW place, NEW done, Fits(c, t, n, place, done),
         NEW p, p \notin {"call", "recv", "hooks", "tools", "exec", "commit"}, NEW y
  PROVE  Fits(c, t, n, p, y)
<1>1. Named(c, t, n, p, y)
  BY DEF Fits, Named, NamedAt, KnownAt
<1> QED
  BY <1>1 DEF Fits

LEMMA FitsNothing ==
  ASSUME NEW c, \A i \in 1..Len(c) : ~Speaks(c, i) /\ ~Reports(c, i),
         NEW t, NEW n, NEW place, NEW done
  PROVE  Fits(c, t, n, place, done)
BY DEF Fits, Shaped, Named, Paired

LEMMA FitPrimed ==
  /\ FitNext(conv') => FitNow(conv)'
  /\ FitNext(snap'.msgs) => FitNow(snap.msgs)'
<1>1. FitNext(conv') => FitNow(conv)'
  BY DEF FitNext, FitNow, Fits, Shaped, Named, Paired, NamedAt, KnownAt, Speaks, Reports,
     OfReply, NoCuts
<1>2. FitNext(snap'.msgs) => FitNow(snap.msgs)'
  BY DEF FitNext, FitNow, Fits, Shaped, Named, Paired, NamedAt, KnownAt, Speaks, Reports,
     OfReply, NoCuts
<1> QED
  BY <1>1, <1>2

\* Sealing answers calls that have no result yet, each once, after their reply.
LEMMA FitsSealed ==
  ASSUME NEW c \in Seq(Msgs), NEW t, NEW n, NEW place, NEW done,
         Fits(c, t, n, place, done), NEW y
  PROVE  Fits(Sealed(c), t, n, "idle", y)
<1>0. Fits(c, t, n, "idle", y)
  BY FitsAnywhere
<1> DEFINE a == LastAssistant(c)
           K == Unanswered(c, a)
           s == Cardinality(K)
           d == Sealed(c)
<1>1. CASE a = 0
  BY <1>0, <1>1 DEF Sealed
<1>2. CASE a # 0
  <2>1. /\ a \in 1..Len(c) /\ Len(c) \in Nat /\ Speaks(c, a)
        /\ K \in SUBSET Nat /\ IsFiniteSet(K) /\ K \subseteq c[a].uses /\ s \in Nat
        /\ Len(d) = Len(c) + s
        /\ \A i \in 1..Len(c) : d[i] = c[i]
        /\ \A i \in 1..s : /\ d[Len(c) + i].kind = "result"
                          /\ d[Len(c) + i].id = <<c[a].id[1], c[a].id[2], InOrder(K)[i]>>
                          /\ InOrder(K)[i] \in K
    BY <1>2, SealedParts DEF Speaks
  <2>2. \A i, j \in 1..s : i < j => InOrder(K)[i] < InOrder(K)[j]
    BY <2>1, InOrderType
  <2>3. \A i \in 1..Len(c), k \in K :
          i > a /\ c[i].kind = "result" => c[i].id # <<c[a].id[1], c[a].id[2], k>>
    <3>1. \A k \in K : \A i \in At(c, "result") :
            i > a => c[i].id # <<c[a].id[1], c[a].id[2], k>>
      BY DEF Unanswered
    <3>2. \A i \in 1..Len(c) : c[i].kind = "result" => i \in At(c, "result")
      BY LenProperties DEF At
    <3> QED
      BY <3>1, <3>2
  <2> HIDE DEF s, a, K, d
  <2>4. c[a].id[1] \in Nat /\ c[a].id[2] \in Nat
    BY <2>1, RepliesNamed
  <2>5. Shaped(c) /\ Named(c, t, n, "idle", y) /\ (NoCuts => Paired(c))
    BY <1>0 DEF Fits
  \* A message of d is one of c or the seal of a call.
  <2>6. ASSUME NEW i \in 1..Len(d)
        PROVE  \/ /\ i \in 1..Len(c) /\ d[i] = c[i]
                  /\ (Speaks(d, i) <=> Speaks(c, i)) /\ (Reports(d, i) <=> Reports(c, i))
               \/ /\ i \notin 1..Len(c) /\ i - Len(c) \in 1..s /\ i > Len(c)
                  /\ ~Speaks(d, i) /\ Reports(d, i)
                  /\ d[i].id = <<c[a].id[1], c[a].id[2], InOrder(K)[i - Len(c)]>>
                  /\ InOrder(K)[i - Len(c)] \in K
    <3>1. CASE i \in 1..Len(c)
      BY <2>1, <3>1 DEF Speaks, Reports
    <3>2. CASE i \notin 1..Len(c)
      <4>1. i - Len(c) \in 1..s /\ Len(c) + (i - Len(c)) = i /\ i > Len(c)
        BY <2>1, <3>2
      <4> QED
        BY <2>1, <3>2, <4>1 DEF Speaks, Reports
    <3> QED
      BY <3>1, <3>2
  <2>7. \A i \in 1..Len(d), j \in 1..Len(d) :
          Speaks(d, i) /\ Speaks(d, j) /\ OfReply(d, i, j) => i = j
    BY <2>5, <2>6 DEF Shaped, OfReply
  <2>8. ASSUME NEW i \in 1..Len(d), NEW j \in 1..Len(d), Reports(d, i), Speaks(d, j),
               OfReply(d, i, j)
        PROVE  j < i
    <3>1. j \in 1..Len(c) /\ d[j] = c[j] /\ Speaks(c, j)
      BY <2>6, <2>8
    <3>2. CASE i \in 1..Len(c)
      <4>1. d[i] = c[i] /\ Reports(c, i)
        BY <2>6, <2>8, <3>2
      <4> QED
        BY <2>5, <2>8, <3>1, <3>2, <4>1 DEF Shaped, OfReply
    <3>3. CASE i \notin 1..Len(c)
      <4>1. i > Len(c) /\ i \in Nat /\ j \in Nat /\ j <= Len(c)
        BY <2>1, <2>6, <3>1, <3>3
      <4> QED
        BY <2>1, <4>1
    <3> QED
      BY <3>2, <3>3
  <2>9. ASSUME NEW i \in 1..Len(d), NEW j \in 1..Len(d), i \in 1..Len(c), j \notin 1..Len(c),
               Reports(d, i), Reports(d, j)
        PROVE  d[i].id # d[j].id
    <3>1. d[i] = c[i] /\ Reports(c, i)
      BY <2>6, <2>9
    <3>2. PICK k \in K : d[j].id = <<c[a].id[1], c[a].id[2], k>>
      BY <2>6, <2>9
    <3> SUFFICES ASSUME c[i].id = <<c[a].id[1], c[a].id[2], k>> PROVE FALSE
      BY <3>1, <3>2
    <3>3. OfReply(c, i, a)
      BY DEF OfReply
    <3>4. a < i
      BY <2>1, <2>5, <2>9, <3>1, <3>3 DEF Shaped
    <3>5. i > a
      BY <2>1, <2>9, <3>4
    <3> QED
      BY <2>3, <2>9, <3>1, <3>5 DEF Reports
  <2>10. ASSUME NEW i \in 1..Len(d), NEW j \in 1..Len(d), i \notin 1..Len(c), j \notin 1..Len(c),
                d[i].id = d[j].id
         PROVE  i = j
    <3>1. /\ i - Len(c) \in 1..s /\ j - Len(c) \in 1..s
          /\ InOrder(K)[i - Len(c)] = InOrder(K)[j - Len(c)]
          /\ InOrder(K)[i - Len(c)] \in Nat
      <4>1. \A x \in 1..Len(d) : x \notin 1..Len(c) =>
              /\ x - Len(c) \in 1..s
              /\ d[x].id = <<c[a].id[1], c[a].id[2], InOrder(K)[x - Len(c)]>>
              /\ InOrder(K)[x - Len(c)] \in K
        BY <2>6
      <4>2. /\ i - Len(c) \in 1..s /\ InOrder(K)[i - Len(c)] \in K
            /\ d[i].id = <<c[a].id[1], c[a].id[2], InOrder(K)[i - Len(c)]>>
        BY <2>10, <4>1
      <4>3. /\ j - Len(c) \in 1..s
            /\ d[j].id = <<c[a].id[1], c[a].id[2], InOrder(K)[j - Len(c)]>>
        BY <2>10, <4>1
      <4>4. d[i].id[3] = InOrder(K)[i - Len(c)] /\ d[j].id[3] = InOrder(K)[j - Len(c)]
        BY <4>2, <4>3
      <4>5. InOrder(K)[i - Len(c)] = InOrder(K)[j - Len(c)]
        BY <2>10, <4>4
      <4> QED
        BY <2>1, <4>2, <4>3, <4>5
    <3>2. ~(i - Len(c) < j - Len(c)) /\ ~(j - Len(c) < i - Len(c))
      BY <2>2, <3>1
    <3> QED
      BY <2>1, <3>1, <3>2
  <2>11. ASSUME NEW i \in 1..Len(d), NEW j \in 1..Len(d), Reports(d, i), Reports(d, j),
                d[i].id = d[j].id
         PROVE  i = j
    <3>1. CASE i \in 1..Len(c) /\ j \in 1..Len(c)
      <4>1. d[i] = c[i] /\ Reports(c, i) /\ d[j] = c[j] /\ Reports(c, j)
        BY <2>6, <2>11, <3>1
      <4> QED
        BY <2>5, <2>11, <3>1, <4>1 DEF Shaped
    <3> QED
      BY <2>9, <2>10, <2>11, <3>1
  <2>12. Shaped(d)
    BY <2>7, <2>8, <2>11 DEF Shaped
  <2>13. ASSUME NEW i \in 1..Len(d)
         PROVE  /\ Speaks(d, i) => NamedAt(d[i].id, t, n, "idle")
                /\ Reports(d, i) => KnownAt(d[i].id, t, n, "idle", y)
    <3>1. CASE i \in 1..Len(c)
      BY <2>5, <2>6, <3>1 DEF Named
    <3>2. CASE i \notin 1..Len(c)
      <4>1. PICK k \in K : d[i].id = <<c[a].id[1], c[a].id[2], k>>
        BY <2>6, <3>2
      <4>2. /\ d[i].id \in Nat \X Nat \X Nat
            /\ d[i].id[1] = c[a].id[1] /\ d[i].id[2] = c[a].id[2]
        BY <2>1, <2>4, <4>1
      <4>3. NamedAt(c[a].id, t, n, "idle")
        BY <2>1, <2>5 DEF Named
      <4>4. ~Speaks(d, i)
        BY <2>6, <3>2
      <4> QED
        BY <4>2, <4>3, <4>4 DEF NamedAt, KnownAt
    <3> QED
      BY <3>1, <3>2
  <2>14. ASSUME NoCuts, NEW i \in 1..Len(d), Reports(d, i)
         PROVE  \E j \in 1..Len(d) :
                  j < i /\ Speaks(d, j) /\ OfReply(d, i, j) /\ d[i].id[3] \in d[j].uses
    <3>0. \A j \in 1..Len(c) : j \in 1..Len(d) /\ d[j] = c[j]
      BY <2>1
    <3>1. CASE i \in 1..Len(c)
      <4>1. d[i] = c[i] /\ Reports(c, i)
        BY <2>6, <2>14, <3>1
      <4>2. PICK j \in 1..Len(c) :
              j < i /\ Speaks(c, j) /\ OfReply(c, i, j) /\ c[i].id[3] \in c[j].uses
        BY <2>5, <2>14, <3>1, <4>1 DEF Paired
      <4> QED
        BY <3>0, <4>1, <4>2 DEF Speaks, OfReply
    <3>2. CASE i \notin 1..Len(c)
      <4>1. PICK k \in K : d[i].id = <<c[a].id[1], c[a].id[2], k>>
        BY <2>6, <3>2
      <4>2. a < i
        BY <2>1, <2>6, <3>2
      <4>3. d[a] = c[a] /\ a \in 1..Len(d)
        BY <2>1, <3>0
      <4>4. Speaks(d, a) /\ OfReply(d, i, a) /\ d[i].id[3] \in d[a].uses
        BY <2>1, <4>1, <4>3 DEF Speaks, OfReply
      <4> QED
        BY <4>2, <4>3, <4>4
    <3> QED
      BY <3>1, <3>2
  <2> QED
    BY <2>12, <2>13, <2>14 DEF Fits, Named, Paired, d
<1> QED
  BY <1>1, <1>2

\* The reply to the provider call under way.
LEMMA FitsReply ==
  ASSUME NEW c \in Seq(Msgs), NEW t \in Nat, NEW n \in Nat, NEW done,
         Fits(c, t, n, "recv", done), NEW m \in Msgs, m.kind = "assistant", m.id = <<t, n>>,
         NEW p \in {"top", "hooks"}, NEW y
  PROVE  Fits(Append(c, m), t, n, p, y)
<1>0. PICK d : d = Append(c, m)
  OBVIOUS
<1>1. /\ Len(c) \in Nat /\ Len(d) = Len(c) + 1 /\ d[Len(c) + 1] = m
      /\ \A i \in 1..Len(c) : d[i] = c[i]
  BY <1>0, AppendProperties, LenProperties
<1>2. Shaped(c) /\ Named(c, t, n, "recv", done) /\ (NoCuts => Paired(c))
  BY DEF Fits
<1>3. ASSUME NEW i \in 1..Len(d)
      PROVE  \/ /\ i \in 1..Len(c) /\ d[i] = c[i] /\ i # Len(c) + 1
                /\ (Speaks(d, i) <=> Speaks(c, i)) /\ (Reports(d, i) <=> Reports(c, i))
             \/ i = Len(c) + 1 /\ d[i] = m /\ Speaks(d, i) /\ ~Reports(d, i)
  <2>1. CASE i \in 1..Len(c)
    BY <1>1, <2>1 DEF Speaks, Reports
  <2>2. CASE i \notin 1..Len(c)
    <3>1. i = Len(c) + 1
      BY <1>1, <2>2
    <3> QED
      BY <1>1, <3>1 DEF Speaks, Reports
  <2> QED
    BY <2>1, <2>2
<1>4. \A i \in 1..Len(c) : /\ Speaks(c, i) => ~(c[i].id[1] = t /\ c[i].id[2] = n)
                           /\ Reports(c, i) => ~(c[i].id[1] = t /\ c[i].id[2] = n)
  BY <1>2 DEF Named, NamedAt, KnownAt
<1>5. m.id[1] = t /\ m.id[2] = n
  OBVIOUS
<1>6. ASSUME NEW i \in 1..Len(d), NEW j \in 1..Len(d), Speaks(d, i), Speaks(d, j),
             OfReply(d, i, j)
      PROVE  i = j
  <2>1. CASE i \in 1..Len(c) /\ j \in 1..Len(c)
    <3>1. d[i] = c[i] /\ Speaks(c, i) /\ d[j] = c[j] /\ Speaks(c, j)
      BY <1>1, <1>3, <1>6, <2>1
    <3> QED
      BY <1>2, <1>6, <2>1, <3>1 DEF Shaped, OfReply
  <2>2. CASE i \in 1..Len(c) /\ j = Len(c) + 1
    <3>1. d[i] = c[i] /\ Speaks(c, i) /\ d[j] = m
      BY <1>1, <1>3, <1>6, <2>2
    <3>2. c[i].id[1] = m.id[1] /\ c[i].id[2] = m.id[2]
      BY <1>6, <3>1 DEF OfReply
    <3> QED
      BY <1>4, <1>5, <2>2, <3>1, <3>2
  <2>3. CASE j \in 1..Len(c) /\ i = Len(c) + 1
    <3>1. d[j] = c[j] /\ Speaks(c, j) /\ d[i] = m
      BY <1>1, <1>3, <1>6, <2>3
    <3>2. c[j].id[1] = m.id[1] /\ c[j].id[2] = m.id[2]
      BY <1>6, <3>1 DEF OfReply
    <3> QED
      BY <1>4, <1>5, <2>3, <3>1, <3>2
  <2> QED
    BY <1>3, <2>1, <2>2, <2>3
<1>7. ASSUME NEW i \in 1..Len(d), NEW j \in 1..Len(d), Reports(d, i), Speaks(d, j),
             OfReply(d, i, j)
      PROVE  j < i
  <2>1. i \in 1..Len(c) /\ d[i] = c[i] /\ Reports(c, i)
    BY <1>3, <1>7
  <2>2. CASE j \in 1..Len(c)
    <3>1. d[j] = c[j] /\ Speaks(c, j)
      BY <1>1, <1>3, <1>7, <2>2
    <3> QED
      BY <1>2, <1>7, <2>1, <2>2, <3>1 DEF Shaped, OfReply
  <2>3. CASE j = Len(c) + 1
    <3>1. d[j] = m
      BY <1>1, <2>3
    <3>2. c[i].id[1] = m.id[1] /\ c[i].id[2] = m.id[2]
      BY <1>7, <2>1, <3>1 DEF OfReply
    <3> QED
      BY <1>4, <1>5, <2>1, <3>2
  <2> QED
    BY <1>3, <2>2, <2>3
<1>8. ASSUME NEW i \in 1..Len(d), NEW j \in 1..Len(d), Reports(d, i), Reports(d, j),
             d[i].id = d[j].id
      PROVE  i = j
  <2>1. /\ i \in 1..Len(c) /\ d[i] = c[i] /\ Reports(c, i)
        /\ j \in 1..Len(c) /\ d[j] = c[j] /\ Reports(c, j)
    BY <1>3, <1>8
  <2> QED
    BY <1>2, <1>8, <2>1 DEF Shaped
<1>9. ASSUME NEW i \in 1..Len(d)
      PROVE  /\ Speaks(d, i) => NamedAt(d[i].id, t, n, p)
             /\ Reports(d, i) => KnownAt(d[i].id, t, n, p, y)
  <2>1. CASE i \in 1..Len(c)
    <3>1. /\ Speaks(c, i) => NamedAt(c[i].id, t, n, "recv")
          /\ Reports(c, i) => KnownAt(c[i].id, t, n, "recv", done)
      BY <1>2, <2>1 DEF Named
    <3>2. /\ d[i] = c[i] /\ (Speaks(d, i) <=> Speaks(c, i)) /\ (Reports(d, i) <=> Reports(c, i))
      BY <1>1, <1>3, <2>1
    <3> QED
      BY <3>1, <3>2 DEF NamedAt, KnownAt
  <2>2. CASE i = Len(c) + 1
    <3>1. d[i].id[1] = t /\ d[i].id[2] = n /\ ~Reports(d, i)
      BY <1>1, <1>3, <1>5, <2>2
    <3> QED
      BY <3>1 DEF NamedAt
  <2> QED
    BY <1>3, <2>1, <2>2
<1>10. ASSUME NoCuts, NEW i \in 1..Len(d), Reports(d, i)
       PROVE  \E j \in 1..Len(d) :
                j < i /\ Speaks(d, j) /\ OfReply(d, i, j) /\ d[i].id[3] \in d[j].uses
  <2>1. i \in 1..Len(c) /\ d[i] = c[i] /\ Reports(c, i)
    BY <1>3, <1>10
  <2>2. PICK j \in 1..Len(c) :
          j < i /\ Speaks(c, j) /\ OfReply(c, i, j) /\ c[i].id[3] \in c[j].uses
    BY <1>2, <1>10, <2>1 DEF Paired
  <2>3. j \in 1..Len(d) /\ d[j] = c[j]
    BY <1>1
  <2> QED
    BY <2>1, <2>2, <2>3 DEF Speaks, OfReply
<1> QED
  BY <1>0, <1>6, <1>7, <1>8, <1>9, <1>10 DEF Fits, Shaped, Named, Paired

\* The next result of the reply whose calls were run.
LEMMA FitsCommit ==
  ASSUME PlaceOK, BatchOK, BatchNamed, MsgsOK, FitNow(conv), CommitResult,
         NEW a \in 1..Len(conv), LastReply(a)
  PROVE  FitNext(conv')
<1>0. PICK d : d = conv'
  OBVIOUS
<1>1. PICK k \in Uncommitted :
        /\ conv' = Append(conv, Result(ToolId(k)))
        /\ batch' = [batch EXCEPT !.done = @ \cup {k}]
  BY DEF CommitResult
<1>2. UNCHANGED <<pc, turn, calls>> /\ pc = "commit"
  BY DEF CommitResult, control
<1>3. /\ turn \in Nat /\ calls \in Nat /\ k \in Nat /\ k \notin batch.done
      /\ k \in DOMAIN batch.tools /\ batch'.done = batch.done \cup {k}
  BY <1>1, BoundsAssumption DEF PlaceOK, BatchOK, Batches, Uncommitted, BatchNamed
<1>4. PICK m \in Msgs : m = Result(ToolId(k))
  BY <1>3, AppendedTypes
<1>5. m.kind = "result" /\ m.id = <<turn, calls, k>>
  BY <1>4 DEF Result, Message, ToolId
<1>6. m.id \in Nat \X Nat \X Nat /\ m.id[1] = turn /\ m.id[2] = calls /\ m.id[3] = k
  BY <1>3, <1>5
<1>7. /\ Len(conv) \in Nat /\ Len(d) = Len(conv) + 1 /\ d[Len(conv) + 1] = m
      /\ \A i \in 1..Len(conv) : d[i] = conv[i]
  BY <1>0, <1>1, <1>4, AppendProperties, LenProperties DEF MsgsOK
<1>8. FitNext(conv)
  <2>1. NamesKept
    BY DEF NamesKept
  <2> QED
    BY <2>1, FitsStay DEF MsgsOK
<1>9. /\ Shaped(conv) /\ Named(conv, turn', calls', pc', batch'.done)
      /\ NoCuts => Paired(conv)
  BY <1>8 DEF FitNext, Fits
<1>10. ASSUME NEW i \in 1..Len(d)
       PROVE  \/ /\ i \in 1..Len(conv) /\ d[i] = conv[i] /\ i # Len(conv) + 1
                 /\ (Speaks(d, i) <=> Speaks(conv, i)) /\ (Reports(d, i) <=> Reports(conv, i))
              \/ i = Len(conv) + 1 /\ d[i] = m /\ ~Speaks(d, i) /\ Reports(d, i)
  <2>1. CASE i \in 1..Len(conv)
    BY <1>7, <2>1 DEF Speaks, Reports
  <2>2. CASE i \notin 1..Len(conv)
    <3>1. i = Len(conv) + 1
      BY <1>7, <2>2
    <3> QED
      BY <1>5, <1>7, <3>1 DEF Speaks, Reports
  <2> QED
    BY <2>1, <2>2
\* The result is not there yet: those of this reply are of calls in batch.done.
<1>11. \A i \in 1..Len(conv) : Reports(conv, i) => conv[i].id # m.id
  <2> SUFFICES ASSUME NEW i \in 1..Len(conv), Reports(conv, i), conv[i].id = m.id
               PROVE  FALSE
    OBVIOUS
  <2>1. KnownAt(conv[i].id, turn, calls, pc, batch.done)
    BY DEF FitNow, Fits, Named
  <2> QED
    BY <1>2, <1>3, <1>6, <2>1 DEF KnownAt
<1>12. ASSUME NEW i \in 1..Len(d), NEW j \in 1..Len(d), Speaks(d, i), Speaks(d, j),
              OfReply(d, i, j)
       PROVE  i = j
  <2>1. /\ i \in 1..Len(conv) /\ d[i] = conv[i] /\ Speaks(conv, i)
        /\ j \in 1..Len(conv) /\ d[j] = conv[j] /\ Speaks(conv, j)
    BY <1>10, <1>12
  <2> QED
    BY <1>9, <1>12, <2>1 DEF Shaped, OfReply
<1>13. ASSUME NEW i \in 1..Len(d), NEW j \in 1..Len(d), Reports(d, i), Speaks(d, j),
              OfReply(d, i, j)
       PROVE  j < i
  <2>1. j \in 1..Len(conv) /\ d[j] = conv[j] /\ Speaks(conv, j)
    BY <1>10, <1>13
  <2>2. CASE i \in 1..Len(conv)
    <3>1. d[i] = conv[i] /\ Reports(conv, i)
      BY <1>7, <1>10, <1>13, <2>2
    <3> QED
      BY <1>9, <1>13, <2>1, <2>2, <3>1 DEF Shaped, OfReply
  <2>3. CASE i = Len(conv) + 1
    BY <1>7, <2>1, <2>3
  <2> QED
    BY <1>10, <2>2, <2>3
<1>14. ASSUME NEW i \in 1..Len(d), NEW j \in 1..Len(d), Reports(d, i), Reports(d, j),
              d[i].id = d[j].id
       PROVE  i = j
  <2>1. CASE i \in 1..Len(conv) /\ j \in 1..Len(conv)
    <3>1. d[i] = conv[i] /\ Reports(conv, i) /\ d[j] = conv[j] /\ Reports(conv, j)
      BY <1>7, <1>10, <1>14, <2>1
    <3> QED
      BY <1>9, <1>14, <2>1, <3>1 DEF Shaped
  <2>2. CASE i \in 1..Len(conv) /\ j = Len(conv) + 1
    <3>1. d[i] = conv[i] /\ Reports(conv, i) /\ d[j] = m
      BY <1>7, <1>10, <1>14, <2>2
    <3> QED
      BY <1>11, <1>14, <2>2, <3>1
  <2>3. CASE j \in 1..Len(conv) /\ i = Len(conv) + 1
    <3>1. d[j] = conv[j] /\ Reports(conv, j) /\ d[i] = m
      BY <1>7, <1>10, <1>14, <2>3
    <3> QED
      BY <1>11, <1>14, <2>3, <3>1
  <2> QED
    BY <1>10, <2>1, <2>2, <2>3
<1>15. ASSUME NEW i \in 1..Len(d)
       PROVE  /\ Speaks(d, i) => NamedAt(d[i].id, turn', calls', pc')
              /\ Reports(d, i) => KnownAt(d[i].id, turn', calls', pc', batch'.done)
  <2>1. CASE i \in 1..Len(conv)
    <3>1. /\ d[i] = conv[i]
          /\ (Speaks(d, i) <=> Speaks(conv, i)) /\ (Reports(d, i) <=> Reports(conv, i))
      BY <1>7, <1>10, <2>1
    <3> QED
      BY <1>9, <2>1, <3>1 DEF Named
  <2>2. CASE i = Len(conv) + 1
    <3>1. ~Speaks(d, i) /\ d[i].id = m.id
      BY <1>7, <1>10, <2>2
    <3>2. KnownAt(m.id, turn', calls', pc', batch'.done)
      BY <1>2, <1>3, <1>6 DEF KnownAt
    <3> QED
      BY <3>1, <3>2
  <2> QED
    BY <1>10, <2>1, <2>2
<1>16. ASSUME NoCuts, NEW i \in 1..Len(d), Reports(d, i)
       PROVE  \E j \in 1..Len(d) :
                j < i /\ Speaks(d, j) /\ OfReply(d, i, j) /\ d[i].id[3] \in d[j].uses
  <2>0. \A j \in 1..Len(conv) : j \in 1..Len(d) /\ d[j] = conv[j]
    BY <1>7
  <2>1. CASE i \in 1..Len(conv)
    <3>1. d[i] = conv[i] /\ Reports(conv, i)
      BY <1>7, <1>10, <1>16, <2>1
    <3>2. PICK j \in 1..Len(conv) :
            j < i /\ Speaks(conv, j) /\ OfReply(conv, i, j) /\ conv[i].id[3] \in conv[j].uses
      BY <1>9, <1>16, <2>1, <3>1 DEF Paired
    <3> QED
      BY <2>0, <3>1, <3>2 DEF Speaks, OfReply
  <2>2. CASE i = Len(conv) + 1
    <3>1. d[i] = m /\ a < i
      BY <1>7, <2>2
    <3>2. d[a] = conv[a] /\ a \in 1..Len(d)
      BY <2>0
    <3>3. conv[a].kind = "assistant" /\ conv[a].id = <<turn, calls>> /\ k \in conv[a].uses
      BY <1>3 DEF LastReply, Speaks, ReplyId
    <3>4. Speaks(d, a) /\ OfReply(d, i, a) /\ d[i].id[3] \in d[a].uses
      BY <1>6, <3>1, <3>2, <3>3 DEF Speaks, OfReply
    <3> QED
      BY <3>1, <3>2, <3>4
  <2> QED
    BY <1>10, <2>1, <2>2
<1> QED
  BY <1>0, <1>12, <1>13, <1>14, <1>15, <1>16 DEF FitNext, Fits, Shaped, Named, Paired

\* The steps that only cut, blank or add what is neither a reply nor a result.
Keeps ==
  \/ EnterTurn \/ EnterTurnFails \/ SkillsFail \/ OutOfTurns \/ SeeCancelled
  \/ CompactionFails \/ PrepareCall \/ CallStreams \/ RecoverTooLong \/ TooLongFails
  \/ RecoverMaxTokens \/ MaxTokensFails \/ FallBack \/ CallFails \/ RunStopHooks
  \/ Complete \/ StopForBudget \/ RunTools \/ RunGroup \/ StopRunning
  \/ SettleAndStop \/ SettleAndGoOn \/ StartTurn \/ Cancel \/ UNCHANGED vars

LEMMA FitsKept ==
  ASSUME PlaceOK, MsgsOK, MsgsOK', FitNow(conv), Keeps
  PROVE  FitNow(conv')
<1>0. conv \in Seq(Msgs) /\ conv' \in Seq(Msgs)
  BY DEF MsgsOK
<1>1. ASSUME NEW c \in Seq(Msgs), FitNow(c), NEW d \in Seq(Msgs), Follows(d, c)
      PROVE  FitNow(d)
  BY <1>1, FitsFollows DEF FitNow
<1>2. /\ Note \in Msgs /\ Note.kind \notin {"assistant", "result"}
      /\ User(turn + 1) \in Msgs /\ User(turn + 1).kind \notin {"assistant", "result"}
  BY AppendedTypes DEF Note, User, Message
<1>3. CASE \/ EnterTurnFails \/ SkillsFail \/ OutOfTurns \/ SeeCancelled \/ CompactionFails
           \/ CallStreams \/ TooLongFails \/ MaxTokensFails \/ CallFails \/ Complete
           \/ StopForBudget \/ RunGroup \/ StopRunning \/ SettleAndStop \/ Cancel
           \/ UNCHANGED vars
  <2>1. conv' = conv
    BY <1>3 DEF EnterTurnFails, SkillsFail, OutOfTurns, SeeCancelled, CompactionFails,
       CallStreams, TooLongFails, MaxTokensFails, CallFails, Complete, StopForBudget,
       RunGroup, StopRunning, SettleAndStop, Cancel, vars
  <2> QED
    BY <2>1
<1>4. CASE RunStopHooks \/ RunTools \/ SettleAndGoOn \/ StartTurn \/ RecoverMaxTokens
  <2>1. conv \o <<>> = conv
    BY <1>0
  <2>2. conv' = conv \/ conv' = Append(conv, Note) \/ conv' = Append(conv, User(turn + 1))
    BY <1>4, <2>1 DEF RunStopHooks, RunTools, SettleAndGoOn, StartTurn, RecoverMaxTokens,
       Escalate, Continue
  <2>3. Follows(conv', conv)
    BY <1>0, <1>2, <2>2, FollowsSame, FollowsAppend
  <2> QED
    BY <1>0, <1>1, <2>3
<1>5. CASE EnterTurn \/ PrepareCall
  <2>1. PICK c \in Compacted(conv) : conv' \in Compacted(c) \/ conv' = c
    BY <1>5 DEF EnterTurn, PrepareCall
  <2>2. c \in Seq(Msgs) /\ Follows(c, conv)
    BY <1>0, CompactedType, FollowsCompacted
  <2>3. FitNow(c)
    BY <1>0, <1>1, <2>2
  <2>4. Follows(conv', c)
    BY <2>1, <2>2, FollowsSame, FollowsCompacted
  <2> QED
    BY <1>0, <1>1, <2>2, <2>3, <2>4
<1>6. CASE RecoverTooLong
  <2>1. ~NoCuts
    BY <1>6 DEF RecoverTooLong, NoCuts
  <2>2. CASE Shrinkable(conv) /\ conv' = Truncated(conv)
    <3>1. conv' \in Compacted(conv)
      BY <2>2 DEF Compacted
    <3>2. Follows(conv', conv)
      BY <1>0, <3>1, FollowsCompacted
    <3> QED
      BY <1>0, <1>1, <3>2
  <2>3. CASE Drainable(conv) /\ conv' = Drained(conv)
    <3>1. Len(conv) - MinDrainPairs * 2 \in Nat
      BY <1>0, <2>3, BoundsAssumption, LenProperties DEF Drainable
    <3>2. Follows(conv', conv)
      BY <1>0, <2>1, <2>3, <3>1, FollowsSuffix DEF Drained
    <3> QED
      BY <1>0, <1>1, <3>2
  <2> QED
    BY <1>6, <2>2, <2>3 DEF RecoverTooLong
<1>7. CASE FallBack
  <2>1. Follows(conv', conv)
    BY <1>0, <1>7, FollowsTombstoned DEF FallBack
  <2> QED
    BY <1>0, <1>1, <2>1
<1> QED
  BY <1>3, <1>4, <1>5, <1>6, <1>7 DEF Keeps

LEMMA FitsReceive ==
  ASSUME PlaceOK, BatchOK, MsgsOK, MsgsOK', NamesKept, FitNow(conv), Receive
  PROVE  FitNext(conv')
<1>0. /\ turn \in Nat /\ calls \in Nat /\ conv \in Seq(Msgs) /\ pc = "recv"
      /\ Fits(conv, turn, calls, "recv", batch.done)
  BY BoundsAssumption DEF PlaceOK, MsgsOK, Receive, FitNow
<1>1. PICK r \in Replies : StreamFails(r) \/ RecoverTruncated(r) \/ CommitReply(r)
  BY DEF Receive
<1>2. CASE StreamFails(r)
  <2>1. conv' = Sealed(conv) /\ turn' = turn /\ calls' = calls /\ pc' = "idle"
    BY <1>2 DEF StreamFails, EndTurn, control
  <2> QED
    BY <1>0, <2>1, FitsSealed DEF FitNext
<1>3. ASSUME Escalate
      PROVE  FitNext(conv')
  <2>1. conv' = conv
    BY <1>3 DEF Escalate
  <2> QED
    BY <1>0, <2>1, FitsStay
<1>4. ASSUME NEW m \in Msgs, m = Assistant(ReplyId, 0, r.text), Continue(<<m>>)
      PROVE  FitNext(conv')
  <2>1. m.kind = "assistant" /\ m.id = <<turn, calls>>
    BY <1>4 DEF Assistant, Message, ReplyId
  <2>2. /\ conv' = Append(conv \o <<m>>, Note) /\ turn' = turn /\ calls' = calls /\ pc' = "top"
    BY <1>4 DEF Continue, GoTo, control
  <2>3. PICK c \in Seq(Msgs) : c = Append(conv, m)
    BY <1>0, AppendTypes
  <2>4. conv' = Append(c, Note)
    BY <1>0, <2>2, <2>3
  <2>5. Fits(c, turn, calls, "top", batch'.done)
    BY <1>0, <2>1, <2>3, FitsReply
  <2>6. Note \in Msgs /\ Note.kind \notin {"assistant", "result"}
    BY AppendedTypes DEF Note, Message
  <2>7. Follows(conv', c) /\ conv' \in Seq(Msgs)
    BY <2>4, <2>6, FollowsAppend DEF MsgsOK
  <2>8. Fits(conv', turn, calls, "top", batch'.done)
    BY <2>5, <2>7, FitsFollows
  <2> QED
    BY <2>2, <2>8 DEF FitNext
<1>5. CASE RecoverTruncated(r)
  <2>1. Assistant(ReplyId, 0, r.text) \in Msgs
    BY AppendedTypes, StreamedType
  <2>2. Escalate \/ Continue(<<Assistant(ReplyId, 0, r.text)>>)
    BY <1>5 DEF RecoverTruncated
  <2> QED
    BY <1>3, <1>4, <2>1, <2>2
<1>6. CASE CommitReply(r)
  <2> DEFINE m == Assistant(ReplyId, Len(r.tools), r.text \/ r.tools = <<>>)
  <2>1. m \in Msgs
    <3>1. Len(r.tools) \in Nat /\ (r.text \/ r.tools = <<>>) \in BOOLEAN
      BY StreamedType
    <3> QED
      BY <3>1, AppendedTypes
  <2>2. m.kind = "assistant" /\ m.id = <<turn, calls>>
    BY DEF Assistant, Message, ReplyId
  <2>3. conv' = Append(conv, m) /\ turn' = turn /\ calls' = calls /\ pc' = "hooks"
    BY <1>6 DEF CommitReply, GoTo, control
  <2> HIDE DEF m
  <2> QED
    BY <1>0, <2>1, <2>2, <2>3, FitsReply DEF FitNext
<1> QED
  BY <1>1, <1>2, <1>5, <1>6

LEMMA ConvFits ==
  ASSUME PlaceOK, BatchOK, BatchNamed, MsgsOK, MsgsOK', AnswerInv, PairInv, [Next]_vars
  PROVE  FitNext(conv')
<1>0. /\ conv \in Seq(Msgs) /\ conv' \in Seq(Msgs) /\ snap.msgs \in Seq(Msgs)
      /\ log \in Seq(Msgs) /\ FitNow(conv) /\ FitNow(snap.msgs) /\ NamesKept
  BY EveryStepKeepsNames DEF MsgsOK, PairInv
<1>1. CASE Keeps
  <2>1. FitNow(conv')
    BY <1>0, <1>1, FitsKept
  <2> QED
    BY <1>0, <2>1, FitsStay
<1>2. CASE Receive
  BY <1>0, <1>2, FitsReceive
<1>3. CASE CommitResult
  <2>1. PICK a \in 1..Len(conv) : LastReply(a)
    BY <1>3 DEF AnswerInv, ConvSound, CommitResult, Replying
  <2> QED
    BY <1>0, <1>3, <2>1, FitsCommit
<1>4. CASE SettleCancelled \/ Panic
  <2>1. conv' = Sealed(conv) /\ turn' = turn /\ calls' = calls /\ pc' = "idle"
    BY <1>4 DEF SettleCancelled, Panic, EndTurn, control
  <2> QED
    BY <1>0, <2>1, FitsSealed DEF FitNext, FitNow
<1>5. CASE Crash
  <2>1. conv' = <<>> /\ Len(<<>>) = 0
    BY <1>5 DEF Crash
  <2>2. \A i \in 1..Len(conv') : ~Speaks(conv', i) /\ ~Reports(conv', i)
    BY <2>1
  <2> QED
    BY <2>2, FitsNothing DEF FitNext
<1>6. CASE Resume
  <2>1. conv' = Sealed(Loaded) /\ turn' = turn /\ calls' = calls /\ pc' = "idle"
    BY <1>6 DEF Resume, control
  <2>2. FitNow(Loaded) /\ Loaded \in Seq(Msgs)
    <3>1. CASE snap.exists
      BY <1>0, <3>1 DEF Loaded
    <3>2. CASE ~snap.exists
      <4>1. \A i \in 1..Len(log) : ~Speaks(log, i) /\ ~Reports(log, i)
        BY <3>2 DEF PairInv, AnswerInv, StoreSound
      <4> QED
        BY <1>0, <3>2, <4>1, FitsNothing DEF FitNow, Loaded
    <3> QED
      BY <3>1, <3>2
  <2> QED
    BY <2>1, <2>2, FitsSealed DEF FitNext, FitNow
<1> QED
  BY <1>1, <1>2, <1>3, <1>4, <1>5, <1>6 DEF Next, LoopStep, Keeps

\* The snapshot is left, or is of the conversation before or after the step.
LEMMA SnapFrom == [Next]_vars => UNCHANGED snap \/ SaveSnapshot(conv) \/ SaveSnapshot(conv')
<1> SUFFICES ASSUME [Next]_vars
             PROVE  UNCHANGED snap \/ SaveSnapshot(conv) \/ SaveSnapshot(conv')
  OBVIOUS
<1> USE DEF store
<1>1. CASE EndsTurn
  BY <1>1 DEF EndsTurn, EndTurn, EnterTurnFails, SkillsFail, OutOfTurns, SeeCancelled,
     CompactionFails, TooLongFails, MaxTokensFails, CallFails, Complete, SettleCancelled,
     SettleAndStop, Panic
<1>2. CASE EnterTurn \/ PrepareCall \/ CallStreams \/ RecoverTooLong \/ RecoverMaxTokens
           \/ FallBack \/ SettleAndGoOn
  BY <1>2 DEF EnterTurn, PrepareCall, CallStreams, RecoverTooLong, RecoverMaxTokens,
     Escalate, Continue, FallBack, SettleAndGoOn
<1>3. CASE Receive
  BY <1>3 DEF Receive, StreamFails, RecoverTruncated, CommitReply, Escalate, Continue
<1>4. CASE \/ RunStopHooks \/ StopForBudget \/ RunTools \/ RunGroup \/ StopRunning
           \/ CommitResult \/ StartTurn \/ Cancel \/ Crash \/ Resume \/ UNCHANGED vars
  BY <1>4 DEF RunStopHooks, StopForBudget, RunTools, RunGroup, StopRunning, CommitResult,
     StartTurn, Cancel, Crash, Resume, vars
<1> QED
  BY <1>1, <1>2, <1>3, <1>4 DEF Next, LoopStep, EndsTurn

\* No tool has been run before there is a snapshot.
LEMMA LogWaits ==
  ASSUME PlaceOK, MsgsOK, MsgsOK', AnswerInv, PairInv, [Next]_vars, ~snap'.exists
  PROVE  \A i \in 1..Len(log') : ~Reports(log', i)
<1>1. ~snap.exists
  BY SnapFrom DEF SaveSnapshot, Saved
<1>2. pc \in {"idle", "begun", "down"} /\ \A i \in 1..Len(log) : ~Reports(log, i)
  BY <1>1 DEF PairInv, AnswerInv, StoreSound
<1>3. UNCHANGED log \/ log' = Append(log, User(turn + 1))
  <2> USE DEF store
  <2>1. CASE EndsTurn
    BY <1>2, <2>1 DEF EndsTurn, EnterTurnFails, SkillsFail, OutOfTurns, SeeCancelled,
       CompactionFails, TooLongFails, MaxTokensFails, CallFails, Complete,
       SettleCancelled, SettleAndStop, Panic
  <2>2. CASE \/ EnterTurn \/ StartTurn \/ Cancel \/ Crash \/ Resume \/ UNCHANGED vars
    BY <2>2 DEF EnterTurn, StartTurn, Cancel, Crash, Resume, vars
  <2>3. ~(\/ PrepareCall \/ CallStreams \/ RecoverTooLong \/ RecoverMaxTokens \/ FallBack
          \/ Receive \/ RunStopHooks \/ StopForBudget \/ RunTools \/ RunGroup \/ StopRunning
          \/ CommitResult \/ SettleAndGoOn)
    BY <1>2 DEF PrepareCall, CallStreams, RecoverTooLong, RecoverMaxTokens, FallBack,
       Receive, RunStopHooks, StopForBudget, RunTools, RunGroup, StopRunning,
       CommitResult, SettleAndGoOn
  <2> QED
    BY <2>1, <2>2, <2>3 DEF Next, LoopStep, EndsTurn
<1>4. CASE UNCHANGED log
  BY <1>2, <1>4 DEF Reports
<1>5. CASE log' = Append(log, User(turn + 1))
  <2>1. User(turn + 1) \in Msgs /\ User(turn + 1).kind = "user" /\ log \in Seq(Msgs)
    BY AppendedTypes DEF User, Message, MsgsOK
  <2>2. /\ Len(log) \in Nat /\ Len(log') = Len(log) + 1
        /\ log'[Len(log) + 1] = User(turn + 1)
        /\ \A i \in 1..Len(log) : log'[i] = log[i]
    BY <1>5, <2>1, AppendProperties, LenProperties
  <2>3. \A i \in 1..Len(log') : i \in 1..Len(log) \/ i = Len(log) + 1
    BY <2>2
  <2> QED
    BY <1>2, <2>1, <2>2, <2>3 DEF Reports
<1> QED
  BY <1>3, <1>4, <1>5

LEMMA PairStep ==
  ASSUME PlaceOK, BatchOK, BatchNamed, MsgsOK, MsgsOK', AnswerInv, PairInv, [Next]_vars
  PROVE  PairInv'
<1>1. FitNext(conv')
  BY ConvFits
<1>2. FitNext(snap'.msgs)
  <2>1. NamesKept /\ conv \in Seq(Msgs) /\ snap.msgs \in Seq(Msgs)
    BY EveryStepKeepsNames DEF MsgsOK
  <2>2. FitNext(conv) /\ FitNext(snap.msgs)
    BY <2>1, FitsStay DEF PairInv
  <2>3. snap'.msgs \in {snap.msgs, conv, conv'}
    BY SnapFrom DEF SaveSnapshot, Saved
  <2> QED
    BY <1>1, <2>2, <2>3
<1>3. ~snap'.exists => \A i \in 1..Len(log') : ~Reports(log', i)
  BY LogWaits
<1>4. (~snap.exists => \A i \in 1..Len(log) : ~Reports(log, i))'
  BY <1>3 DEF Reports
<1> QED
  BY <1>1, <1>2, <1>4, FitPrimed DEF PairInv

LEMMA PairHolds == Spec => []PairInv
<1>1. Init => BatchNamed /\ PairInv
  <2> SUFFICES ASSUME Init PROVE BatchNamed /\ PairInv
    OBVIOUS
  <2>1. BatchNamed
    BY DEF Init, NoBatch, BatchNamed
  <2>2. /\ \A i \in 1..Len(conv) : ~Speaks(conv, i) /\ ~Reports(conv, i)
        /\ \A i \in 1..Len(snap.msgs) : ~Speaks(snap.msgs, i) /\ ~Reports(snap.msgs, i)
        /\ \A i \in 1..Len(log) : ~Reports(log, i)
    BY DEF Init, NoSnap
  <2> QED
    BY <2>1, <2>2, FitsNothing DEF PairInv, FitNow
<1>2. IInv => PlaceOK /\ BatchOK /\ MsgsOK
  BY DEF IInv
<1>3. /\ BatchOK /\ BatchNamed /\ [Next]_vars => BatchNamed'
      /\ (PlaceOK /\ BatchOK /\ BatchNamed /\ MsgsOK /\ MsgsOK' /\ AnswerInv /\ PairInv
          /\ [Next]_vars => PairInv')
  BY BatchNamedStep, PairStep
<1> QED
  BY <1>1, <1>2, <1>3, IInvHolds, AnswerHolds, PTL DEF Spec

\* No call is answered twice in a conversation, cut or not: a seal is not added to
\* a result that is there, nor a result to a seal.
AnsweredOnce ==
  \A i, j \in At(conv, "result") : conv[i].id = conv[j].id => i = j

THEOREM NoSecondAnswer == Spec => []AnsweredOnce
<1>1. ASSUME MsgsOK, PairInv PROVE AnsweredOnce
  <2>1. DOMAIN conv = 1..Len(conv)
    BY <1>1, LenProperties DEF MsgsOK
  <2> QED
    BY <1>1, <2>1 DEF PairInv, FitNow, Fits, Shaped, Reports, At, AnsweredOnce
<1>2. IInv => MsgsOK
  BY DEF IInv
<1> QED
  BY <1>1, <1>2, IInvHolds, PairHolds, PTL

\* Without cuts what is sent to the model pairs up: each result answers a call of an
\* earlier reply and no call has two, through fallbacks, seals, crashes and resumes.
\* A cut from the front may leave a result whose call it took.
THEOREM RequestsPaired == ASSUME NoCuts PROVE Spec => []RequestWellFormed
<1>1. ASSUME MsgsOK, PairInv PROVE RequestWellFormed
  <2> DEFINE Answered(m) == {k \in m.uses : <<m.id[1], m.id[2], k>> \in ResultsIn(conv)}
             Pruned(m) == IF m.kind = "assistant" THEN [m EXCEPT !.uses = Answered(m)] ELSE m
             sent == {i \in DOMAIN conv :
                        /\ conv[i].kind # "tombstone"
                        /\ conv[i].kind = "assistant" => conv[i].ok \/ Answered(conv[i]) # {}}
             req == Request(conv)
  <2>1. DOMAIN conv = 1..Len(conv) /\ \A i \in 1..Len(conv) : conv[i] \in Msgs
    BY <1>1, LenProperties, ElementOfSeq DEF MsgsOK
  <2>2. /\ Shaped(conv) /\ Paired(conv)
        /\ Named(conv, turn, calls, pc, batch.done)
    BY <1>1 DEF PairInv, FitNow, Fits
  <2>3. DOMAIN req = sent /\ \A i \in sent : req[i] = Pruned(conv[i])
    BY DEF Request
  <2>4. \A i \in sent : req[i].kind = conv[i].kind /\ req[i].id = conv[i].id
    <3>1. ASSUME NEW i \in sent
          PROVE  Pruned(conv[i]).kind = conv[i].kind /\ Pruned(conv[i]).id = conv[i].id
      <4>1. conv[i] \in Messages
        BY <2>1 DEF Msgs
      <4> QED
        BY <4>1 DEF Messages
    <3> QED
      BY <2>3, <3>1
  <2>5. \A i \in sent : conv[i].kind = "assistant" => req[i].uses = Answered(conv[i])
    <3>1. ASSUME NEW i \in sent, conv[i].kind = "assistant"
          PROVE  Pruned(conv[i]).uses = Answered(conv[i])
      <4>1. conv[i] \in Messages
        BY <2>1 DEF Msgs
      <4> QED
        BY <3>1, <4>1 DEF Messages
    <3> QED
      BY <2>3, <3>1
  <2> HIDE DEF req
  <2>6. \A i \in At(req, "result") : i \in 1..Len(conv) /\ i \in sent /\ Reports(conv, i)
    BY <2>1, <2>3, <2>4 DEF At, Reports
  <2>7. ASSUME NEW i \in At(req, "result")
        PROVE  \E j \in At(req, "assistant") : j < i /\ req[i].id \in Uses(req[j])
    <3>1. PICK j \in 1..Len(conv) : /\ j < i /\ Speaks(conv, j) /\ OfReply(conv, i, j)
                                    /\ conv[i].id[3] \in conv[j].uses
      BY <2>2, <2>6 DEF Paired
    <3>2. conv[i].id \in Nat \X Nat \X Nat
      BY <2>2, <2>6 DEF Named, KnownAt
    <3>3. conv[i].id = <<conv[j].id[1], conv[j].id[2], conv[i].id[3]>>
      BY <3>1, <3>2 DEF OfReply
    <3>4. conv[i].id \in ResultsIn(conv)
      BY <2>1, <2>6 DEF ResultsIn, At, Reports
    <3>5. conv[i].id[3] \in Answered(conv[j])
      BY <3>1, <3>3, <3>4
    <3>6. j \in sent /\ conv[j].kind = "assistant"
      BY <2>1, <3>1, <3>5 DEF Speaks
    <3>7. j \in At(req, "assistant") /\ conv[i].id[3] \in req[j].uses
      BY <2>3, <2>4, <2>5, <3>5, <3>6 DEF At
    <3>8. req[i].id = conv[i].id /\ req[j].id = conv[j].id
      BY <2>4, <2>6, <3>6
    <3>9. req[i].id \in Uses(req[j])
      <4>1. req[i].id = <<req[j].id[1], req[j].id[2], conv[i].id[3]>>
        BY <3>3, <3>8
      <4> QED
        BY <3>7, <4>1 DEF Uses
    <3> QED
      BY <3>1, <3>7, <3>9
  <2>8. ASSUME NEW i \in At(req, "result"), NEW j \in At(req, "result"),
               req[j].id = req[i].id
        PROVE  j = i
    <3>1. conv[j].id = conv[i].id /\ Reports(conv, i) /\ Reports(conv, j)
      BY <2>4, <2>6, <2>8
    <3> QED
      BY <2>2, <2>6, <3>1 DEF Shaped
  <2> QED
    BY <2>7, <2>8 DEF RequestWellFormed, req
<1>2. IInv => MsgsOK
  BY DEF IInv
<1> QED
  BY <1>1, <1>2, IInvHolds, PairHolds, PTL
=============================================================================
