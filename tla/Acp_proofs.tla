------------------------------ MODULE Acp_proofs ------------------------------
(***************************************************************************)
(* Proofs about AcpConn and about AcpServe, which composes it with the     *)
(* handlers of the agent: for any number of requests, notifications, calls *)
(* and sessions, any limits and any faults.  AcpServe's assumption only    *)
(* names the methods of the handlers, of which there may be none, so it    *)
(* takes nothing from what is said of AcpConn.                             *)
(*                                                                         *)
(* Three invariants of AcpConn beside the types follow a call of Request    *)
(* and its channel, a request of the peer from the stream to its answer,   *)
(* and the notifications from the stream to the worker; two of AcpServe    *)
(* follow the session and its turn.                                        *)
(***************************************************************************)
EXTENDS AcpServe, FiniteSetTheorems, SequenceTheorems, TLAPS

\* The loop pushes notifications only.
PushesNotes == loop = "pushing" => inHand.id \in Notes

TypeInv == TypeOK /\ PushesNotes

\* An id belongs to one call, and everything under it to that call.
CallInv ==
  /\ \A c \in Callers : id[c] <= nextID /\ (call[c] = "idle" => id[c] = 0)
  /\ \A c, d \in Callers : id[c] # 0 /\ id[c] = id[d] => c = d
  /\ \A c \in pending : id[c] # 0 /\ slot[c] = Empty
  /\ \A c \in Callers : slot[c] \in {Empty, Closed, id[c]} /\ (slot[c] # Empty => id[c] # 0)
  /\ \A c \in Callers : answer[c] # 0 => answer[c] = id[c]
  /\ loop = "routing" =>
       \E c \in Callers \ pending : id[c] # 0 /\ id[c] = inHand.id /\ slot[c] = Empty
  /\ NoEntryLeaked

\* A request is taken off the stream once, and answered once.
ServeInv ==
  /\ \A i, j \in 1..Len(inbox) :
       inbox[i].kind \in {"request", "malformed"} /\ inbox[i] = inbox[j] => i = j
  /\ \A i \in 1..Len(inbox) : \A h \in Inbound :
       inbox[i] = Request(h) => h \notin unsent /\ written[h] = 0
                                /\ (h \in Handlers => handler[h] = "none")
  /\ \A h \in unsent : written[h] = 0 /\ (h \in Handlers => handler[h] = "none")
  /\ \A h \in Inbound : written[h] <= 1
  /\ \A h \in Handlers : handler[h] # "answered" => written[h] = 0
  /\ \A h \in Handlers : handler[h] = "answered" => written[h] = 1 \/ writer = "broken"
  /\ loop = "done" => cancelled \/ InFlight = {}

-----------------------------------------------------------------------------
LEMMA NotesAreNumbers == Notes \subseteq Nat /\ MaxNotes \in Nat
  BY ConnAssumption DEF Notes

LEMMA HandlersInbound == /\ Handlers \subseteq Inbound /\ Handlers \subseteq Callers
                         /\ Malformed \subseteq Inbound /\ Handlers \cap Malformed = {}
  BY ConnAssumption DEF Handlers, Callers

LEMMA CallersFinite == IsFiniteSet(Callers) /\ Cardinality(Callers) \in Nat
<1>1. IsFiniteSet(Handlers)
  BY ConnAssumption, FS_Difference DEF Handlers
<1>2. IsFiniteSet(Callers)
  BY <1>1, ConnAssumption, FS_Union DEF Callers
<1> QED
  BY <1>2, FS_CardinalityType

LEMMA MessageTypes ==
  /\ \A h \in Inbound : Request(h) \in Message
  /\ \A n \in Notes : Note(n) \in Message
  /\ \A i \in 1..Cardinality(Callers) : i \in Nat /\ i # 0 /\ Response(i) \in Message
<1>1. \A h \in Inbound : Request(h) \in Message
  BY DEF Request, Message
<1>2. \A n \in Notes : Note(n) \in Message
  BY DEF Note, Message
<1>3. \A i \in 1..Cardinality(Callers) : i \in Nat /\ i # 0 /\ Response(i) \in Message
  BY CallersFinite DEF Response, Message
<1> QED
  BY <1>1, <1>2, <1>3

-----------------------------------------------------------------------------
(* Types.                                                                  *)

LEMMA InitTypes == Init => TypeInv
<1> SUFFICES ASSUME Init PROVE TypeInv
  OBVIOUS
<1> USE DEF Init
<1>1. /\ worker \subseteq Notes /\ Cardinality(worker) <= 1
      /\ notes \in Seq(Notes) /\ Len(notes) <= Backlog /\ served \in Seq(Notes)
  BY FS_EmptySet, ConnAssumption
<1>2. noted \in 0..MaxNotes /\ replies \in 0..MaxAnswers /\ inbox \in Seq(Message)
  BY ConnAssumption
<1>3. TypeOK
  BY <1>1, <1>2 DEF TypeOK, Empty
<1> QED
  BY <1>3 DEF TypeInv, PushesNotes

LEMMA PeerTypes == TypeInv /\ Peer => TypeInv'
<1> SUFFICES ASSUME TypeInv, Peer PROVE TypeInv'
  OBVIOUS
<1> USE DEF TypeInv, TypeOK, PushesNotes, Room, loopVars, noteVars, callVars
<1>1. ASSUME NEW h \in Inbound, PeerRequests(h) PROVE TypeInv'
  BY <1>1, MessageTypes DEF PeerRequests
<1>2. CASE PeerNotifies
  <2>1. noted + 1 \in 0..MaxNotes /\ noted + 1 \in Notes
    BY <1>2, ConnAssumption DEF PeerNotifies, Notes
  <2>2. inbox' \in Seq(Message) /\ noted' \in 0..MaxNotes
    BY <1>2, <2>1, MessageTypes DEF PeerNotifies
  <2> QED
    BY <1>2, <2>2 DEF PeerNotifies
<1>3. ASSUME NEW i \in 1..Cardinality(Callers), PeerAnswers(i) PROVE TypeInv'
  <2>1. replies + 1 \in 0..MaxAnswers
    BY <1>3, ConnAssumption DEF PeerAnswers
  <2> QED
    BY <1>3, <2>1, MessageTypes DEF PeerAnswers
<1>4. CASE PeerCloses
  <2>1. inbox' \in Seq(Message)
    <3>1. <<>> \in Seq(Message)
      OBVIOUS
    <3> QED
      BY <1>4, <3>1 DEF PeerCloses
  <2> QED
    BY <1>4, <2>1 DEF PeerCloses
<1>5. ASSUME NEW w \in {"ok"} \cup Faults, WriterTurns(w) PROVE TypeInv'
  BY <1>5, ConnAssumption DEF WriterTurns
<1> QED
  BY <1>1, <1>2, <1>3, <1>4, <1>5 DEF Peer

\* What the loop takes off the stream is a message.
LEMMA ReadTypes ==
  ASSUME TypeInv, NEW m, Reads(m)
  PROVE  m \in Message /\ inbox' \in Seq(Message)
  BY DEF TypeInv, TypeOK, Reads

LEMMA LoopTypes == TypeInv /\ Loop => TypeInv'
<1> SUFFICES ASSUME TypeInv, Loop PROVE TypeInv'
  OBVIOUS
<1> USE DEF TypeInv, TypeOK, PushesNotes, peerVars, loopVars, noteVars, callVars
<1>1. ASSUME NEW h \in Handlers, ReadRequest(h) PROVE TypeInv'
  BY <1>1, ReadTypes DEF ReadRequest
<1>2. ASSUME NEW h \in Malformed, ReadMalformed(h) PROVE TypeInv'
  BY <1>2, ReadTypes, HandlersInbound DEF ReadMalformed, WritesAnswer
<1>3. ASSUME NEW n \in Notes, ReadNote(n) PROVE TypeInv'
  BY <1>3, ReadTypes, MessageTypes DEF ReadNote, Note
<1>4. ASSUME NEW i \in 1..Cardinality(Callers), ReadResponse(i) PROVE TypeInv'
  <2>1. inbox' \in Seq(Message) /\ Response(i) \in Message
    BY <1>4, ReadTypes, MessageTypes DEF ReadResponse
  <2>2. inHand' \in Message \cup {Nothing} /\ loop' \in {"reading", "routing"}
    BY <1>4, <2>1 DEF ReadResponse, Reads
  <2> QED
    BY <1>4, <2>1, <2>2 DEF ReadResponse
<1>5. CASE Push
  BY <1>5, ConnAssumption DEF Push, Nothing
<1>6. CASE PushGivesUp
  BY <1>6 DEF PushGivesUp, Nothing
<1>7. ASSUME NEW c \in Callers, Route(c) PROVE TypeInv'
  BY <1>7 DEF Route, Nothing
<1>8. CASE Stop
  BY <1>8 DEF Stop
<1>9. CASE FailPending
  BY <1>9 DEF FailPending
<1>10. CASE DrainInFlight
  BY <1>10 DEF DrainInFlight
<1> QED
  BY <1>1, <1>2, <1>3, <1>4, <1>5, <1>6, <1>7, <1>8, <1>9, <1>10 DEF Loop

LEMMA WorkerTypes == TypeInv /\ Worker => TypeInv'
<1> SUFFICES ASSUME TypeInv, Worker PROVE TypeInv'
  OBVIOUS
<1> USE DEF TypeInv, TypeOK, PushesNotes, peerVars, loopVars, callVars
<1>1. CASE TakeNote
  <2>1. /\ Head(notes) \in Notes /\ Tail(notes) \in Seq(Notes)
        /\ Len(Tail(notes)) <= Backlog
    BY <1>1, ConnAssumption DEF TakeNote
  <2>2. Cardinality({Head(notes)}) = 1
    BY FS_Singleton
  <2> QED
    BY <1>1, <2>1, <2>2 DEF TakeNote
<1>2. ASSUME NEW n \in Notes, FinishNote(n) PROVE TypeInv'
  <2>1. IsFiniteSet(worker)
    <3>1. IsFiniteSet(Notes)
      BY ConnAssumption, FS_Interval DEF Notes
    <3> QED
      BY <3>1, FS_Subset
  <2>2. Cardinality(worker \ {n}) <= Cardinality(worker)
    BY <2>1, FS_Subset
  <2>3. Cardinality(worker) \in Nat /\ Cardinality(worker \ {n}) \in Nat
    BY <2>1, FS_RemoveElement, FS_CardinalityType
  <2> QED
    BY <1>2, <2>2, <2>3 DEF FinishNote
<1> QED
  BY <1>1, <1>2 DEF Worker

LEMMA CallTypes ==
  ASSUME TypeInv, NEW c \in Callers, Register(c) \/ CallSteps(c) \/ GiveUp(c)
  PROVE  TypeInv'
<1> USE DEF TypeInv, TypeOK, PushesNotes, peerVars, loopVars, noteVars
<1>1. CASE Register(c)
  <2>1. CASE closed
    BY <1>1, <2>1 DEF Register
  <2>2. CASE ~closed
    <3>1. /\ id' \in [Callers -> Nat] /\ nextID' \in Nat /\ pending' \subseteq Callers
          /\ call' = [call EXCEPT ![c] = "sending"]
      <4>1. nextID' = nextID + 1 /\ Enter(c, nextID + 1)
        BY <1>1, <2>2, Zenon DEF Register
      <4> QED
        BY <4>1 DEF Enter
    <3>2. UNCHANGED <<peerVars, inbox, written, loopVars, noteVars, handler, slot, answer>>
      BY <1>1 DEF Register
    <3> QED
      BY <3>1, <3>2
  <2> QED
    BY <2>1, <2>2
<1>2. CASE SendCall(c)
  BY <1>2 DEF SendCall
<1>3. CASE Receive(c)
  BY <1>3 DEF Receive, Empty, Closed
<1>4. CASE GiveUp(c)
  BY <1>4 DEF GiveUp
<1>5. CASE Reclaim(c)
  BY <1>5 DEF Reclaim
<1> QED
  BY <1>1, <1>2, <1>3, <1>4, <1>5 DEF CallSteps

LEMMA HandlerTypes ==
  ASSUME TypeInv, NEW h \in Handlers, Notify(h) \/ NotifyWrites(h) \/ Answer(h)
  PROVE  TypeInv'
<1> USE DEF TypeInv, TypeOK, PushesNotes, peerVars, loopVars, noteVars, callVars
<1>1. CASE Notify(h)
  BY <1>1 DEF Notify
<1>2. CASE NotifyWrites(h)
  BY <1>2 DEF NotifyWrites
<1>3. CASE Answer(h)
  BY <1>3, HandlersInbound DEF Answer, WritesAnswer
<1> QED
  BY <1>1, <1>2, <1>3

LEMMA StepTypes == TypeInv /\ [Next]_vars => TypeInv'
<1> SUFFICES ASSUME TypeInv, [Next]_vars PROVE TypeInv'
  OBVIOUS
<1>1. CASE Cancel
  BY <1>1 DEF Cancel, TypeInv, TypeOK, PushesNotes, peerVars, noteVars, callVars
<1>2. CASE UNCHANGED vars
  BY <1>2 DEF vars, TypeInv, TypeOK, PushesNotes, peerVars, loopVars, noteVars, callVars
<1> QED
  BY <1>1, <1>2, PeerTypes, LoopTypes, WorkerTypes, CallTypes, HandlerTypes DEF Next

LEMMA AlwaysTypes == Spec => []TypeInv
  BY InitTypes, StepTypes, PTL DEF Spec

(* Every variable keeps its type: in particular the channel of             *)
(* notifications stays within its capacity and the worker has at most one. *)
THEOREM TypeCorrect == Spec => []TypeOK
<1>1. TypeInv => TypeOK
  BY DEF TypeInv
<1> QED
  BY <1>1, AlwaysTypes, PTL

-----------------------------------------------------------------------------
(* A call and its channel.                                                 *)

LEMMA InitCalls == Init => CallInv
  BY DEF Init, CallInv, Empty, Closed, NoEntryLeaked

\* Steps that leave the calls alone and put no response in the loop's hands.
LEMMA CallsKept ==
  ASSUME CallInv, UNCHANGED callVars, UNCHANGED closed,
         loop' # "routing" \/ UNCHANGED <<loop, inHand>>
  PROVE  CallInv'
  BY DEF CallInv, callVars, NoEntryLeaked

LEMMA ResponseCalls ==
  ASSUME TypeInv, CallInv, NEW i \in 1..Cardinality(Callers), ReadResponse(i)
  PROVE  CallInv'
<1> USE DEF TypeInv, TypeOK, CallInv, NoEntryLeaked, ReadResponse
<1>1. i # 0
  BY MessageTypes
<1>2. CASE Waiting(i) = {}
  BY <1>2 DEF Reads
<1>3. CASE Waiting(i) # {}
  <2>1. PICK c \in pending : id[c] = i
    BY <1>3 DEF Waiting
  <2>2. c \in Callers \ pending' /\ slot'[c] = Empty /\ id'[c] = inHand'.id /\ id'[c] # 0
    BY <1>1, <1>3, <2>1 DEF Waiting, Response
  <2>3. pending' \subseteq pending /\ UNCHANGED <<call, id, nextID, slot, answer, closed>>
    BY DEF Waiting
  <2> QED
    BY <2>2, <2>3
<1> QED
  BY <1>2, <1>3

LEMMA RouteCalls ==
  ASSUME TypeInv, CallInv, NEW c \in Callers, Route(c)
  PROVE  CallInv'
<1> USE DEF TypeInv, TypeOK, CallInv, NoEntryLeaked, Route
<1>1. PICK d \in Callers \ pending : id[d] # 0 /\ id[d] = inHand.id
  OBVIOUS
<1>2. c = d
  BY <1>1
<1>3. slot' = [slot EXCEPT ![c] = id[c]] /\ id[c] # 0 /\ c \notin pending
  BY <1>1, <1>2
<1> QED
  BY <1>3

LEMMA FailCalls ==
  ASSUME TypeInv, CallInv, FailPending
  PROVE  CallInv'
  BY DEF TypeInv, TypeOK, CallInv, NoEntryLeaked, FailPending

LEMMA LoopCalls == TypeInv /\ CallInv /\ Loop => CallInv'
<1> SUFFICES ASSUME TypeInv, CallInv, Loop PROVE CallInv'
  OBVIOUS
<1>1. ASSUME NEW h \in Handlers, ReadRequest(h) PROVE CallInv'
  BY <1>1, CallsKept DEF ReadRequest, loopVars
<1>2. ASSUME NEW h \in Malformed, ReadMalformed(h) PROVE CallInv'
  BY <1>2, CallsKept DEF ReadMalformed, loopVars
<1>3. ASSUME NEW n \in Notes, ReadNote(n) PROVE CallInv'
  BY <1>3, CallsKept DEF ReadNote
<1>4. CASE Push \/ PushGivesUp \/ Stop \/ DrainInFlight
  BY <1>4, CallsKept DEF Push, PushGivesUp, Stop, DrainInFlight
<1> QED
  BY <1>1, <1>2, <1>3, <1>4, ResponseCalls, RouteCalls, FailCalls DEF Loop

\* A new id is above all others.
LEMMA RegisterCalls ==
  ASSUME TypeInv, CallInv, NEW c \in Callers, Register(c)
  PROVE  CallInv'
<1> USE DEF TypeInv, TypeOK, CallInv, NoEntryLeaked
<1>1. UNCHANGED <<slot, answer, loop, inHand, closed>> /\ call[c] = "idle"
  BY DEF Register, loopVars
<1>2. CASE closed
  <2>1. UNCHANGED <<id, nextID, pending>> /\ call' = [call EXCEPT ![c] = "done"]
    BY <1>2 DEF Register
  <2>2. c \notin pending
    BY <1>1
  <2> QED
    BY <1>1, <2>1, <2>2
<1>3. CASE ~closed
  <2>1. /\ nextID' = nextID + 1 /\ id' = [id EXCEPT ![c] = nextID + 1]
        /\ pending' = pending \cup {c} /\ call' = [call EXCEPT ![c] = "sending"]
    <3>1. nextID' = nextID + 1 /\ Enter(c, nextID + 1)
      BY <1>3, Zenon DEF Register
    <3> QED
      BY <3>1 DEF Enter
  <2>2. id[c] = 0 /\ slot[c] = Empty /\ answer[c] = 0 /\ c \notin pending
    BY <1>1 DEF Empty
  <2>3. \A d \in Callers : id[d] <= nextID
    OBVIOUS
  <2>4. \A d \in Callers : id'[d] <= nextID' /\ (call'[d] = "idle" => id'[d] = 0)
    BY <2>1, <2>3
  <2>5. \A d, e \in Callers : id'[d] # 0 /\ id'[d] = id'[e] => d = e
    BY <2>1, <2>3
  <2>6. \A d \in pending' : /\ id'[d] # 0 /\ slot'[d] = Empty /\ ~closed'
                            /\ call'[d] \in {"sending", "waiting", "reclaiming"}
    BY <1>1, <1>3, <2>1, <2>2
  <2>7. \A d \in Callers :
          slot'[d] \in {Empty, Closed, id'[d]} /\ (slot'[d] # Empty => id'[d] # 0)
    BY <1>1, <2>1, <2>2
  <2>8. \A d \in Callers : answer'[d] # 0 => answer'[d] = id'[d]
    BY <1>1, <2>1, <2>2
  <2>9. loop' = "routing" =>
          \E d \in Callers \ pending' :
             id'[d] # 0 /\ id'[d] = inHand'.id /\ slot'[d] = Empty
    <3> SUFFICES ASSUME loop = "routing"
                 PROVE  \E d \in Callers \ pending' :
                           id'[d] # 0 /\ id'[d] = inHand'.id /\ slot'[d] = Empty
      BY <1>1
    <3>1. PICK d \in Callers \ pending : id[d] # 0 /\ id[d] = inHand.id /\ slot[d] = Empty
      OBVIOUS
    <3>2. d # c
      BY <2>2, <3>1
    <3> QED
      BY <1>1, <2>1, <3>1, <3>2
  <2> QED
    BY <2>4, <2>5, <2>6, <2>7, <2>8, <2>9
<1> QED
  BY <1>2, <1>3

LEMMA WaitCalls ==
  ASSUME TypeInv, CallInv, NEW c \in Callers, CallSteps(c) \/ GiveUp(c)
  PROVE  CallInv'
<1> USE DEF TypeInv, TypeOK, CallInv, NoEntryLeaked, loopVars
<1>1. CASE SendCall(c) \/ GiveUp(c)
  <2>1. UNCHANGED <<id, nextID, pending, slot, answer, loop, inHand, closed>>
    BY <1>1 DEF SendCall, GiveUp
  <2>2. \E s \in {"waiting", "reclaiming"} : call' = [call EXCEPT ![c] = s]
    BY <1>1 DEF SendCall, GiveUp
  <2> QED
    BY <2>1, <2>2
<1>2. CASE Receive(c)
  <2>1. /\ UNCHANGED <<id, nextID, pending, loop, inHand, closed>>
        /\ call' = [call EXCEPT ![c] = "reclaiming"] /\ c \notin pending
    BY <1>2 DEF Receive
  <2>2. /\ slot[c] \in {Closed, id[c]} /\ id[c] # 0 /\ slot[c] # Empty
        /\ \E v \in {0, id[c]} : answer' = [answer EXCEPT ![c] = v]
        /\ \E v \in {Empty, Closed} : slot' = [slot EXCEPT ![c] = v]
    BY <1>2 DEF Receive
  <2>3. loop' = "routing" =>
          \E d \in Callers \ pending' :
             id'[d] # 0 /\ id'[d] = inHand'.id /\ slot'[d] = Empty
    BY <2>1, <2>2
  <2> QED
    BY <2>1, <2>2, <2>3 DEF Empty
<1>3. CASE Reclaim(c)
  <2>1. /\ UNCHANGED <<id, nextID, slot, answer, loop, inHand, closed>>
        /\ call' = [call EXCEPT ![c] = "done"] /\ pending' = pending \ {c}
    BY <1>3 DEF Reclaim
  <2> QED
    BY <2>1
<1> QED
  BY <1>1, <1>2, <1>3 DEF CallSteps

LEMMA StepCalls == TypeInv /\ CallInv /\ [Next]_vars => CallInv'
<1> SUFFICES ASSUME TypeInv, CallInv, [Next]_vars PROVE CallInv'
  OBVIOUS
<1>1. CASE Peer
  <2>1. UNCHANGED callVars /\ UNCHANGED loopVars
    BY <1>1 DEF Peer, PeerRequests, PeerNotifies, PeerAnswers, PeerCloses, WriterTurns
  <2> QED
    BY <2>1, CallsKept DEF loopVars
<1>2. CASE Cancel
  BY <1>2, CallsKept DEF Cancel
<1>3. CASE Worker
  BY <1>3, CallsKept DEF Worker, TakeNote, FinishNote, loopVars
<1>4. ASSUME NEW h \in Handlers, Notify(h) \/ NotifyWrites(h) \/ Answer(h) PROVE CallInv'
  BY <1>4, CallsKept DEF Notify, NotifyWrites, Answer, loopVars
<1>5. CASE UNCHANGED vars
  BY <1>5, CallsKept DEF vars, loopVars
<1> QED
  BY <1>1, <1>2, <1>3, <1>4, <1>5, LoopCalls, RegisterCalls, WaitCalls DEF Next

LEMMA AlwaysCalls == Spec => [](TypeInv /\ CallInv)
  BY InitTypes, InitCalls, StepTypes, StepCalls, PTL DEF Spec

(* Request returns the response to its own id, whatever the peer sends:    *)
(* ids are never given out twice, and routeResponse writes to the channel  *)
(* of the call that has the id.                                            *)
THEOREM AnswersAreOwn == Spec => []OwnAnswer
<1>1. TypeInv /\ CallInv => OwnAnswer
  BY DEF TypeInv, TypeOK, CallInv, OwnAnswer
<1> QED
  BY <1>1, AlwaysCalls, PTL

(* The read loop never blocks on a call's channel: a response is taken out *)
(* of pending with it, so there is never a second one for the channel.     *)
THEOREM RoutingIsFree == Spec => []RoutingNeverBlocks
<1>1. TypeInv /\ CallInv => RoutingNeverBlocks
  BY DEF CallInv, RoutingNeverBlocks
<1> QED
  BY <1>1, AlwaysCalls, PTL

(* Conn.pending holds calls that have not returned and nothing once the    *)
(* connection is closed.                                                   *)
THEOREM NothingLeaks == Spec => []NoEntryLeaked
<1>1. TypeInv /\ CallInv => NoEntryLeaked
  BY DEF CallInv
<1> QED
  BY <1>1, AlwaysCalls, PTL

-----------------------------------------------------------------------------
(* A request and its answer.                                               *)

LEMMA InitServes == Init => ServeInv
  BY HandlersInbound DEF Init, ServeInv

\* Steps that leave the requests alone.
LEMMA ServesKept ==
  ASSUME ServeInv, UNCHANGED <<unsent, inbox, writer, written, handler, cancelled>>,
         loop' = "done" => loop = "done" \/ cancelled \/ InFlight = {}
  PROVE  ServeInv'
<1>1. InFlight' = InFlight
  BY DEF InFlight
<1> QED
  BY <1>1 DEF ServeInv, Request

\* A message that is no request, or one the peer had not sent, may be added.
LEMMA AppendServes ==
  ASSUME TypeInv, ServeInv, NEW m \in Message,
         inbox' = Append(inbox, m), UNCHANGED <<writer, written, handler, loop, cancelled>>,
         \/ unsent' = unsent /\ m.kind \notin {"request", "malformed"}
         \/ \E h \in unsent : m = Request(h) /\ unsent' = unsent \ {h}
  PROVE  ServeInv'
<1> USE DEF TypeInv, TypeOK, ServeInv
<1>1. /\ Len(inbox') = Len(inbox) + 1 /\ Len(inbox) \in Nat
      /\ inbox'[Len(inbox) + 1] = m
      /\ \A i \in 1..Len(inbox) : inbox'[i] = inbox[i] /\ inbox[i] \in Message
  OBVIOUS
<1>2. \A h \in Inbound : Request(h).kind \in {"request", "malformed"} /\ Request(h).id = h
  BY DEF Request
<1>3. \A i \in 1..Len(inbox) :
        inbox[i].kind \in {"request", "malformed"} =>
          inbox[i] # m /\ \A h \in Inbound : inbox[i] = Request(h) => h \notin unsent'
  <2>1. CASE unsent' = unsent /\ m.kind \notin {"request", "malformed"}
    BY <2>1
  <2>2. CASE \E h \in unsent : m = Request(h) /\ unsent' = unsent \ {h}
    <3>1. PICK h \in unsent : m = Request(h) /\ unsent' = unsent \ {h}
      BY <2>2
    <3>2. \A i \in 1..Len(inbox) : inbox[i] # Request(h)
      BY <3>1
    <3> QED
      BY <3>1, <3>2
  <2> QED
    BY <2>1, <2>2
<1>4. \A h \in Inbound : m = Request(h) =>
        h \notin unsent' /\ written[h] = 0 /\ (h \in Handlers => handler[h] = "none")
  <2>1. CASE m.kind \notin {"request", "malformed"}
    BY <1>2, <2>1
  <2>2. ASSUME NEW h \in unsent, m = Request(h), unsent' = unsent \ {h}
        PROVE  \A g \in Inbound : m = Request(g) =>
                 g \notin unsent' /\ written[g] = 0 /\ (g \in Handlers => handler[g] = "none")
    <3>1. h \in Inbound
      BY <2>2
    <3>2. \A g \in Inbound : m = Request(g) => g = h
      BY <1>2, <2>2, <3>1
    <3>3. h \notin unsent' /\ written[h] = 0 /\ (h \in Handlers => handler[h] = "none")
      BY <2>2
    <3> QED
      BY <3>2, <3>3
  <2> QED
    BY <2>1, <2>2
<1>5. \A i, j \in 1..Len(inbox') :
        inbox'[i].kind \in {"request", "malformed"} /\ inbox'[i] = inbox'[j] => i = j
  <2>1. \A i \in 1..Len(inbox') : i \in 1..Len(inbox) \/ i = Len(inbox) + 1
    BY <1>1
  <2> QED
    BY <1>1, <1>3, <2>1
<1>6. \A i \in 1..Len(inbox') : \A h \in Inbound :
        inbox'[i] = Request(h) => h \notin unsent' /\ written'[h] = 0
                                  /\ (h \in Handlers => handler'[h] = "none")
  <2>1. \A i \in 1..Len(inbox') : i \in 1..Len(inbox) \/ i = Len(inbox) + 1
    BY <1>1
  <2> QED
    BY <1>1, <1>2, <1>3, <1>4, <2>1
<1>7. unsent' \subseteq unsent /\ InFlight' = InFlight
  BY DEF InFlight
<1> QED
  BY <1>5, <1>6, <1>7

\* What is left once the loop has taken the first message: no second copy of
\* a request, and nothing that was not there.
LEMMA TakenOnce ==
  ASSUME TypeInv, ServeInv, NEW m, Reads(m)
  PROVE  /\ m \in Message
         /\ \A i, j \in 1..Len(inbox') :
              inbox'[i].kind \in {"request", "malformed"} /\ inbox'[i] = inbox'[j] => i = j
         /\ \A i \in 1..Len(inbox') : \A h \in Inbound :
              inbox'[i] = Request(h) => m # Request(h) /\ h \notin unsent /\ written[h] = 0
                                        /\ (h \in Handlers => handler[h] = "none")
         /\ \A h \in Inbound :
              m = Request(h) => h \notin unsent /\ written[h] = 0
                                /\ (h \in Handlers => handler[h] = "none")
<1> USE DEF TypeInv, TypeOK, ServeInv, Reads
<1>1. /\ Len(inbox) \in Nat /\ Len(inbox) >= 1 /\ Len(inbox') = Len(inbox) - 1
      /\ inbox[1] = m /\ m \in Message
      /\ \A i \in 1..Len(inbox') : i + 1 \in 2..Len(inbox) /\ inbox'[i] = inbox[i + 1]
  OBVIOUS
<1>2. \A h \in Inbound : Request(h).kind \in {"request", "malformed"}
  BY DEF Request
<1>3. \A i, j \in 1..Len(inbox') :
        inbox'[i].kind \in {"request", "malformed"} /\ inbox'[i] = inbox'[j] => i = j
  <2> SUFFICES ASSUME NEW i \in 1..Len(inbox'), NEW j \in 1..Len(inbox'),
                      inbox'[i].kind \in {"request", "malformed"}, inbox'[i] = inbox'[j]
               PROVE  i = j
    OBVIOUS
  <2>1. i + 1 \in 1..Len(inbox) /\ j + 1 \in 1..Len(inbox)
    BY <1>1
  <2>2. inbox[i + 1] = inbox[j + 1] /\ inbox[i + 1].kind \in {"request", "malformed"}
    BY <1>1
  <2>3. i + 1 = j + 1
    BY <2>1, <2>2
  <2> QED
    BY <2>3
<1>4. ASSUME NEW i \in 1..Len(inbox'), NEW h \in Inbound, inbox'[i] = Request(h)
      PROVE  m # Request(h) /\ h \notin unsent /\ written[h] = 0
             /\ (h \in Handlers => handler[h] = "none")
  <2>1. i + 1 \in 1..Len(inbox) /\ 1 \in 1..Len(inbox) /\ i + 1 # 1
    BY <1>1
  <2>2. inbox[i + 1] = Request(h)
    BY <1>1, <1>4
  <2>3. m # Request(h)
    <3>1. inbox[i + 1].kind \in {"request", "malformed"}
      BY <1>2, <2>2
    <3>2. inbox[i + 1] # inbox[1]
      BY <2>1, <3>1
    <3> QED
      BY <1>1, <2>2, <3>2
  <2> QED
    BY <2>1, <2>2, <2>3
<1>5. \A h \in Inbound :
        m = Request(h) => h \notin unsent /\ written[h] = 0
                          /\ (h \in Handlers => handler[h] = "none")
  BY <1>1
<1> QED
  BY <1>1, <1>3, <1>4, <1>5

LEMMA PeerServes == TypeInv /\ ServeInv /\ Peer => ServeInv'
<1> SUFFICES ASSUME TypeInv, ServeInv, Peer PROVE ServeInv'
  OBVIOUS
<1>1. ASSUME NEW h \in Inbound, PeerRequests(h) PROVE ServeInv'
  BY <1>1, AppendServes, MessageTypes DEF PeerRequests, loopVars
<1>2. CASE PeerNotifies
  <2>1. noted + 1 \in Notes
    BY <1>2, ConnAssumption DEF PeerNotifies, Notes, TypeInv, TypeOK
  <2>2. Note(noted + 1) \in Message /\ Note(noted + 1).kind = "note"
    BY <2>1, MessageTypes DEF Note
  <2> QED
    BY <1>2, <2>2, AppendServes DEF PeerNotifies, loopVars
<1>3. ASSUME NEW i \in 1..Cardinality(Callers), PeerAnswers(i) PROVE ServeInv'
  <2>1. Response(i) \in Message /\ Response(i).kind = "response"
    BY MessageTypes DEF Response
  <2> QED
    BY <1>3, <2>1, AppendServes DEF PeerAnswers, loopVars
<1>4. CASE PeerCloses
  <2>1. CASE inbox' = inbox
    BY <1>4, <2>1, ServesKept DEF PeerCloses, loopVars
  <2>2. CASE inbox' = <<>>
    BY <1>4, <2>2 DEF PeerCloses, loopVars, ServeInv, InFlight
  <2> QED
    BY <1>4, <2>1, <2>2 DEF PeerCloses
<1>5. ASSUME NEW w \in {"ok"} \cup Faults, WriterTurns(w) PROVE ServeInv'
  BY <1>5 DEF WriterTurns, loopVars, ServeInv, InFlight, Request
<1> QED
  BY <1>1, <1>2, <1>3, <1>4, <1>5 DEF Peer

LEMMA LoopServes == TypeInv /\ ServeInv /\ Loop => ServeInv'
<1> SUFFICES ASSUME TypeInv, ServeInv, Loop PROVE ServeInv'
  OBVIOUS
<1> USE DEF TypeInv, TypeOK
<1>1. ASSUME NEW h \in Handlers, ReadRequest(h) PROVE ServeInv'
  <2>1. Request(h) = [kind |-> "request", id |-> h] /\ h \in Inbound
    BY HandlersInbound DEF Request
  <2>2. Reads(Request(h))
    BY <1>1, <2>1 DEF ReadRequest
  <2>3. /\ handler' = [handler EXCEPT ![h] = "running"]
        /\ UNCHANGED <<unsent, writer, written, loop, cancelled>> /\ loop = "reading"
    BY <1>1 DEF ReadRequest, Reads, peerVars, loopVars
  <2>4. h \notin unsent /\ written[h] = 0
    BY <2>1, <2>2, TakenOnce
  <2>5. \A i \in 1..Len(inbox') : \A g \in Inbound :
          inbox'[i] = Request(g) => g # h /\ g \notin unsent /\ written[g] = 0
                                    /\ (g \in Handlers => handler[g] = "none")
    BY <2>2, TakenOnce
  <2>6. \A i, j \in 1..Len(inbox') :
          inbox'[i].kind \in {"request", "malformed"} /\ inbox'[i] = inbox'[j] => i = j
    BY <2>2, TakenOnce
  <2> QED
    BY <2>3, <2>4, <2>5, <2>6 DEF ServeInv, Request
<1>2. ASSUME NEW h \in Malformed, ReadMalformed(h) PROVE ServeInv'
  <2>1. Request(h) = [kind |-> "malformed", id |-> h] /\ h \in Inbound /\ h \notin Handlers
    BY HandlersInbound DEF Request, Handlers
  <2>2. Reads(Request(h))
    BY <1>2, <2>1 DEF ReadMalformed
  <2>3. /\ written' \in {written, [written EXCEPT ![h] = @ + 1]}
        /\ UNCHANGED <<unsent, writer, handler, loop, cancelled>> /\ loop = "reading"
    BY <1>2 DEF ReadMalformed, WritesAnswer, Reads, peerVars, loopVars
  <2>4. h \notin unsent /\ written[h] = 0
    BY <2>1, <2>2, TakenOnce
  <2>5. \A i \in 1..Len(inbox') : \A g \in Inbound :
          inbox'[i] = Request(g) => g # h /\ g \notin unsent /\ written[g] = 0
                                    /\ (g \in Handlers => handler[g] = "none")
    BY <2>2, TakenOnce
  <2>6. \A i, j \in 1..Len(inbox') :
          inbox'[i].kind \in {"request", "malformed"} /\ inbox'[i] = inbox'[j] => i = j
    BY <2>2, TakenOnce
  <2>7. \A g \in Inbound : g # h => written'[g] = written[g]
    BY <2>3
  <2>8. written'[h] <= 1
    BY <2>1, <2>3, <2>4
  <2>9. \A i \in 1..Len(inbox') : \A g \in Inbound :
          inbox'[i] = Request(g) => g \notin unsent' /\ written'[g] = 0
                                    /\ (g \in Handlers => handler'[g] = "none")
    BY <2>3, <2>5, <2>7
  <2>10. \A g \in unsent' : written'[g] = 0 /\ (g \in Handlers => handler'[g] = "none")
    BY <2>3, <2>4, <2>7 DEF ServeInv
  <2>11. \A g \in Inbound : written'[g] <= 1
    BY <2>7, <2>8 DEF ServeInv
  <2>12. \A g \in Handlers : written'[g] = written[g] /\ handler'[g] = handler[g]
    BY <2>1, <2>3, <2>7, HandlersInbound
  <2> QED
    BY <2>3, <2>6, <2>9, <2>10, <2>11, <2>12 DEF ServeInv, Request
<1>3. ASSUME NEW m, Reads(m),
             UNCHANGED <<unsent, writer, written, handler, cancelled>>, loop' # "done"
      PROVE  ServeInv'
  <2>1. \A i \in 1..Len(inbox') : \A g \in Inbound :
          inbox'[i] = Request(g) => g \notin unsent /\ written[g] = 0
                                    /\ (g \in Handlers => handler[g] = "none")
    BY <1>3, TakenOnce
  <2>2. \A i, j \in 1..Len(inbox') :
          inbox'[i].kind \in {"request", "malformed"} /\ inbox'[i] = inbox'[j] => i = j
    BY <1>3, TakenOnce
  <2> QED
    BY <1>3, <2>1, <2>2 DEF ServeInv, Request
<1>4. ASSUME NEW n \in Notes, ReadNote(n) PROVE ServeInv'
  BY <1>3, <1>4 DEF ReadNote, peerVars
<1>5. ASSUME NEW i \in 1..Cardinality(Callers), ReadResponse(i) PROVE ServeInv'
  <2>1. Reads(Response(i)) /\ loop' # "done"
    BY <1>5 DEF ReadResponse, Reads
  <2> QED
    BY <1>3, <1>5, <2>1 DEF ReadResponse, peerVars
<1>6. CASE Push \/ PushGivesUp \/ Stop \/ FailPending \/ DrainInFlight
  BY <1>6, ServesKept DEF Push, PushGivesUp, Stop, FailPending, DrainInFlight, peerVars
<1>7. ASSUME NEW c \in Callers, Route(c) PROVE ServeInv'
  BY <1>7, ServesKept DEF Route, peerVars
<1> QED
  BY <1>1, <1>2, <1>4, <1>5, <1>6, <1>7 DEF Loop

LEMMA HandlerServes ==
  ASSUME TypeInv, ServeInv, NEW h \in Handlers, Notify(h) \/ NotifyWrites(h) \/ Answer(h)
  PROVE  ServeInv'
<1> USE DEF TypeInv, TypeOK, ServeInv, peerVars, loopVars
<1>1. UNCHANGED <<unsent, inbox, writer, loop, cancelled>> /\ h \in Inbound
  BY HandlersInbound DEF Notify, NotifyWrites, Answer
<1>2. h \in InFlight /\ InFlight' \subseteq InFlight
  <2>1. h \in InFlight
    BY DEF Notify, NotifyWrites, Answer, InFlight
  <2>2. \A g \in Handlers : g # h => handler'[g] = handler[g]
    BY DEF Notify, NotifyWrites, Answer
  <2> QED
    BY <2>1, <2>2 DEF InFlight
<1>3. h \notin unsent /\ \A i \in 1..Len(inbox) : inbox[i] # Request(h)
  BY <1>1, <1>2 DEF InFlight
<1>4. CASE Notify(h) \/ NotifyWrites(h)
  <2>1. /\ UNCHANGED written
        /\ \E s \in {"running", "noting"} : handler' = [handler EXCEPT ![h] = s]
    BY <1>4 DEF Notify, NotifyWrites
  <2>2. handler[h] # "answered"
    BY <1>2 DEF InFlight
  <2> QED
    BY <1>1, <1>2, <1>3, <2>1, <2>2 DEF Request
<1>5. CASE Answer(h)
  <2>1. /\ handler' = [handler EXCEPT ![h] = "answered"] /\ written[h] = 0
        /\ IF writer = "ok" THEN written' = [written EXCEPT ![h] = @ + 1]
           ELSE written' = written /\ writer = "broken"
    BY <1>5 DEF Answer, WritesAnswer, WriteReturns
  <2>2. \A g \in Inbound : g # h => written'[g] = written[g]
    BY <2>1
  <2>3. written'[h] <= 1 /\ (written'[h] = 1 \/ writer = "broken")
    BY <1>1, <2>1
  <2>4. \A g \in Handlers : g # h => written'[g] = written[g] /\ handler'[g] = handler[g]
    BY <2>1, <2>2, HandlersInbound
  <2>5. \A i \in 1..Len(inbox') : \A g \in Inbound :
          inbox'[i] = Request(g) => g \notin unsent' /\ written'[g] = 0
                                    /\ (g \in Handlers => handler'[g] = "none")
    <3> SUFFICES ASSUME NEW i \in 1..Len(inbox), NEW g \in Inbound, inbox[i] = Request(g)
                 PROVE  g \notin unsent /\ written'[g] = 0
                        /\ (g \in Handlers => handler'[g] = "none")
      BY <1>1
    <3>1. g # h
      BY <1>3
    <3>2. g \notin unsent /\ written[g] = 0 /\ (g \in Handlers => handler[g] = "none")
      OBVIOUS
    <3> QED
      BY <2>2, <2>4, <3>1, <3>2
  <2>6. \A g \in unsent' : written'[g] = 0 /\ (g \in Handlers => handler'[g] = "none")
    BY <1>1, <1>3, <2>2, <2>4
  <2>7. \A g \in Inbound : written'[g] <= 1
    BY <2>2, <2>3
  <2>8. \A g \in Handlers :
          /\ handler'[g] # "answered" => written'[g] = 0
          /\ handler'[g] = "answered" => written'[g] = 1 \/ writer' = "broken"
    BY <1>1, <2>1, <2>3, <2>4
  <2> QED
    BY <1>1, <1>2, <2>5, <2>6, <2>7, <2>8
<1> QED
  BY <1>4, <1>5

LEMMA StepServes == TypeInv /\ ServeInv /\ [Next]_vars => ServeInv'
<1> SUFFICES ASSUME TypeInv, ServeInv, [Next]_vars PROVE ServeInv'
  OBVIOUS
<1>1. CASE Cancel
  BY <1>1 DEF Cancel, peerVars, ServeInv, InFlight, Request
<1>2. CASE Worker
  BY <1>2, ServesKept DEF Worker, TakeNote, FinishNote, peerVars, loopVars
<1>3. ASSUME NEW c \in Callers, Register(c) \/ CallSteps(c) \/ GiveUp(c) PROVE ServeInv'
  BY <1>3, ServesKept DEF Register, CallSteps, SendCall, Receive, Reclaim, GiveUp,
     peerVars, loopVars
<1>4. CASE UNCHANGED vars
  BY <1>4, ServesKept DEF vars, peerVars, loopVars
<1> QED
  BY <1>1, <1>2, <1>3, <1>4, PeerServes, LoopServes, HandlerServes DEF Next

LEMMA AlwaysServes == Spec => [](TypeInv /\ ServeInv)
  BY InitTypes, InitServes, StepTypes, StepServes, PTL DEF Spec

(* No request is answered twice, and a Serve that ended with the stream     *)
(* has answered what it took: its last deferred call waits for the         *)
(* handlers.                                                               *)
THEOREM ServeAnswersAll == Spec => []AnsweredBeforeReturn
<1>1. TypeInv /\ ServeInv => AnsweredBeforeReturn
  BY DEF TypeInv, TypeOK, ServeInv, AnsweredBeforeReturn, InFlight
<1> QED
  BY <1>1, AlwaysServes, PTL

-----------------------------------------------------------------------------
(* The order of notifications.  What the loop has taken off the stream is  *)
(* one line, from the handlers that finished to the message in its hands:  *)
(* a step takes the next one into the line, moves the line on, or, when    *)
(* the context is cancelled, drops the last.                               *)

InWorker == IF worker = {} THEN <<>> ELSE <<CHOOSE n \in worker : TRUE>>
InLoop   == IF loop = "pushing" THEN <<inHand.id>> ELSE <<>>
Line     == served \o InWorker \o notes \o InLoop

Queued == {k \in 1..Len(inbox) : inbox[k].kind = "note"}

\* The line goes up, the stream goes on from it, and only a cancelled
\* context or the end of the stream leaves a gap.
OrderInv ==
  /\ \A i, j \in 1..Len(Line) : i < j => Line[i] < Line[j]
  /\ \A i \in 1..Len(Line) : Line[i] <= noted
  /\ \A k \in Queued : inbox[k].id <= noted /\ \A i \in 1..Len(Line) : Line[i] < inbox[k].id
  /\ \A k, l \in Queued : k < l => inbox[k].id < inbox[l].id
  /\ ~cancelled =>
       /\ \A i \in 1..Len(Line) : Line[i] = i
       /\ \/ {inbox[k].id : k \in Queued} = (Len(Line) + 1)..noted
          \/ eof /\ Queued = {}

LEMMA LineTypes ==
  ASSUME TypeInv
  PROVE  /\ served \in Seq(Notes) /\ InWorker \in Seq(Notes) /\ notes \in Seq(Notes)
         /\ InLoop \in Seq(Notes) /\ Line \in Seq(Notes)
         /\ Len(Line) \in Nat /\ \A i \in 1..Len(Line) : Line[i] \in Nat
<1>1. served \in Seq(Notes) /\ notes \in Seq(Notes)
  BY DEF TypeInv, TypeOK
<1>2. InWorker \in Seq(Notes)
  BY DEF TypeInv, TypeOK, InWorker
<1>3. InLoop \in Seq(Notes)
  BY DEF TypeInv, PushesNotes, InLoop
<1>4. Line \in Seq(Notes)
  BY <1>1, <1>2, <1>3, ConcatProperties DEF Line
<1> HIDE DEF Line, InLoop, InWorker
<1>5. Len(Line) \in Nat /\ \A i \in 1..Len(Line) : Line[i] \in Notes
  BY <1>4
<1> QED
  BY <1>1, <1>2, <1>3, <1>4, <1>5, NotesAreNumbers

LEMMA QueuedTypes ==
  ASSUME TypeInv
  PROVE  /\ Len(inbox) \in Nat /\ Queued \subseteq 1..Len(inbox) /\ noted \in Nat
         /\ \A k \in 1..Len(inbox) : inbox[k] \in Message
         /\ \A k \in Queued : inbox[k].id \in Notes /\ inbox[k].id \in Nat
         /\ Queued \subseteq Nat
<1>1. Len(inbox) \in Nat /\ noted \in Nat /\ \A k \in 1..Len(inbox) : inbox[k] \in Message
  BY NotesAreNumbers DEF TypeInv, TypeOK
<1>2. \A m \in Message : m.kind = "note" => m.id \in Notes
  BY DEF Message
<1>3. Queued \subseteq 1..Len(inbox) /\ \A k \in Queued : inbox[k].kind = "note"
  BY DEF Queued
<1> HIDE DEF Queued
<1>4. \A k \in Queued : inbox[k].id \in Notes
  BY <1>1, <1>2, <1>3
<1>5. \A k \in Queued : inbox[k].id \in Nat
  BY <1>4, NotesAreNumbers
<1>6. Queued \subseteq Nat
  BY <1>1, <1>3
<1> QED
  BY <1>1, <1>3, <1>4, <1>5, <1>6

LEMMA InitOrder == Init => OrderInv
<1> SUFFICES ASSUME Init PROVE OrderInv
  OBVIOUS
<1>1. Line = <<>>
  BY DEF Init, Line, InWorker, InLoop
<1>2. Queued = {}
  BY DEF Init, Queued
<1>3. {inbox[k].id : k \in Queued} = (Len(Line) + 1)..noted
  BY <1>1, <1>2 DEF Init
<1> QED
  BY <1>1, <1>2, <1>3 DEF OrderInv

\* The line and what is queued stay.
LEMMA OrderKept ==
  ASSUME OrderInv, Line' = Line, UNCHANGED noted, cancelled => cancelled', eof => eof',
         Queued' = Queued, \A k \in Queued : inbox'[k] = inbox[k]
  PROVE  OrderInv'
<1>1. {inbox[k].id : k \in Queued}' = {inbox[k].id : k \in Queued}
  OBVIOUS
<1> HIDE DEF Line, Queued
<1> QED
  BY <1>1 DEF OrderInv

\* The stream is lost.
LEMMA OrderEmptied ==
  ASSUME OrderInv, Line' = Line, UNCHANGED <<noted, cancelled>>, eof', inbox' = <<>>
  PROVE  OrderInv'
<1>1. Queued' = {}
  BY DEF Queued
<1> HIDE DEF Line, Queued
<1> QED
  BY <1>1 DEF OrderInv

\* The peer sends something else than a notification.
LEMMA OrderBehind ==
  ASSUME TypeInv, OrderInv, NEW m \in Message, m.kind # "note", inbox' = Append(inbox, m),
         Line' = Line, UNCHANGED <<noted, cancelled, eof>>
  PROVE  OrderInv'
<1>1. /\ inbox \in Seq(Message) /\ Len(inbox') = Len(inbox) + 1 /\ Len(inbox) \in Nat
      /\ inbox'[Len(inbox) + 1] = m /\ \A k \in 1..Len(inbox) : inbox'[k] = inbox[k]
  BY DEF TypeInv, TypeOK
<1>2. Queued' = Queued
  BY <1>1 DEF Queued
<1>3. \A k \in Queued : inbox'[k] = inbox[k]
  BY <1>1 DEF Queued
<1> QED
  BY <1>2, <1>3, OrderKept

\* The peer sends the next notification.
LEMMA OrderNotified ==
  ASSUME TypeInv, OrderInv, PeerNotifies
  PROVE  OrderInv'
<1>1. /\ inbox \in Seq(Message) /\ Len(inbox') = Len(inbox) + 1 /\ Len(inbox) \in Nat
      /\ inbox'[Len(inbox) + 1] = Note(noted + 1)
      /\ \A k \in 1..Len(inbox) : inbox'[k] = inbox[k]
  BY DEF TypeInv, TypeOK, PeerNotifies
<1>2. ~eof /\ UNCHANGED <<cancelled, eof>> /\ noted' = noted + 1 /\ noted \in Nat /\ Line' = Line
  BY QueuedTypes DEF PeerNotifies, Room, loopVars, noteVars, Line, InWorker, InLoop
<1>3. Note(noted + 1).kind = "note" /\ Note(noted + 1).id = noted + 1
  BY DEF Note
<1> DEFINE last == Len(inbox) + 1
<1>4. Queued' = Queued \cup {last}
  BY <1>1, <1>3 DEF Queued
<1>5. Queued \subseteq 1..Len(inbox) /\ \A k \in Queued : inbox'[k] = inbox[k] /\ k < last
  BY <1>1, QueuedTypes
<1>6. inbox'[last].id = noted + 1
  BY <1>1, <1>3
<1>7. \A k \in Queued : inbox[k].id \in Nat
  BY QueuedTypes
<1>8. \A i \in 1..Len(Line) : Line[i] \in Nat
  BY LineTypes
<1> HIDE DEF Line, Queued, last
<1>9. \A i \in 1..Len(Line') : Line'[i] <= noted'
  BY <1>2, <1>8 DEF OrderInv
<1>10. \A k \in Queued' : inbox'[k].id <= noted' /\ \A i \in 1..Len(Line') : Line'[i] < inbox'[k].id
  BY <1>2, <1>4, <1>5, <1>6, <1>7, <1>8 DEF OrderInv
<1>11. \A k, l \in Queued' : k < l => inbox'[k].id < inbox'[l].id
  <2>1. last \in Nat /\ Queued \subseteq Nat
    BY <1>1, QueuedTypes DEF last
  <2>2. \A k \in Queued : inbox'[k].id < inbox'[last].id
    BY <1>2, <1>5, <1>6, <1>7 DEF OrderInv
  <2> QED
    BY <1>4, <1>5, <2>1, <2>2 DEF OrderInv
<1>12. ~cancelled =>
         /\ \A i \in 1..Len(Line') : Line'[i] = i
         /\ {inbox'[k].id : k \in Queued'} = (Len(Line') + 1)..noted'
  <2> SUFFICES ASSUME ~cancelled
               PROVE  /\ \A i \in 1..Len(Line') : Line'[i] = i
                      /\ {inbox'[k].id : k \in Queued'} = (Len(Line') + 1)..noted'
    OBVIOUS
  <2>1. /\ \A i \in 1..Len(Line) : Line[i] = i
        /\ {inbox[k].id : k \in Queued} = (Len(Line) + 1)..noted
    BY <1>2 DEF OrderInv
  <2>2. {inbox'[k].id : k \in Queued'} = {inbox[k].id : k \in Queued} \cup {noted + 1}
    BY <1>4, <1>5, <1>6
  <2>3. Len(Line) \in Nat /\ Len(Line) <= noted
    <3>1. Len(Line) \in Nat
      BY LineTypes
    <3>2. Len(Line) # 0 => Line[Len(Line)] = Len(Line) /\ Line[Len(Line)] <= noted
      BY <2>1, <3>1 DEF OrderInv
    <3> QED
      BY <1>2, <3>1, <3>2
  <2>4. (Len(Line) + 1)..(noted + 1) = ((Len(Line) + 1)..noted) \cup {noted + 1}
    BY <1>2, <2>3
  <2> QED
    BY <1>2, <2>1, <2>2, <2>4
<1> QED
  BY <1>2, <1>9, <1>10, <1>11, <1>12 DEF OrderInv

\* The loop takes the first message off the stream.
LEMMA Taken ==
  ASSUME TypeInv, NEW m, Reads(m)
  PROVE  /\ Queued' = {k - 1 : k \in Queued \ {1}}
         /\ \A k \in Queued \ {1} : inbox'[k - 1] = inbox[k] /\ k - 1 \in Nat
         /\ inbox[1] = m /\ (m.kind = "note" <=> 1 \in Queued)
<1>1. /\ inbox \in Seq(Message) /\ Len(inbox) \in Nat /\ Len(inbox) >= 1
      /\ Len(inbox') = Len(inbox) - 1 /\ inbox[1] = m
      /\ \A k \in 1..(Len(inbox) - 1) : inbox'[k] = inbox[k + 1]
  BY DEF TypeInv, TypeOK, Reads
<1>2. \A k \in Queued \ {1} : /\ k \in Nat /\ k - 1 \in 1..(Len(inbox) - 1)
                              /\ inbox'[k - 1] = inbox[k] /\ inbox[k].kind = "note"
  BY <1>1 DEF Queued
<1>3. \A l \in 1..(Len(inbox) - 1) :
        inbox'[l].kind = "note" => l + 1 \in Queued \ {1} /\ l = (l + 1) - 1
  BY <1>1 DEF Queued
<1>4. Queued' = {l \in 1..(Len(inbox) - 1) : inbox'[l].kind = "note"}
  BY <1>1 DEF Queued
<1>5. Queued' = {k - 1 : k \in Queued \ {1}}
  BY <1>2, <1>3, <1>4
<1>6. m.kind = "note" <=> 1 \in Queued
  BY <1>1 DEF Queued
<1> QED
  BY <1>1, <1>2, <1>5, <1>6

LEMMA OrderTaken ==
  ASSUME TypeInv, OrderInv, NEW m, Reads(m), m.kind # "note",
         Line' = Line, UNCHANGED <<noted, cancelled, eof>>
  PROVE  OrderInv'
<1>1. /\ Queued' = {k - 1 : k \in Queued}
      /\ \A k \in Queued : inbox'[k - 1] = inbox[k] /\ k \in Nat
  <2>1. Queued \ {1} = Queued
    BY Taken
  <2> QED
    BY <2>1, Taken, QueuedTypes
<1> HIDE DEF Line, Queued
<1>2. \A k \in Queued' : inbox'[k].id <= noted' /\ \A i \in 1..Len(Line') : Line'[i] < inbox'[k].id
  BY <1>1 DEF OrderInv
<1>3. \A k, l \in Queued' : k < l => inbox'[k].id < inbox'[l].id
  BY <1>1 DEF OrderInv
<1>4. {inbox'[k].id : k \in Queued'} = {inbox[k].id : k \in Queued}
  BY <1>1
<1>5. Queued = {} => Queued' = {}
  BY <1>1
<1> QED
  BY <1>2, <1>3, <1>4, <1>5 DEF OrderInv

\* It is a notification: the line takes it.
LEMMA OrderRead ==
  ASSUME TypeInv, OrderInv, NEW n \in Notes, ReadNote(n)
  PROVE  OrderInv'
<1>1. /\ Reads(Note(n)) /\ loop = "reading" /\ loop' = "pushing" /\ inHand'.id = n
      /\ UNCHANGED <<noted, eof, cancelled, served, worker, notes>>
  BY DEF ReadNote, Reads, Note, peerVars, noteVars
<1>2. Line' = Append(Line, n)
  <2>1. InLoop = <<>> /\ InLoop' = <<n>> /\ InWorker' = InWorker
    BY <1>1 DEF InLoop, InWorker
  <2>2. served \o InWorker \o notes \in Seq(Notes)
    BY LineTypes, ConcatProperties
  <2> DEFINE s == served \o InWorker \o notes
  <2>3. s' = s
    BY <1>1, <2>1
  <2> HIDE DEF s, InLoop
  <2>4. Line = s /\ Line' = s \o <<n>>
    BY <2>1, <2>2, <2>3, ConcatEmptySeq DEF Line, s
  <2> QED
    BY <2>2, <2>4, AppendIsConcat DEF s
<1>3. /\ Line \in Seq(Notes) /\ Len(Line) \in Nat /\ Len(Line') = Len(Line) + 1
      /\ Line'[Len(Line) + 1] = n /\ \A i \in 1..Len(Line) : Line'[i] = Line[i] /\ Line[i] \in Nat
  BY <1>2, LineTypes, AppendProperties
<1>4. /\ Queued' = {k - 1 : k \in Queued \ {1}}
      /\ \A k \in Queued \ {1} : inbox'[k - 1] = inbox[k] /\ k \in Nat /\ k > 1
      /\ 1 \in Queued /\ inbox[1].id = n /\ n \in Nat
  <2>1. Note(n).kind = "note" /\ Note(n).id = n /\ n \in Nat
    BY NotesAreNumbers DEF Note
  <2>2. \A k \in Queued \ {1} : k \in Nat /\ k > 1
    BY QueuedTypes
  <2> QED
    BY <1>1, <2>1, <2>2, Taken
<1>5. \A k \in Queued : inbox[k].id \in Nat
  BY QueuedTypes
<1> HIDE DEF Line, Queued
<1>6. \A i \in 1..Len(Line) : Line[i] < n
  BY <1>4 DEF OrderInv
<1>7. \A k \in Queued \ {1} : n < inbox[k].id
  BY <1>4 DEF OrderInv
<1>8. \A i \in 1..Len(Line') : i \in 1..Len(Line) \/ i = Len(Line) + 1
  BY <1>3
<1>9. /\ \A i, j \in 1..Len(Line') : i < j => Line'[i] < Line'[j]
      /\ \A i \in 1..Len(Line') : Line'[i] <= noted'
  <2>1. n <= noted
    BY <1>4 DEF OrderInv
  <2> QED
    BY <1>1, <1>3, <1>6, <1>8, <2>1 DEF OrderInv
<1>10. \A k \in Queued \ {1} :
         inbox[k].id <= noted /\ \A i \in 1..Len(Line') : Line'[i] < inbox[k].id
  BY <1>3, <1>7, <1>8 DEF OrderInv
<1>11. \A k \in Queued' :
         inbox'[k].id <= noted' /\ \A i \in 1..Len(Line') : Line'[i] < inbox'[k].id
  BY <1>1, <1>4, <1>10
<1>12. \A k, l \in Queued' : k < l => inbox'[k].id < inbox'[l].id
  BY <1>4 DEF OrderInv
<1>13. ~cancelled =>
         /\ \A i \in 1..Len(Line') : Line'[i] = i
         /\ {inbox'[k].id : k \in Queued'} = (Len(Line') + 1)..noted'
  <2> SUFFICES ASSUME ~cancelled
               PROVE  /\ \A i \in 1..Len(Line') : Line'[i] = i
                      /\ {inbox'[k].id : k \in Queued'} = (Len(Line') + 1)..noted'
    OBVIOUS
  <2>1. /\ \A i \in 1..Len(Line) : Line[i] = i
        /\ {inbox[k].id : k \in Queued} = (Len(Line) + 1)..noted
    BY <1>4 DEF OrderInv
  <2>2. {inbox'[k].id : k \in Queued'} = {inbox[k].id : k \in Queued \ {1}}
    BY <1>4
  <2>3. {inbox[k].id : k \in Queued \ {1}} = {inbox[k].id : k \in Queued} \ {n}
    BY <1>4, <1>5, <1>7
  <2>4. n = Len(Line) + 1
    <3>1. n \in (Len(Line) + 1)..noted
      BY <1>4, <2>1
    <3>2. noted \in Nat
      BY QueuedTypes
    <3>3. Len(Line) + 1 \in (Len(Line) + 1)..noted
      BY <1>3, <3>1, <3>2
    <3>4. PICK k \in Queued : inbox[k].id = Len(Line) + 1
      BY <2>1, <3>3
    <3> QED
      BY <1>3, <1>4, <1>7, <3>1, <3>2, <3>4
  <2>5. ((Len(Line) + 1)..noted) \ {Len(Line) + 1} = (Len(Line) + 2)..noted
    BY <1>3, QueuedTypes
  <2>6. {inbox'[k].id : k \in Queued'} = (Len(Line') + 1)..noted'
    <3>1. {inbox'[k].id : k \in Queued'} = (Len(Line) + 2)..noted
      BY <2>1, <2>2, <2>3, <2>4, <2>5, Zenon
    <3>2. Len(Line') + 1 = Len(Line) + 2 /\ noted' = noted
      BY <1>1, <1>3
    <3> QED
      BY <3>1, <3>2, Zenon
  <2> QED
    BY <1>3, <1>8, <2>1, <2>4, <2>6
<1> QED
  BY <1>1, <1>9, <1>11, <1>12, <1>13 DEF OrderInv

\* The channel has room: the line moves on.
LEMMA LinePushed ==
  ASSUME TypeInv, Push
  PROVE  Line' = Line
<1>1. /\ loop = "pushing" /\ loop' = "reading" /\ notes' = Append(notes, inHand.id)
      /\ UNCHANGED <<served, worker>> /\ inHand.id \in Notes
  BY DEF Push, TypeInv, PushesNotes
<1>2. InLoop = <<inHand.id>> /\ InLoop' = <<>> /\ InWorker' = InWorker
  BY <1>1 DEF InLoop, InWorker
<1>3. notes' = notes \o <<inHand.id>> /\ notes \in Seq(Notes) /\ <<inHand.id>> \in Seq(Notes)
  BY <1>1, LineTypes, AppendIsConcat
<1> DEFINE s == served \o InWorker
<1>4. s \in Seq(Notes) /\ s' = s
  BY <1>1, <1>2, LineTypes, ConcatProperties
<1> HIDE DEF s, InLoop, InWorker
<1>5. Line = (s \o notes) \o <<inHand.id>> /\ Line' = (s \o (notes \o <<inHand.id>>)) \o <<>>
  BY <1>2, <1>3, <1>4 DEF Line, s
<1>6. (s \o notes) \o <<inHand.id>> = s \o (notes \o <<inHand.id>>)
  BY <1>3, <1>4, ConcatAssociative
<1>7. s \o (notes \o <<inHand.id>>) \in Seq(Notes)
  BY <1>3, <1>4, ConcatProperties
<1> QED
  BY <1>5, <1>6, <1>7, ConcatEmptySeq

LEMMA LineWorked ==
  ASSUME TypeInv, Worker
  PROVE  Line' = Line
<1> DEFINE t == InLoop
<1>1. InLoop' = InLoop /\ served \in Seq(Notes) /\ notes \in Seq(Notes)
  BY LineTypes DEF Worker, TakeNote, FinishNote, loopVars, InLoop
<1>2. CASE TakeNote
  <2>1. /\ worker = {} /\ worker' = {Head(notes)} /\ notes # <<>> /\ notes' = Tail(notes)
        /\ served' = served
    BY <1>2 DEF TakeNote
  <2>2. InWorker = <<>> /\ InWorker' = <<Head(notes)>>
    BY <2>1 DEF InWorker
  <2>3. /\ Head(notes) \in Notes /\ Tail(notes) \in Seq(Notes)
        /\ notes = <<Head(notes)>> \o Tail(notes)
    BY <1>1, <2>1
  <2>4. served \o <<>> = served
    BY <1>1, ConcatEmptySeq
  <2>5. (served \o <<Head(notes)>>) \o Tail(notes) = served \o (<<Head(notes)>> \o Tail(notes))
    BY <1>1, <2>3, ConcatAssociative
  <2> HIDE DEF InLoop, InWorker
  <2> QED
    BY <1>1, <2>1, <2>2, <2>3, <2>4, <2>5 DEF Line
<1>3. ASSUME NEW n \in Notes, FinishNote(n) PROVE Line' = Line
  <2>1. n \in worker /\ worker' = worker \ {n} /\ served' = Append(served, n) /\ notes' = notes
    BY <1>3 DEF FinishNote
  <2>2. worker = {n}
    <3>1. IsFiniteSet(worker) /\ Cardinality(worker) <= 1
      <4>1. IsFiniteSet(Notes)
        BY ConnAssumption, FS_Interval DEF Notes
      <4> QED
        BY <4>1, FS_Subset DEF TypeInv, TypeOK
    <3>2. Cardinality(worker \ {n}) = Cardinality(worker) - 1 /\ IsFiniteSet(worker \ {n})
      BY <2>1, <3>1, FS_RemoveElement
    <3>3. Cardinality(worker) \in Nat /\ Cardinality(worker \ {n}) \in Nat
      BY <3>1, <3>2, FS_CardinalityType
    <3>4. worker \ {n} = {}
      BY <3>1, <3>2, <3>3, FS_EmptySet
    <3> QED
      BY <2>1, <3>4
  <2>3. InWorker = <<n>> /\ InWorker' = <<>>
    BY <2>1, <2>2 DEF InWorker
  <2>4. served' = served \o <<n>> /\ served \o <<n>> \in Seq(Notes)
    BY <1>1, <2>1, AppendIsConcat, AppendProperties
  <2>5. served' \o <<>> = served'
    BY <2>4, ConcatEmptySeq
  <2> HIDE DEF InLoop, InWorker
  <2> QED
    BY <1>1, <2>1, <2>3, <2>4, <2>5 DEF Line
<1> QED
  BY <1>2, <1>3 DEF Worker

\* A cancelled context: the last of the line is dropped.
LEMMA OrderDropped ==
  ASSUME TypeInv, OrderInv, PushGivesUp
  PROVE  OrderInv'
<1>1. /\ loop = "pushing" /\ loop' = "reading" /\ cancelled /\ cancelled'
      /\ UNCHANGED <<noted, inbox, eof, served, worker, notes>>
  BY DEF PushGivesUp, peerVars, noteVars
<1> DEFINE s == served \o InWorker \o notes
<1>2. s \in Seq(Notes)
  BY LineTypes, ConcatProperties
<1>3. Line = Append(s, inHand.id) /\ Line' = s
  <2>1. InLoop = <<inHand.id>> /\ InLoop' = <<>> /\ inHand.id \in Notes
    BY <1>1 DEF InLoop, TypeInv, PushesNotes
  <2>2. s' = s
    BY <1>1 DEF InWorker
  <2> HIDE DEF s, InLoop
  <2>3. Line = s \o <<inHand.id>> /\ Line' = s \o <<>>
    BY <2>1, <2>2 DEF Line, s
  <2> QED
    BY <1>2, <2>1, <2>3, ConcatEmptySeq, AppendIsConcat DEF s
<1>4. Queued' = Queued
  BY <1>1 DEF Queued
<1> HIDE DEF s, Queued, Line
<1>5. Len(s) \in Nat /\ Len(Line) = Len(s) + 1 /\ \A i \in 1..Len(s) : Line[i] = s[i]
  BY <1>2, <1>3
<1>6. \A i \in 1..Len(Line') : Line'[i] = Line[i] /\ i \in 1..Len(Line)
  BY <1>3, <1>5
<1> QED
  BY <1>1, <1>4, <1>6 DEF OrderInv

LEMMA PeerOrder == TypeInv /\ OrderInv /\ Peer => OrderInv'
<1> SUFFICES ASSUME TypeInv, OrderInv, Peer PROVE OrderInv'
  OBVIOUS
<1>1. UNCHANGED <<loopVars, noteVars>> /\ Line' = Line
  <2>1. UNCHANGED <<loopVars, noteVars>>
    BY DEF Peer, PeerRequests, PeerNotifies, PeerAnswers, PeerCloses, WriterTurns
  <2> QED
    BY <2>1 DEF loopVars, noteVars, Line, InWorker, InLoop
<1>2. ASSUME NEW h \in Inbound, PeerRequests(h) PROVE OrderInv'
  <2>1. Request(h) \in Message /\ Request(h).kind # "note"
    BY MessageTypes DEF Request
  <2> QED
    BY <1>1, <1>2, <2>1, OrderBehind DEF PeerRequests, loopVars
<1>3. ASSUME NEW i \in 1..Cardinality(Callers), PeerAnswers(i) PROVE OrderInv'
  <2>1. Response(i) \in Message /\ Response(i).kind # "note"
    BY MessageTypes DEF Response
  <2> QED
    BY <1>1, <1>3, <2>1, OrderBehind DEF PeerAnswers, loopVars
<1>4. CASE PeerCloses
  <2>1. UNCHANGED <<noted, cancelled>> /\ eof'
    BY <1>4 DEF PeerCloses, loopVars
  <2>2. CASE inbox' = inbox
    BY <1>1, <2>1, <2>2, OrderKept DEF Queued
  <2>3. CASE inbox' = <<>>
    BY <1>1, <2>1, <2>3, OrderEmptied
  <2> QED
    BY <1>4, <2>2, <2>3 DEF PeerCloses
<1>5. ASSUME NEW w \in {"ok"} \cup Faults, WriterTurns(w) PROVE OrderInv'
  BY <1>1, <1>5, OrderKept DEF WriterTurns, loopVars, Queued
<1> QED
  BY <1>2, <1>3, <1>4, <1>5, OrderNotified DEF Peer

\* Steps that neither push nor read a notification leave the line alone.
LEMMA LineKept ==
  ASSUME UNCHANGED noteVars, loop' # "pushing", loop # "pushing"
  PROVE  Line' = Line
  BY DEF noteVars, Line, InWorker, InLoop

LEMMA LoopOrder == TypeInv /\ OrderInv /\ Loop => OrderInv'
<1> SUFFICES ASSUME TypeInv, OrderInv, Loop PROVE OrderInv'
  OBVIOUS
<1>1. ASSUME NEW m, Reads(m), m.kind # "note", UNCHANGED <<noteVars, noted, cancelled, eof>>,
             loop' # "pushing"
      PROVE  OrderInv'
  BY <1>1, LineKept, OrderTaken DEF Reads
<1>2. ASSUME NEW h \in Handlers, ReadRequest(h) PROVE OrderInv'
  BY <1>1, <1>2 DEF ReadRequest, Reads, peerVars, loopVars
<1>3. ASSUME NEW h \in Malformed, ReadMalformed(h) PROVE OrderInv'
  BY <1>1, <1>3 DEF ReadMalformed, Reads, peerVars, loopVars
<1>4. ASSUME NEW i \in 1..Cardinality(Callers), ReadResponse(i) PROVE OrderInv'
  <2>1. Reads(Response(i)) /\ Response(i).kind # "note" /\ loop' # "pushing"
    BY <1>4 DEF ReadResponse, Response, Reads
  <2> QED
    BY <1>1, <1>4, <2>1 DEF ReadResponse, peerVars
<1>5. CASE Push
  BY <1>5, LinePushed, OrderKept DEF Push, peerVars, Queued
<1>6. CASE Stop \/ FailPending \/ DrainInFlight
  BY <1>6, LineKept, OrderKept DEF Stop, FailPending, DrainInFlight, peerVars, Queued
<1>7. ASSUME NEW c \in Callers, Route(c) PROVE OrderInv'
  BY <1>7, LineKept, OrderKept DEF Route, peerVars, Queued
<1> QED
  BY <1>2, <1>3, <1>4, <1>5, <1>6, <1>7, OrderRead, OrderDropped DEF Loop

LEMMA StepOrder == TypeInv /\ OrderInv /\ [Next]_vars => OrderInv'
<1> SUFFICES ASSUME TypeInv, OrderInv, [Next]_vars PROVE OrderInv'
  OBVIOUS
<1>1. ASSUME UNCHANGED <<noteVars, loop, inHand, noted, eof, inbox>>, cancelled => cancelled'
      PROVE  OrderInv'
  <2>1. Line' = Line
    BY <1>1 DEF noteVars, Line, InWorker, InLoop
  <2> QED
    BY <1>1, <2>1, OrderKept DEF Queued
<1>2. CASE Cancel
  BY <1>1, <1>2 DEF Cancel, peerVars
<1>3. CASE Worker
  <2>1. UNCHANGED <<noted, eof, inbox, cancelled>>
    BY <1>3 DEF Worker, TakeNote, FinishNote, peerVars, loopVars
  <2> QED
    BY <1>3, <2>1, LineWorked, OrderKept DEF Queued
<1>4. ASSUME NEW c \in Callers, Register(c) \/ CallSteps(c) \/ GiveUp(c) PROVE OrderInv'
  BY <1>1, <1>4 DEF Register, CallSteps, SendCall, Receive, Reclaim, GiveUp, peerVars, loopVars
<1>5. ASSUME NEW h \in Handlers, Notify(h) \/ NotifyWrites(h) \/ Answer(h) PROVE OrderInv'
  BY <1>1, <1>5 DEF Notify, NotifyWrites, Answer, peerVars, loopVars
<1>6. CASE UNCHANGED vars
  BY <1>1, <1>6 DEF vars, peerVars, loopVars
<1> QED
  BY <1>2, <1>3, <1>4, <1>5, <1>6, PeerOrder, LoopOrder DEF Next

LEMMA AlwaysOrder == Spec => [](TypeInv /\ OrderInv)
  BY InitTypes, InitOrder, StepTypes, StepOrder, PTL DEF Spec

\* Notifications are served in the order they were sent: the channel and the
\* worker between the loop and the handler reorder none and repeat none, and
\* only a cancelled context leaves one out.
THEOREM NotesServedInOrder == Spec => []NotesInOrder
<1>1. TypeInv /\ OrderInv => NotesInOrder
  <2> SUFFICES ASSUME TypeInv, OrderInv PROVE NotesInOrder
    OBVIOUS
  <2> DEFINE t == InWorker \o notes \o InLoop
  <2>1. served \in Seq(Notes) /\ t \in Seq(Notes) /\ Line = served \o t
    <3>1. InWorker \o notes \in Seq(Notes) /\ served \o InWorker \in Seq(Notes)
      BY LineTypes, ConcatProperties
    <3>2. (served \o InWorker) \o notes = served \o (InWorker \o notes)
      BY LineTypes, ConcatAssociative
    <3>3. (served \o (InWorker \o notes)) \o InLoop = served \o t
      <4> DEFINE u == InWorker \o notes
      <4>1. served \in Seq(Notes) /\ u \in Seq(Notes) /\ InLoop \in Seq(Notes)
        BY <3>1, LineTypes
      <4>2. t = u \o InLoop
        OBVIOUS
      <4> HIDE DEF u, t
      <4>3. (served \o u) \o InLoop = served \o t
        BY <4>1, <4>2, ConcatAssociative
      <4> QED
        BY <4>3 DEF u
    <3> QED
      BY <3>1, <3>2, <3>3, LineTypes, ConcatProperties DEF Line
  <2> HIDE DEF t, Line
  <2>2. /\ Len(served) \in Nat /\ Len(served) <= Len(Line) /\ Len(Line) \in Nat
        /\ \A i \in 1..Len(served) : Line[i] = served[i]
    <3>1. Len(t) \in Nat /\ Len(served) \in Nat /\ Len(Line) = Len(served) + Len(t)
      BY <2>1, ConcatProperties
    <3>2. \A i \in 1..Len(served) : Line[i] = served[i]
      BY <2>1, <3>1, ConcatProperties
    <3> QED
      BY <3>1, <3>2
  <2>3. \A i \in 1..Len(served) : i \in 1..Len(Line)
    BY <2>2
  <2> QED
    BY <2>2, <2>3 DEF OrderInv, NotesInOrder
<1> QED
  BY <1>1, AlwaysOrder, PTL

-----------------------------------------------------------------------------
(* The agent on its connection.                                            *)

LEMMA MethodsOfHandlers ==
  /\ Inits \subseteq Handlers /\ News \subseteq Handlers /\ Prompts \subseteq Handlers
  /\ Prompts \subseteq Inbound /\ News \cap Prompts = {}
  BY ServeAssumption, HandlersInbound

\* A step of the agent is one of the connection, or leaves it alone.
LEMMA ServeStep == [ServeNext]_serveVars => [Next]_vars
<1> SUFFICES ASSUME [ServeNext]_serveVars PROVE [Next]_vars
  OBVIOUS
<1>1. CASE ConnStep
  <2>1. ASSUME NEW h \in Handlers, Notify(h) \/ NotifyWrites(h) \/ Answer(h) PROVE Next
    BY <2>1 DEF Next
  <2>2. ASSUME Peer \/ Cancel \/ Loop \/ Worker PROVE Next
    BY <2>2 DEF Next
  <2>3. ConnStep => Peer \/ Cancel \/ Loop \/ Worker
                    \/ \E h \in Handlers : Notify(h) \/ NotifyWrites(h) \/ Answer(h)
    BY MethodsOfHandlers DEF ConnStep, Peer
  <2> QED
    BY <1>1, <2>1, <2>2, <2>3
<1>2. ASSUME NEW h \in Prompts, ClientPrompts(h) PROVE Next
  BY <1>2, MethodsOfHandlers DEF ClientPrompts, Next, Peer
<1>3. ASSUME NEW h \in Handlers, HandlerStep(h) PROVE UNCHANGED vars
  BY <1>3 DEF HandlerStep, Refuse, Initialize, NewSession, AddSession, ReleaseSole, BeginTurn,
     EndTurn, Goes
<1> QED
  BY <1>1, <1>2, <1>3 DEF ServeNext, serveVars

\* The agent uses the connection as AcpConn describes it, so that every
\* theorem about Spec holds of the agent too.
THEOREM ServeImplementsConn == ServeSpec => Spec
<1>1. ServeInit => Init
  BY DEF ServeInit
<1> QED
  BY <1>1, ServeStep, PTL DEF ServeSpec, Spec

\* In particular its notifications are served in order.
THEOREM ServeNotesInOrder == ServeSpec => []NotesInOrder
  BY ServeImplementsConn, NotesServedInOrder, PTL

(* Types.                                                                  *)

LEMMA InitServeTypes == ServeInit => ServeTypeOK
<1>1. ServeInit => TypeOK
  BY InitTypes DEF ServeInit, TypeInv
<1> QED
  BY <1>1 DEF ServeInit, ServeTypeOK

LEMMA HandlerStepTypes ==
  ASSUME ServeTypeOK, NEW h \in Handlers, HandlerStep(h)
  PROVE  /\ complete' \in BOOLEAN /\ claimed' \in BOOLEAN /\ active' \in BOOLEAN
         /\ sessions' \subseteq News /\ addressed' \subseteq Prompts
         /\ at' \in [Handlers -> {"start", "claimed", "turn", "ended"}]
<1> USE DEF ServeTypeOK, Goes
<1>1. CASE Refuse(h) \/ Initialize(h)
  BY <1>1 DEF Refuse, Initialize
<1>2. CASE h \in News /\ (NewSession(h) \/ AddSession(h) \/ ReleaseSole(h))
  BY <1>2 DEF NewSession, AddSession, ReleaseSole
<1>3. CASE BeginTurn(h) \/ EndTurn(h)
  BY <1>3 DEF BeginTurn, EndTurn
<1> QED
  BY <1>1, <1>2, <1>3 DEF HandlerStep

LEMMA StepServeTypes == TypeInv /\ ServeTypeOK /\ [ServeNext]_serveVars => ServeTypeOK'
<1> SUFFICES ASSUME TypeInv, ServeTypeOK, [ServeNext]_serveVars PROVE ServeTypeOK'
  OBVIOUS
<1>1. TypeOK'
  BY ServeStep, StepTypes DEF TypeInv
<1>2. ASSUME UNCHANGED sessionVars PROVE ServeTypeOK'
  BY <1>1, <1>2 DEF ServeTypeOK, sessionVars
<1>3. ASSUME NEW h \in Prompts, ClientPrompts(h) PROVE ServeTypeOK'
  BY <1>1, <1>3 DEF ServeTypeOK, ClientPrompts
<1>4. ASSUME NEW h \in Handlers, HandlerStep(h) PROVE ServeTypeOK'
  BY <1>1, <1>4, HandlerStepTypes DEF ServeTypeOK
<1> QED
  BY <1>2, <1>3, <1>4 DEF ServeNext, serveVars

\* Every variable of the agent keeps its type.
THEOREM ServeTypeCorrect == ServeSpec => []ServeTypeOK
<1>1. ServeSpec => []TypeInv
  BY ServeImplementsConn, AlwaysTypes, PTL
<1> QED
  BY <1>1, InitServeTypes, StepServeTypes, PTL DEF ServeSpec

(* The session and its turn.                                               *)

Making == {h \in News : at[h] = "claimed"}

\* At most one request is making a session or has made one, and the claim
\* is its.
SessionInv ==
  /\ \A g, h \in sessions \cup Making : g = h
  /\ sessions \cap Making = {}
  /\ claimed <=> sessions \cup Making # {}

\* At most one prompt runs a turn, and it is not answered.
TurnInv ==
  /\ \A g, h \in Running : g = h
  /\ active <=> Running # {}
  /\ \A h \in Running : handler[h] # "answered"

LEMMA InitSessions == ServeInit => SessionInv /\ TurnInv
  BY MethodsOfHandlers DEF ServeInit, SessionInv, TurnInv, Making, Running

LEMMA NewsSessions ==
  ASSUME ServeTypeOK, SessionInv, NEW h \in News,
         NewSession(h) \/ AddSession(h) \/ ReleaseSole(h)
  PROVE  SessionInv'
<1> USE DEF ServeTypeOK, SessionInv, Goes
<1>1. h \in Handlers /\ News \subseteq Handlers
  BY MethodsOfHandlers
<1>2. CASE NewSession(h)
  <2>1. sessions' = {} /\ Making = {} /\ Making' = {h} /\ claimed'
    BY <1>1, <1>2 DEF NewSession, Making
  <2> QED
    BY <2>1
<1>3. CASE AddSession(h) \/ ReleaseSole(h)
  <2>1. h \in Making /\ Making = {h} /\ sessions = {}
    BY <1>1, <1>3 DEF AddSession, ReleaseSole, Making
  <2>2. Making' = {}
    BY <1>1, <1>3, <2>1 DEF AddSession, ReleaseSole, Making
  <2>3. CASE AddSession(h)
    BY <2>1, <2>2, <2>3 DEF AddSession
  <2>4. CASE ReleaseSole(h)
    BY <2>1, <2>2, <2>4 DEF ReleaseSole
  <2> QED
    BY <1>3, <2>3, <2>4
<1> QED
  BY <1>2, <1>3

LEMMA StepSessions == ServeTypeOK /\ SessionInv /\ [ServeNext]_serveVars => SessionInv'
<1> SUFFICES ASSUME ServeTypeOK, SessionInv, [ServeNext]_serveVars PROVE SessionInv'
  OBVIOUS
<1>1. ASSUME UNCHANGED <<sessions, claimed>>, Making' = Making PROVE SessionInv'
  BY <1>1 DEF SessionInv
<1>2. ASSUME UNCHANGED sessionVars PROVE SessionInv'
  BY <1>1, <1>2 DEF sessionVars, Making
<1>3. ASSUME NEW h \in Prompts, ClientPrompts(h) PROVE SessionInv'
  BY <1>1, <1>3 DEF ClientPrompts, Making
<1>4. ASSUME NEW h \in Handlers, Refuse(h) \/ Initialize(h) \/ BeginTurn(h) \/ EndTurn(h)
      PROVE  SessionInv'
  <2>1. at[h] # "claimed" /\ at'[h] # "claimed" /\ \A g \in Handlers \ {h} : at'[g] = at[g]
    BY <1>4 DEF ServeTypeOK, Refuse, Initialize, BeginTurn, EndTurn, Goes
  <2>2. Making' = Making
    BY <2>1, MethodsOfHandlers DEF Making
  <2> QED
    BY <1>1, <1>4, <2>2 DEF Refuse, Initialize, BeginTurn, EndTurn
<1> QED
  BY <1>2, <1>3, <1>4, NewsSessions DEF ServeNext, serveVars, HandlerStep

LEMMA AlwaysSessions == ServeSpec => [](ServeTypeOK /\ SessionInv)
  BY ServeTypeCorrect, InitSessions, StepSessions, PTL DEF ServeSpec

\* The agent never hosts two sessions, however many session/new requests
\* race, and one that fails gives the slot back.
THEOREM OneSession == ServeSpec => []SoleSession
<1>1. ServeTypeOK /\ SessionInv => SoleSession
  <2> SUFFICES ASSUME ServeTypeOK, SessionInv PROVE SoleSession
    OBVIOUS
  <2>1. Cardinality(sessions) <= 1
    <3>1. CASE sessions = {}
      BY <3>1, FS_EmptySet
    <3>2. ASSUME NEW h \in sessions PROVE Cardinality(sessions) <= 1
      <4>1. sessions = {h}
        BY <3>2 DEF SessionInv
      <4>2. Cardinality({h}) = 1
        BY FS_Singleton
      <4> QED
        BY <4>1, <4>2
    <3> QED
      BY <3>1, <3>2
  <2>2. claimed <=> sessions # {} \/ \E h \in News : at[h] = "claimed"
    BY DEF SessionInv, Making
  <2> QED
    BY <2>1, <2>2 DEF SoleSession
<1> QED
  BY <1>1, AlwaysSessions, PTL

\* A request is answered by the handler that has ended.
LEMMA AnswersEnded ==
  ASSUME TypeInv, ConnStep, NEW h \in Handlers, at[h] # "ended", handler[h] # "answered"
  PROVE  handler'[h] # "answered"
<1> USE DEF TypeInv, TypeOK
<1>1. ASSUME NEW g \in Handlers, at[g] = "ended", Answer(g) PROVE handler'[h] # "answered"
  BY <1>1 DEF Answer
<1>2. ASSUME NEW g \in Handlers, Notify(g) \/ NotifyWrites(g) PROVE handler'[h] # "answered"
  BY <1>2 DEF Notify, NotifyWrites
<1>3. ASSUME Loop PROVE handler'[h] # "answered"
  <2>1. ASSUME NEW g \in Handlers, ReadRequest(g) PROVE handler'[h] # "answered"
    BY <2>1 DEF ReadRequest
  <2>2. ASSUME UNCHANGED handler PROVE handler'[h] # "answered"
    BY <2>2
  <2> QED
    BY <1>3, <2>1, <2>2 DEF Loop, ReadMalformed, ReadNote, ReadResponse, Push, PushGivesUp,
       Route, Stop, FailPending, DrainInFlight
<1>4. ASSUME UNCHANGED handler PROVE handler'[h] # "answered"
  BY <1>4
<1> QED
  BY <1>1, <1>2, <1>3, <1>4, MethodsOfHandlers DEF ConnStep, PeerRequests, PeerNotifies,
     PeerCloses, WriterTurns, Cancel, Worker, TakeNote, FinishNote

LEMMA PromptTurns ==
  ASSUME ServeTypeOK, TurnInv, NEW h \in Prompts, BeginTurn(h) \/ EndTurn(h)
  PROVE  TurnInv'
<1> USE DEF ServeTypeOK, TurnInv, Goes
<1>1. h \in Handlers /\ Prompts \subseteq Handlers
  BY MethodsOfHandlers
<1>2. CASE BeginTurn(h)
  <2>1. Running = {} /\ Running' = {h} /\ active' /\ handler'[h] = "running"
    BY <1>1, <1>2 DEF BeginTurn, Running, vars
  <2> QED
    BY <2>1
<1>3. CASE EndTurn(h)
  <2>1. Running = {h} /\ Running' = {} /\ ~active'
    BY <1>1, <1>3 DEF EndTurn, Running
  <2> QED
    BY <2>1
<1> QED
  BY <1>2, <1>3

LEMMA StepTurns == TypeInv /\ ServeTypeOK /\ TurnInv /\ [ServeNext]_serveVars => TurnInv'
<1> SUFFICES ASSUME TypeInv, ServeTypeOK, TurnInv, [ServeNext]_serveVars PROVE TurnInv'
  OBVIOUS
<1>1. ASSUME Running' = Running, UNCHANGED active,
             \A h \in Running : handler'[h] # "answered"
      PROVE  TurnInv'
  BY <1>1 DEF TurnInv
<1>2. CASE ConnStep /\ UNCHANGED sessionVars
  <2>1. \A h \in Running : h \in Handlers /\ at[h] # "ended" /\ handler[h] # "answered"
    BY MethodsOfHandlers DEF Running, TurnInv
  <2> QED
    BY <1>1, <1>2, <2>1, AnswersEnded DEF sessionVars, Running
<1>3. ASSUME NEW h \in Prompts, ClientPrompts(h) PROVE TurnInv'
  BY <1>1, <1>3 DEF ClientPrompts, PeerRequests, Running, TurnInv
<1>4. ASSUME NEW h \in Handlers,
             Refuse(h) \/ Initialize(h) \/ NewSession(h) \/ AddSession(h) \/ ReleaseSole(h)
      PROVE  TurnInv'
  <2>1. at[h] # "turn" /\ at'[h] # "turn" /\ \A g \in Handlers \ {h} : at'[g] = at[g]
    BY <1>4 DEF ServeTypeOK, Refuse, Initialize, NewSession, AddSession, ReleaseSole, Goes
  <2>2. Running' = Running
    BY <2>1, MethodsOfHandlers DEF Running
  <2>3. UNCHANGED <<handler, active>>
    BY <1>4 DEF Refuse, Initialize, NewSession, AddSession, ReleaseSole, Goes, vars
  <2> QED
    BY <1>1, <2>2, <2>3 DEF TurnInv
<1>5. ASSUME UNCHANGED serveVars PROVE TurnInv'
  BY <1>1, <1>5 DEF serveVars, sessionVars, vars, Running, TurnInv
<1> QED
  BY <1>2, <1>3, <1>4, <1>5, PromptTurns DEF ServeNext, HandlerStep

LEMMA AlwaysTurns == ServeSpec => [](ServeTypeOK /\ TurnInv)
<1>1. ServeSpec => []TypeInv
  BY ServeImplementsConn, AlwaysTypes, PTL
<1> QED
  BY <1>1, ServeTypeCorrect, InitSessions, StepTurns, PTL DEF ServeSpec

\* One turn runs at a time, and the session is busy exactly while the request
\* that runs it is unanswered: a failed turn leaves no session busy.
THEOREM OneTurn == ServeSpec => []TurnSlot
<1>1. ServeTypeOK /\ TurnInv => TurnSlot
  <2> SUFFICES ASSUME TurnInv PROVE TurnSlot
    OBVIOUS
  <2>1. Cardinality(Running) <= 1
    <3>1. CASE Running = {}
      BY <3>1, FS_EmptySet
    <3>2. ASSUME NEW h \in Running PROVE Cardinality(Running) <= 1
      <4>1. Running = {h}
        BY <3>2 DEF TurnInv
      <4>2. Cardinality({h}) = 1
        BY FS_Singleton
      <4> QED
        BY <4>1, <4>2
    <3> QED
      BY <3>1, <3>2
  <2> QED
    BY <2>1 DEF TurnInv, TurnSlot
<1> QED
  BY <1>1, AlwaysTurns, PTL
=============================================================================
