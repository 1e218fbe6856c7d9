----------------------------- MODULE WsHub_proofs -----------------------------
(***************************************************************************)
(* Proofs about WsHub: a turn that is not cancelled can be, and a peer     *)
(* that resumes its session misses no event.                               *)
(***************************************************************************)
EXTENDS WsHub, WellFoundedInduction, SequenceTheorems, TLAPS

TurnStates == {"none", "starting", "running", "over"}

\* The fields of a readPump, whatever values they have.
Fields(r)  == [pc |-> r.pc, since |-> r.since, replay |-> r.replay,
               gone |-> r.gone, turn |-> r.turn]
IsConn(r)  == r = Fields(r)
ConnShape == /\ conn = [c \in Conns |-> conn[c]]
             /\ \A c \in Conns : IsConn(conn[c])

\* Turns are numbered in the order in which their messages came; the handler
\* that starts one holds a number given out.  A turn that is not cancelled is the
\* current one, whatever it is doing: a turn that is over has been cancelled.
TurnTypes ==
  /\ turn \in [Turns -> [state : TurnStates, cancelled : BOOLEAN]]
  /\ started \in 0..MaxTurns /\ current \in 0..started
HandlersHoldTurns ==
  \A c \in Conns : conn[c].pc \in {"turn", "wait"} => conn[c].turn \in 1..started
OnlyStartedAct == \A t \in Turns : turn[t].state # "none" => t <= started
LiveIsCurrent  == \A t \in 1..started : ~turn[t].cancelled => current = t

TurnInv == /\ ConnShape /\ TurnTypes
           /\ HandlersHoldTurns /\ OnlyStartedAct /\ LiveIsCurrent

-----------------------------------------------------------------------------
\* A step that changes neither a readPump nor a turn keeps the invariant.
LEMMA Untouched ==
  ASSUME TurnInv, UNCHANGED <<conn, turns>>
  PROVE  TurnInv'
BY DEF TurnInv, ConnShape, TurnTypes, HandlersHoldTurns, OnlyStartedAct,
       LiveIsCurrent, turns

\* A readPump may go to a place where it starts no turn.
LEMMA Elsewhere ==
  ASSUME TurnInv, UNCHANGED turns, NEW c \in Conns,
         ConnShape', \A d \in Conns : d # c => conn'[d] = conn[d],
         conn'[c].pc \notin {"turn", "wait"}
  PROVE  TurnInv'
BY DEF TurnInv, TurnTypes, HandlersHoldTurns, OnlyStartedAct, LiveIsCurrent, turns

\* One field is changed, the others stay.
LEMMA FieldUpdate ==
  ASSUME NEW r, IsConn(r), NEW x
  PROVE  /\ IsConn([r EXCEPT !.pc = x]) /\ [r EXCEPT !.pc = x].pc = x
         /\ [r EXCEPT !.pc = x].turn = r.turn
         /\ IsConn([r EXCEPT !.since = x]) /\ [r EXCEPT !.since = x].pc = r.pc
         /\ IsConn([r EXCEPT !.replay = x]) /\ [r EXCEPT !.replay = x].pc = r.pc
         /\ IsConn([r EXCEPT !.gone = x]) /\ [r EXCEPT !.gone = x].pc = r.pc
         /\ IsConn([r EXCEPT !.turn = x]) /\ [r EXCEPT !.turn = x].pc = r.pc
         /\ [r EXCEPT !.turn = x].turn = x
BY DEF IsConn, Fields

\* One readPump is changed, the others stay.
LEMMA ConnUpdate ==
  ASSUME ConnShape, NEW c \in Conns, NEW r, IsConn(r),
         conn' = [conn EXCEPT ![c] = r]
  PROVE  /\ ConnShape' /\ conn'[c] = r
         /\ \A d \in Conns : d # c => conn'[d] = conn[d]
BY DEF ConnShape

\* What Go does.
LEMMA Gone ==
  ASSUME ConnShape, NEW c \in Conns, NEW p, Go(c, p)
  PROVE  /\ ConnShape'
         /\ conn'[c].pc = p /\ conn'[c].turn = conn[c].turn
         /\ \A d \in Conns : d # c => conn'[d] = conn[d]
<1> DEFINE r == [conn[c] EXCEPT !.pc = p]
<1>1. IsConn(r) /\ r.pc = p /\ r.turn = conn[c].turn
  <2>1. IsConn(conn[c])
    BY DEF ConnShape
  <2> QED BY <2>1, FieldUpdate, Zenon
<1>2. conn' = [conn EXCEPT ![c] = r]
  BY DEF Go
<1> HIDE DEF r
<1> QED BY <1>1, <1>2, ConnUpdate

\* A readPump that goes to such a place, and changes nothing else of the turns.
LEMMA WentElsewhere ==
  ASSUME TurnInv, UNCHANGED turns, NEW c \in Conns, NEW p, Go(c, p),
         p \notin {"turn", "wait"}
  PROVE  TurnInv'
<1>1. /\ ConnShape' /\ conn'[c].pc = p
      /\ \A d \in Conns : d # c => conn'[d] = conn[d]
  BY Gone DEF TurnInv
<1> QED BY <1>1, Elsewhere

\* Cancelling the current turn keeps the types and leaves no other turn alive.
LEMMA Cancelling ==
  ASSUME HubAssumption, TurnInv
  PROVE  /\ CancelCurrent \in [Turns -> [state : TurnStates, cancelled : BOOLEAN]]
         /\ \A t \in Turns : CancelCurrent[t].state = turn[t].state
         /\ \A t \in 1..started : CancelCurrent[t].cancelled
<1>1. 1..started \subseteq Turns
  BY DEF TurnInv, TurnTypes, Turns, HubAssumption
<1>2. CASE current = 0
  BY <1>1, <1>2 DEF CancelCurrent, TurnInv, TurnTypes, LiveIsCurrent
<1>3. CASE current # 0
  <2>1. current \in Turns
    BY <1>3 DEF TurnInv, TurnTypes, Turns, HubAssumption
  <2> QED BY <1>1, <1>3, <2>1
          DEF CancelCurrent, CancelTurn, TurnInv, TurnTypes, LiveIsCurrent
<1> QED BY <1>2, <1>3

\* The steps that change several fields of a readPump.
LEMMA ConnectStep ==
  ASSUME TurnInv, NEW c \in Conns, Connect(c)
  PROVE  TurnInv'
<1> DEFINE r == [conn[c] EXCEPT !.pc = "ready"]
           q == [r EXCEPT !.since = LastSeq]
<1>1. IsConn(r) /\ r.pc = "ready"
  <2>1. IsConn(conn[c])
    BY DEF TurnInv, ConnShape
  <2> QED BY <2>1, FieldUpdate, Zenon
<1>2. conn' = [conn EXCEPT ![c] = q]
  BY DEF Connect
<1> HIDE DEF r
<1>3. IsConn(q) /\ q.pc = "ready"
  BY <1>1, FieldUpdate
<1> HIDE DEF q
<1>4. UNCHANGED turns
  BY DEF Connect
<1> QED BY <1>2, <1>3, <1>4, ConnUpdate, Elsewhere DEF TurnInv

LEMMA JoinStep ==
  ASSUME TurnInv, NEW c \in Conns, Join(c)
  PROVE  TurnInv'
<1> DEFINE r == [conn[c] EXCEPT !.pc = "ready"]
           q == [r EXCEPT !.gone = 1..seq]
<1>1. IsConn(r) /\ r.pc = "ready"
  <2>1. IsConn(conn[c])
    BY DEF TurnInv, ConnShape
  <2> QED BY <2>1, FieldUpdate, Zenon
<1>2. conn' = [conn EXCEPT ![c] = q]
  BY DEF Join
<1> HIDE DEF r
<1>3. IsConn(q) /\ q.pc = "ready"
  BY <1>1, FieldUpdate
<1> HIDE DEF q
<1>4. UNCHANGED turns
  BY DEF Join
<1> QED BY <1>2, <1>3, <1>4, ConnUpdate, Elsewhere DEF TurnInv

LEMMA SnapshotStep ==
  ASSUME TurnInv, NEW c \in Conns, Snapshot(c)
  PROVE  TurnInv'
<1>1. UNCHANGED turns
  BY DEF Snapshot
<1>2. CASE Gap(conn[c].since)
  <2>1. Go(c, "ready")
    BY <1>2 DEF Snapshot
  <2> QED BY <1>1, <2>1, WentElsewhere
<1>3. CASE ~Gap(conn[c].since)
  <2> DEFINE r == [conn[c] EXCEPT !.pc = "attach"]
             q == [r EXCEPT !.gone = overwritten]
             z == [q EXCEPT !.replay = Since(conn[c].since)]
  <2>1. IsConn(r) /\ r.pc = "attach"
    <3>1. IsConn(conn[c])
      BY DEF TurnInv, ConnShape
    <3> QED BY <3>1, FieldUpdate, Zenon
  <2>2. conn' = [conn EXCEPT ![c] = z]
    BY <1>3 DEF Snapshot
  <2> HIDE DEF r
  <2>3. IsConn(q) /\ q.pc = "attach"
    BY <2>1, FieldUpdate, Zenon
  <2> HIDE DEF q
  <2>4. IsConn(z) /\ z.pc = "attach"
    BY <2>3, FieldUpdate, Zenon
  <2> HIDE DEF z
  <2> QED BY <1>1, <2>2, <2>4, ConnUpdate, Elsewhere DEF TurnInv
<1> QED BY <1>2, <1>3

LEMMA ReplayStep ==
  ASSUME TurnInv, NEW c \in Conns, Replay(c)
  PROVE  TurnInv'
<1>1. UNCHANGED turns
  BY DEF Replay
<1>2. CASE conn[c].replay = <<>>
  <2>1. Go(c, "ready")
    BY <1>2 DEF Replay
  <2> QED BY <1>1, <2>1, WentElsewhere
<1>3. CASE conn[c].replay # <<>>
  <2> DEFINE r == [conn[c] EXCEPT !.replay = Tail(conn[c].replay)]
  <2>1. IsConn(r) /\ r.pc = conn[c].pc
    <3>1. IsConn(conn[c])
      BY DEF TurnInv, ConnShape
    <3> QED BY <3>1, FieldUpdate, Zenon
  <2>2. conn[c].pc = "replay" /\ conn' = [conn EXCEPT ![c] = r]
    BY <1>3 DEF Replay, ConnAt
  <2> HIDE DEF r
  <2> QED BY <1>1, <2>1, <2>2, ConnUpdate, Elsewhere DEF TurnInv
<1> QED BY <1>2, <1>3

-----------------------------------------------------------------------------
(* The steps that change a turn.                                            *)

\* A new turn becomes the current one, and the one before it is cancelled.
LEMMA SwapStep ==
  ASSUME HubAssumption, TurnInv, NEW c \in Conns, Swap(c)
  PROVE  TurnInv'
<1> DEFINE r == [conn[c] EXCEPT !.pc = "turn"]
           q == [r EXCEPT !.turn = started + 1]
<1>1. IsConn(r) /\ r.pc = "turn"
  <2>1. IsConn(conn[c])
    BY DEF TurnInv, ConnShape
  <2> QED BY <2>1 DEF IsConn, Fields
<1>2. conn' = [conn EXCEPT ![c] = q]
  BY DEF Swap
<1> HIDE DEF r
<1>3. IsConn(q) /\ q.pc = "turn" /\ q.turn = started + 1
  BY <1>1, FieldUpdate, Zenon
<1> HIDE DEF q
<1>4. /\ ConnShape' /\ conn'[c] = q
      /\ \A d \in Conns : d # c => conn'[d] = conn[d]
  BY <1>2, <1>3, ConnUpdate DEF TurnInv
<1>5. /\ started' = started + 1 /\ current' = started + 1 /\ started < MaxTurns
      /\ turn' = [CancelCurrent EXCEPT ![started + 1].state = "starting"]
  BY DEF Swap
<1>6. started \in Nat /\ MaxTurns \in Nat /\ started + 1 \in Turns
  BY <1>5 DEF TurnInv, TurnTypes, Turns, HubAssumption
<1>7. TurnTypes'
  BY <1>5, <1>6, Cancelling DEF TurnTypes, TurnStates
<1>8. HandlersHoldTurns'
  BY <1>3, <1>4, <1>5, <1>6 DEF TurnInv, HandlersHoldTurns
<1>9. OnlyStartedAct'
  BY <1>5, <1>6, Cancelling DEF TurnInv, OnlyStartedAct, TurnStates, Turns
<1>10. LiveIsCurrent'
  BY <1>5, <1>6, Cancelling DEF LiveIsCurrent, Turns, TurnStates
<1> QED BY <1>4, <1>7, <1>8, <1>9, <1>10 DEF TurnInv

\* A turn whose context is cancelled is over; another waits to start.
LEMMA CheckTurnStep ==
  ASSUME HubAssumption, TurnInv, NEW c \in Conns, CheckTurn(c)
  PROVE  TurnInv'
<1>1. UNCHANGED <<started, current>> /\ conn[c].pc = "turn"
  BY DEF CheckTurn, ConnAt
<1>2. conn[c].turn \in 1..started /\ conn[c].turn \in Turns
  BY <1>1 DEF TurnInv, HandlersHoldTurns, TurnTypes, Turns, HubAssumption
<1>3. CASE turn[conn[c].turn].cancelled
  <2>1. /\ Go(c, "ready")
        /\ turn' = [turn EXCEPT ![conn[c].turn].state = "over"]
    BY <1>3 DEF CheckTurn
  <2>2. /\ ConnShape' /\ conn'[c].pc = "ready"
        /\ \A d \in Conns : d # c => conn'[d] = conn[d]
    BY <2>1, Gone DEF TurnInv
  <2>3. TurnTypes' /\ OnlyStartedAct' /\ LiveIsCurrent'
    BY <1>1, <1>2, <2>1
       DEF TurnInv, TurnTypes, OnlyStartedAct, LiveIsCurrent, TurnStates, Turns
  <2>4. HandlersHoldTurns'
    BY <1>1, <2>2 DEF TurnInv, HandlersHoldTurns
  <2> QED BY <2>2, <2>3, <2>4 DEF TurnInv
<1>4. CASE ~turn[conn[c].turn].cancelled
  <2>1. Go(c, "wait") /\ turn' = turn
    BY <1>4 DEF CheckTurn
  <2>2. /\ ConnShape' /\ conn'[c].turn = conn[c].turn
        /\ \A d \in Conns : d # c => conn'[d] = conn[d]
    BY <2>1, Gone DEF TurnInv
  <2>3. HandlersHoldTurns'
    BY <1>1, <1>2, <2>2 DEF TurnInv, HandlersHoldTurns
  <2> QED BY <1>1, <2>1, <2>2, <2>3
          DEF TurnInv, TurnTypes, OnlyStartedAct, LiveIsCurrent
<1> QED BY <1>3, <1>4

LEMMA StartTurnStep ==
  ASSUME HubAssumption, TurnInv, NEW c \in Conns, StartTurn(c)
  PROVE  TurnInv'
<1>1. /\ UNCHANGED <<started, current>> /\ conn[c].pc = "wait"
      /\ Go(c, "ready") /\ turn' = [turn EXCEPT ![conn[c].turn].state = "running"]
  BY DEF StartTurn, ConnAt
<1>2. conn[c].turn \in 1..started /\ conn[c].turn \in Turns
  BY <1>1 DEF TurnInv, HandlersHoldTurns, TurnTypes, Turns, HubAssumption
<1>3. /\ ConnShape' /\ conn'[c].pc = "ready"
      /\ \A d \in Conns : d # c => conn'[d] = conn[d]
  BY <1>1, Gone DEF TurnInv
<1>4. TurnTypes' /\ OnlyStartedAct' /\ LiveIsCurrent'
  BY <1>1, <1>2
     DEF TurnInv, TurnTypes, OnlyStartedAct, LiveIsCurrent, TurnStates, Turns
<1>5. HandlersHoldTurns'
  BY <1>1, <1>3 DEF TurnInv, HandlersHoldTurns
<1> QED BY <1>3, <1>4, <1>5 DEF TurnInv

\* Cancel messages and Close cancel the current turn and forget it.
LEMMA CancelStep ==
  ASSUME HubAssumption, TurnInv, UNCHANGED <<conn, started>>,
         turn' = CancelCurrent, current' = 0
  PROVE  TurnInv'
<1>1. started \in Nat
  BY DEF TurnInv, TurnTypes, HubAssumption
<1>2. TurnTypes' /\ OnlyStartedAct' /\ LiveIsCurrent'
  BY <1>1, Cancelling DEF TurnInv, TurnTypes, OnlyStartedAct, LiveIsCurrent
<1> QED BY <1>2 DEF TurnInv, ConnShape, HandlersHoldTurns

LEMMA EndTurnStep ==
  ASSUME HubAssumption, TurnInv, NEW t \in Turns, EndTurn(t)
  PROVE  TurnInv'
<1>1. /\ turn[t].state = "running" /\ UNCHANGED <<started, current, conn>>
      /\ turn' = [turn EXCEPT ![t] = [state |-> "over", cancelled |-> TRUE]]
  BY DEF EndTurn, TurnOver
<1>2. TurnTypes' /\ OnlyStartedAct' /\ LiveIsCurrent'
  BY <1>1 DEF TurnInv, TurnTypes, OnlyStartedAct, LiveIsCurrent, TurnStates, Turns
<1> QED BY <1>1, <1>2 DEF TurnInv, ConnShape, HandlersHoldTurns

-----------------------------------------------------------------------------
\* The invariant holds of the initial states ...
LEMMA InitTurnInv ==
  ASSUME HubAssumption, Init
  PROVE  TurnInv
<1>1. ConnShape /\ HandlersHoldTurns
  BY DEF Init, ConnShape, IsConn, Fields, HandlersHoldTurns
<1>2. TurnTypes /\ OnlyStartedAct /\ LiveIsCurrent
  BY DEF Init, TurnTypes, OnlyStartedAct, LiveIsCurrent, TurnStates, HubAssumption
<1> QED BY <1>1, <1>2 DEF TurnInv

\* ... and every step keeps it.
LEMMA NextTurnInv ==
  ASSUME HubAssumption, TurnInv, [Next]_vars
  PROVE  TurnInv'
<1>1. ASSUME NEW c \in Conns, Network(c)
      PROVE  TurnInv'
  <2>1. CASE Connect(c)
    BY <2>1, ConnectStep
  <2>2. CASE Drop(c) \/ WritePump(c)
    BY <2>2, Untouched DEF Drop, WritePump
  <2> QED BY <1>1, <2>1, <2>2 DEF Network
<1>2. ASSUME NEW c \in Conns, Message(c)
      PROVE  TurnInv'
  <2>1. CASE Create(c)
    <3>1. Go(c, "register") /\ UNCHANGED turns
      BY <2>1 DEF Create
    <3> QED BY <3>1, WentElsewhere
  <2>2. CASE Resume(c)
    <3>1. Go(c, "snapshot") /\ UNCHANGED turns
      BY <2>2 DEF Resume
    <3> QED BY <3>1, WentElsewhere
  <2>3. CASE UserMessage(c)
    <3>1. Go(c, "swap") /\ UNCHANGED turns
      BY <2>3 DEF UserMessage
    <3> QED BY <3>1, WentElsewhere
  <2>4. CASE CancelMessage(c)
    BY <2>4, CancelStep DEF CancelMessage
  <2>5. ASSUME NEW r \in Requests, UIResponse(c, r)
        PROVE  TurnInv'
    BY <2>5, Untouched DEF UIResponse
  <2> QED BY <1>2, <2>1, <2>2, <2>3, <2>4, <2>5 DEF Message
<1>3. ASSUME NEW c \in Conns, ReadPump(c)
      PROVE  TurnInv'
  <2>1. CASE Register(c)
    <3>1. (Go(c, "join") \/ Go(c, "ready")) /\ UNCHANGED turns
      BY <2>1 DEF Register
    <3> QED BY <3>1, WentElsewhere
  <2>2. CASE Attach(c)
    <3>1. Go(c, "replay") /\ UNCHANGED turns
      BY <2>2 DEF Attach
    <3> QED BY <3>1, WentElsewhere
  <2>3. CASE Unregister(c)
    <3>1. (Go(c, "leave") \/ Go(c, "gone")) /\ UNCHANGED turns
      BY <2>3 DEF Unregister
    <3> QED BY <3>1, WentElsewhere
  <2>4. CASE Leave(c)
    <3>1. Go(c, "gone") /\ UNCHANGED turns
      BY <2>4 DEF Leave
    <3> QED BY <3>1, WentElsewhere
  <2> QED BY <1>3, <2>1, <2>2, <2>3, <2>4, JoinStep, SnapshotStep, ReplayStep,
             SwapStep, CheckTurnStep, StartTurnStep DEF ReadPump
<1>4. ASSUME NEW e \in Emitters, Emit(e)
      PROVE  TurnInv'
  BY <1>4, Untouched DEF Emit
<1>5. ASSUME NEW r \in Requests, Request(r)
      PROVE  TurnInv'
  BY <1>5, Untouched DEF Request
<1>6. ASSUME NEW s \in Senders, Broadcast(s)
      PROVE  TurnInv'
  <2>1. UNCHANGED <<conn, turns>>
    BY <1>6 DEF Broadcast, PushEvent, SnapshotClients, SendLive, Publish, Number, Return
  <2> QED BY <2>1, Untouched
<1>7. ASSUME NEW t \in Turns, EndTurn(t)
      PROVE  TurnInv'
  BY <1>7, EndTurnStep
<1>8. CASE CloseHub
  BY <1>8, Untouched DEF CloseHub
<1>9. CASE CloseSessions
  BY <1>9, CancelStep DEF CloseSessions
<1>10. ASSUME NEW c \in Conns, CloseClient(c)
       PROVE  TurnInv'
  BY <1>10, Untouched DEF CloseClient
<1>11. CASE UNCHANGED vars
  BY <1>11, Untouched DEF vars
<1> QED BY <1>1, <1>2, <1>3, <1>4, <1>5, <1>6, <1>7, <1>8, <1>9, <1>10, <1>11 DEF Next

\* With any number of connections, user messages, broadcasts and requests: as
\* long as the hub has the session, a turn that is starting or running and not
\* cancelled is the one SessionState.cancel stands for, so that the next user
\* message, a cancel message or Close reaches it.  A turn that a message under
\* way starts after Close is left out: nothing reaches it any more.
\* (handleUserMessage, handleCancel, Close)
THEOREM TurnsStayCancellable == Spec => []TurnCancellable
<1>1. Init => TurnInv
  BY InitTurnInv, HubAssumption
<1>2. TurnInv /\ [Next]_vars => TurnInv'
  BY NextTurnInv, HubAssumption
<1>3. TurnInv => TurnCancellable
  <2> SUFFICES ASSUME TurnInv, session = "open", NEW t \in Turns,
                      turn[t].state # "none", ~turn[t].cancelled
               PROVE  current = t
    BY DEF TurnCancellable
  <2>1. t <= started /\ started \in Nat /\ t \in Nat /\ t >= 1
    BY HubAssumption DEF TurnInv, OnlyStartedAct, TurnTypes, Turns
  <2> QED BY <2>1 DEF TurnInv, LiveIsCurrent
<1> QED BY <1>1, <1>2, <1>3, PTL DEF Spec

-----------------------------------------------------------------------------
(* The events: facts about sequences, and the loop of RingBuffer.Since.     *)

\* A nonempty set of naturals has a least element.
LEMMA LeastNatural ==
  ASSUME NEW S \in SUBSET Nat, S # {}
  PROVE  \E i \in S : \A j \in S : i <= j
<1> DEFINE R == {ss \in Nat \X Nat : ss[1] < ss[2]}
<1>1. IsWellFoundedOn(R, Nat)
  BY NatLessThanWellFounded DEF OpToRel
<1>2. \A i, j \in S : <<j, i>> \notin R => i <= j
  OBVIOUS
<1>3. \E i \in S : \A j \in S : <<j, i>> \notin R
  <2> HIDE DEF R
  <2> QED BY <1>1, WFMin
<1> QED BY <1>2, <1>3

\* Numbers up to n have a greatest.
LEMMA Greatest ==
  ASSUME NEW n \in Nat, NEW S \in SUBSET (0..n), S # {}
  PROVE  Max(S) \in S
<1> DEFINE D == {n - i : i \in S}
<1>1. D \in SUBSET Nat /\ D # {}
  <2>1. \A i \in S : n - i \in Nat
    OBVIOUS
  <2> QED BY <2>1
<1>2. PICK d \in D : \A e \in D : d <= e
  <2> HIDE DEF D
  <2> QED BY <1>1, LeastNatural
<1>3. PICK m \in S : d = n - m
  BY <1>2
<1>4. ASSUME NEW i \in S
      PROVE  m >= i
  <2>1. n - i \in D /\ i \in Nat /\ m \in Nat
    OBVIOUS
  <2>2. n - m <= n - i
    BY <1>2, <1>3, <2>1
  <2> QED BY <2>1, <2>2
<1> QED BY <1>4 DEF Max

\* What a sequence has after an append, and before its head is taken.
LEMMA RangeAppend ==
  ASSUME NEW S, NEW s \in Seq(S), NEW x \in S
  PROVE  /\ Append(s, x) \in Seq(S)
         /\ Range(Append(s, x)) = Range(s) \cup {x}
<1>1. /\ Append(s, x) \in Seq(S) /\ Len(Append(s, x)) = Len(s) + 1
      /\ \A i \in 1..Len(s) : Append(s, x)[i] = s[i]
      /\ Append(s, x)[Len(s) + 1] = x
  OBVIOUS
<1>2. Len(s) \in Nat /\ DOMAIN s = 1..Len(s)
  OBVIOUS
<1>3. DOMAIN Append(s, x) = 1..(Len(s) + 1)
  BY <1>1, <1>2
<1>4. Range(Append(s, x)) = {Append(s, x)[i] : i \in 1..(Len(s) + 1)}
  BY <1>3 DEF Range
<1>5. Range(s) = {s[i] : i \in 1..Len(s)}
  BY <1>2 DEF Range
<1> QED BY <1>1, <1>2, <1>4, <1>5

LEMMA RangeTail ==
  ASSUME NEW S, NEW s \in Seq(S), s # <<>>
  PROVE  /\ Tail(s) \in Seq(S) /\ Head(s) \in S
         /\ Range(s) = Range(Tail(s)) \cup {Head(s)}
<1>1. /\ Len(s) \in Nat /\ Len(s) # 0 /\ DOMAIN s = 1..Len(s)
      /\ Tail(s) \in Seq(S) /\ Head(s) = s[1] /\ Head(s) \in S
  OBVIOUS
<1>2. /\ Len(Tail(s)) = Len(s) - 1 /\ DOMAIN Tail(s) = 1..(Len(s) - 1)
      /\ \A i \in 1..(Len(s) - 1) : Tail(s)[i] = s[i + 1]
  BY <1>1
<1>3. ASSUME NEW i \in 1..Len(s)
      PROVE  s[i] \in Range(Tail(s)) \cup {Head(s)}
  <2>1. CASE i = 1
    BY <1>1, <2>1
  <2>2. CASE i # 1
    <3>1. i - 1 \in 1..(Len(s) - 1) /\ Tail(s)[i - 1] = s[i]
      BY <1>1, <1>2, <2>2
    <3> QED BY <1>2, <3>1 DEF Range
  <2> QED BY <2>1, <2>2
<1>4. ASSUME NEW i \in 1..(Len(s) - 1)
      PROVE  Tail(s)[i] \in Range(s)
  BY <1>1, <1>2 DEF Range
<1>5. Head(s) \in Range(s)
  BY <1>1 DEF Range
<1> QED BY <1>1, <1>2, <1>3, <1>4, <1>5 DEF Range

\* The loop of Since, over the entries s: its state f after each entry.
Loop(s, last, f, n) ==
  f = [i \in 0..n |-> IF i = 0 THEN <<>>
                      ELSE IF s[i] > last THEN Append(f[i - 1], s[i])
                      ELSE f[i - 1]]

LEMMA LoopRuns ==
  ASSUME NEW s, NEW last, NEW n \in Nat
  PROVE  \E f : Loop(s, last, f, n)
<1> DEFINE Bad == {k \in Nat : ~ \E f : Loop(s, last, f, k)}
<1>1. ASSUME Bad # {}
      PROVE  FALSE
  <2>1. PICK k \in Bad : \A j \in Bad : k <= j
    <3>1. Bad \in SUBSET Nat
      OBVIOUS
    <3> HIDE DEF Bad
    <3> QED BY <1>1, <3>1, LeastNatural
  <2>2. k \in Nat /\ ~ \E f : Loop(s, last, f, k)
    OBVIOUS
  <2>3. CASE k = 0
    <3> DEFINE f == [i \in 0..0 |-> <<>>]
    <3>1. Loop(s, last, f, 0)
      BY DEF Loop
    <3> QED BY <2>2, <2>3, <3>1
  <2>4. CASE k # 0
    <3>1. k - 1 \in Nat /\ k - 1 \notin Bad
      <4>1. k - 1 \in Nat /\ ~(k <= k - 1)
        BY <2>2, <2>4
      <4> HIDE DEF Bad
      <4> QED BY <2>1, <4>1
    <3>2. PICK g : Loop(s, last, g, k - 1)
      BY <3>1
    <3> DEFINE f == [i \in 0..k |->
                       IF i = k THEN IF s[k] > last THEN Append(g[k - 1], s[k])
                                     ELSE g[k - 1]
                       ELSE g[i]]
    <3>3. ASSUME NEW i \in 0..k
          PROVE  f[i] = IF i = 0 THEN <<>>
                        ELSE IF s[i] > last THEN Append(f[i - 1], s[i])
                        ELSE f[i - 1]
      <4>1. CASE i = k
        BY <2>2, <2>4, <4>1
      <4>2. CASE i # k
        <5>1. i \in 0..(k - 1) /\ f[i] = g[i]
          BY <2>2, <4>2
        <5>2. i # 0 => i - 1 \in 0..(k - 1) /\ f[i - 1] = g[i - 1]
          BY <2>2, <4>2
        <5>3. g[i] = IF i = 0 THEN <<>>
                     ELSE IF s[i] > last THEN Append(g[i - 1], s[i])
                     ELSE g[i - 1]
          BY <3>2, <5>1 DEF Loop
        <5> QED BY <5>1, <5>2, <5>3
      <4> QED BY <4>1, <4>2
    <3>4. Loop(s, last, f, k)
      <4>1. f = [i \in 0..k |-> f[i]]
        OBVIOUS
      <4> HIDE DEF f
      <4> QED BY <3>3, <4>1 DEF Loop
    <3> HIDE DEF f
    <3> QED BY <2>2, <3>4
  <2> QED BY <2>3, <2>4
<1> QED BY <1>1

\* What Since returns holds every entry with a greater number, and nothing else.
LEMMA SinceFacts ==
  ASSUME NEW S, buffer \in Seq(S), NEW last
  PROVE  /\ Since(last) \in Seq(S)
         /\ \A n \in Range(buffer) : n > last => n \in Range(Since(last))
<1> DEFINE f == CHOOSE g : Loop(buffer, last, g, Len(buffer))
<1>1. Len(buffer) \in Nat /\ DOMAIN buffer = 1..Len(buffer)
  OBVIOUS
<1>2. Loop(buffer, last, f, Len(buffer))
  BY <1>1, LoopRuns
<1>3. Since(last) = f[Len(buffer)]
  BY DEF Since, Loop
<1> HIDE DEF f
<1> DEFINE Good(i) == /\ f[i] \in Seq(S)
                      /\ \A j \in 1..i : buffer[j] > last => buffer[j] \in Range(f[i])
           Bad == {i \in 0..Len(buffer) : ~Good(i)}
<1>4. \A i \in 0..Len(buffer) :
        f[i] = IF i = 0 THEN <<>>
               ELSE IF buffer[i] > last THEN Append(f[i - 1], buffer[i])
               ELSE f[i - 1]
  BY <1>2 DEF Loop
<1>5. ASSUME NEW i \in 1..Len(buffer), Good(i - 1)
      PROVE  Good(i)
  <2>1. i \in 0..Len(buffer) /\ i - 1 \in 0..Len(buffer) /\ buffer[i] \in S
        /\ i # 0
    BY <1>1
  <2>2. CASE buffer[i] > last
    <3>1. f[i] = Append(f[i - 1], buffer[i])
      BY <1>4, <2>1, <2>2
    <3>2. f[i] \in Seq(S) /\ Range(f[i]) = Range(f[i - 1]) \cup {buffer[i]}
      BY <1>5, <2>1, <3>1, RangeAppend
    <3>3. \A j \in 1..i : j = i \/ j \in 1..(i - 1)
      BY <1>1
    <3> QED BY <1>5, <3>2, <3>3
  <2>3. CASE ~(buffer[i] > last)
    <3>1. f[i] = f[i - 1]
      BY <1>4, <2>1, <2>3
    <3>2. \A j \in 1..i : j = i \/ j \in 1..(i - 1)
      BY <1>1
    <3> QED BY <1>5, <2>3, <3>1, <3>2
  <2> QED BY <2>2, <2>3
<1>6. Good(0)
  <2>1. 0 \in 0..Len(buffer) /\ \A j \in 1..0 : FALSE
    BY <1>1
  <2>2. f[0] = <<>>
    BY <1>4, <2>1
  <2> QED BY <2>1, <2>2
<1>7. Bad = {}
  <2> SUFFICES ASSUME Bad # {} PROVE FALSE
    OBVIOUS
  <2>1. Bad \in SUBSET Nat
    BY <1>1
  <2>2. PICK i \in Bad : \A j \in Bad : i <= j
    <3> HIDE DEF Bad
    <3> QED BY <2>1, LeastNatural
  <2>3. i \in 0..Len(buffer) /\ ~Good(i)
    OBVIOUS
  <2> HIDE DEF Good
  <2>4. i # 0
    BY <1>6, <2>3
  <2>5. i \in 1..Len(buffer) /\ i - 1 \in 0..Len(buffer) /\ ~(i <= i - 1)
    BY <1>1, <2>3, <2>4
  <2>6. Good(i - 1)
    BY <2>2, <2>5
  <2> QED BY <1>5, <2>3, <2>5, <2>6
<1>8. Good(Len(buffer))
  <2>1. Len(buffer) \in 0..Len(buffer)
    BY <1>1
  <2> HIDE DEF Good
  <2> QED BY <1>7, <2>1
<1> QED BY <1>1, <1>3, <1>8 DEF Range

-----------------------------------------------------------------------------
(* The types, by the groups of variables that steps change together.        *)

ConnStates == [pc : ConnPlaces, since : Nat, replay : Seq(Nat),
               gone : SUBSET Nat, turn : 0..MaxTurns]
TaskStates == [pc : TaskPlaces, n : Nat, to : SUBSET Conns, turn : 0..MaxTurns]

LockType   == /\ hOwner \in Conns \cup {NoOne, Closer}
              /\ sOwner \in Conns \cup {NoOne}
              /\ session \in {"absent", "open", "closed"}
EventType  == /\ seq \in Nat /\ buffer \in Seq(Nat) /\ Len(buffer) <= Capacity
              /\ overwritten \subseteq Nat
ClientType == /\ members \subseteq Conns /\ attached \subseteq Conns
              /\ doomed \subseteq Conns
WireType   == /\ open \subseteq Conns /\ peer \in 0..MaxConns
              /\ outbox \in [Conns -> Seq(Nat)] /\ got \in [Conns -> Seq(Nat)]
              /\ \A c \in Conns : Len(outbox[c]) <= SendBuffer
ConnType   == conn \in [Conns -> ConnStates]
TaskType   == task \in [Senders -> TaskStates]
AskType    == /\ uiWait \subseteq Requests /\ answers \subseteq Requests
              /\ answered \subseteq Requests
TurnType   == /\ started \in 0..MaxTurns /\ current \in 0..MaxTurns
              /\ turn \in [Turns -> [state : TurnStates, cancelled : BOOLEAN]]

LEMMA Types == TypeOK <=> /\ LockType /\ EventType /\ ClientType /\ WireType
                          /\ ConnType /\ TaskType /\ AskType /\ TurnType
BY DEF TypeOK, LockType, EventType, ClientType, WireType, ConnType, TaskType,
       AskType, TurnType, ConnStates, TaskStates, TurnStates

LEMMA TypesNext == TypeOK' <=> /\ LockType' /\ EventType' /\ ClientType' /\ WireType'
                               /\ ConnType' /\ TaskType' /\ AskType' /\ TurnType'
BY DEF TypeOK, LockType, EventType, ClientType, WireType, ConnType, TaskType,
       AskType, TurnType, ConnStates, TaskStates, TurnStates

\* What a step leaves alone keeps its type.
LEMMA Kept ==
  /\ LockType /\ UNCHANGED <<locks, session>> => LockType'
  /\ EventType /\ UNCHANGED events => EventType'
  /\ ClientType /\ UNCHANGED clients => ClientType'
  /\ WireType /\ UNCHANGED wire => WireType'
  /\ ConnType /\ UNCHANGED conn => ConnType'
  /\ TaskType /\ UNCHANGED task => TaskType'
  /\ AskType /\ UNCHANGED asks => AskType'
  /\ TurnType /\ UNCHANGED turns => TurnType'
BY DEF LockType, EventType, ClientType, WireType, ConnType, TaskType, AskType,
       TurnType, locks, events, clients, wire, asks, turns

\* What Go does to the state of a readPump.
LEMMA WentTo ==
  ASSUME ConnType, NEW c \in Conns, NEW p \in ConnPlaces, Go(c, p)
  PROVE  /\ ConnType' /\ conn'[c].pc = p
         /\ conn'[c].since = conn[c].since /\ conn'[c].gone = conn[c].gone
         /\ conn'[c].replay = conn[c].replay /\ conn'[c].turn = conn[c].turn
         /\ \A d \in Conns : d # c => conn'[d] = conn[d]
BY DEF ConnType, ConnStates, Go

\* All numbers in use have been given out.
Known ==
  /\ buffer \in Seq(0..seq)
  /\ outbox \in [Conns -> Seq(0..seq)] /\ got \in [Conns -> Seq(0..seq)]
  /\ \A c \in Conns : conn[c].replay \in Seq(0..seq)
  /\ \A s \in Senders : task[s].n \in 0..seq

\* What a connection's channel holds after a send, if it is still open.
LEMMA Sent ==
  ASSUME HubAssumption, seq \in Nat, WireType, Known,
         NEW c \in Conns, NEW n \in 0..seq, Send(c, n)
  PROVE  /\ open' \subseteq open /\ WireType' /\ outbox' \in [Conns -> Seq(0..seq)]
         /\ \A d \in Conns : Range(outbox[d]) \subseteq Range(outbox'[d])
         /\ c \in open' => n \in Range(outbox'[c])
         /\ UNCHANGED <<peer, got>>
<1>1. CASE c \in open /\ Len(outbox[c]) < SendBuffer
  <2>1. outbox' = [outbox EXCEPT ![c] = Append(@, n)] /\ UNCHANGED <<open, peer, got>>
    BY <1>1 DEF Send
  <2>2. outbox \in [Conns -> Seq(0..seq)] /\ outbox[c] \in Seq(0..seq)
    BY DEF Known
  <2>3. /\ Append(outbox[c], n) \in Seq(0..seq)
        /\ Range(Append(outbox[c], n)) = Range(outbox[c]) \cup {n}
    BY <2>2, RangeAppend
  <2>4. /\ outbox \in [Conns -> Seq(Nat)] /\ n \in Nat
        /\ \A d \in Conns : Len(outbox[d]) <= SendBuffer
    BY DEF WireType
  <2>5. Append(outbox[c], n) \in Seq(Nat) /\ Len(Append(outbox[c], n)) <= SendBuffer
    <3>1. Len(Append(outbox[c], n)) = Len(outbox[c]) + 1 /\ Len(outbox[c]) \in Nat
      BY <2>4
    <3> QED BY <1>1, <2>4, <3>1 DEF HubAssumption
  <2>6. /\ outbox'[c] = Append(outbox[c], n)
        /\ \A d \in Conns : d # c => outbox'[d] = outbox[d]
    BY <2>1, <2>2
  <2>7. outbox' \in [Conns -> Seq(0..seq)] /\ outbox' \in [Conns -> Seq(Nat)]
    BY <2>1, <2>2, <2>3, <2>4, <2>5
  <2>8. \A d \in Conns : Len(outbox'[d]) <= SendBuffer
    BY <2>4, <2>5, <2>6
  <2>9. WireType'
    BY <2>1, <2>7, <2>8 DEF WireType
  <2> QED BY <2>1, <2>3, <2>6, <2>7, <2>9
<1>2. CASE ~(c \in open /\ Len(outbox[c]) < SendBuffer)
  <2>1. open' = open \ {c} /\ UNCHANGED <<outbox, peer, got>>
    BY <1>2 DEF Send
  <2> QED BY <2>1 DEF WireType, Known
<1> QED BY <1>1, <1>2

\* What writePump takes from the channel the peer gets.
LEMMA Written ==
  ASSUME HubAssumption, seq \in Nat, WireType, Known, NEW c \in Conns, WritePump(c)
  PROVE  /\ open' = open /\ peer' = peer /\ WireType'
         /\ outbox' \in [Conns -> Seq(0..seq)] /\ got' \in [Conns -> Seq(0..seq)]
         /\ \A d \in Conns : Range(got[d]) \subseteq Range(got'[d])
         /\ \A d \in Conns : d = peer =>
              Range(outbox[d]) \subseteq Range(got'[d]) \cup Range(outbox'[d])
<1>1. /\ outbox[c] # <<>> /\ outbox' = [outbox EXCEPT ![c] = Tail(@)]
      /\ got' = IF c = peer THEN [got EXCEPT ![c] = Append(@, Head(outbox[c]))] ELSE got
      /\ UNCHANGED <<open, peer>>
  BY DEF WritePump
<1>2. /\ outbox \in [Conns -> Seq(0..seq)] /\ got \in [Conns -> Seq(0..seq)]
      /\ outbox[c] \in Seq(0..seq) /\ got[c] \in Seq(0..seq)
  BY DEF Known
<1>3. /\ Tail(outbox[c]) \in Seq(0..seq) /\ Head(outbox[c]) \in 0..seq
      /\ Range(outbox[c]) = Range(Tail(outbox[c])) \cup {Head(outbox[c])}
  BY <1>1, <1>2, RangeTail
<1>4. /\ Append(got[c], Head(outbox[c])) \in Seq(0..seq)
      /\ Range(Append(got[c], Head(outbox[c]))) = Range(got[c]) \cup {Head(outbox[c])}
  BY <1>2, <1>3, RangeAppend
<1>5. outbox' \in [Conns -> Seq(0..seq)] /\ got' \in [Conns -> Seq(0..seq)]
  BY <1>1, <1>2, <1>3, <1>4
<1>6. Seq(0..seq) \subseteq Seq(Nat)
  BY SeqMonotonic
<1>7. \A d \in Conns : Len(outbox'[d]) <= SendBuffer
  <2>1. Len(Tail(outbox[c])) <= SendBuffer
    BY <1>1, <1>2 DEF WireType, HubAssumption
  <2> QED BY <1>1, <1>2, <2>1 DEF WireType
<1>8. WireType'
  BY <1>1, <1>5, <1>6, <1>7 DEF WireType
<1>9. \A d \in Conns : Range(got[d]) \subseteq Range(got'[d])
  BY <1>1, <1>2, <1>4
<1>10. \A d \in Conns : d = peer =>
              Range(outbox[d]) \subseteq Range(got'[d]) \cup Range(outbox'[d])
  BY <1>1, <1>2, <1>3, <1>4
<1> QED BY <1>1, <1>5, <1>8, <1>9, <1>10

\* What a peer resumes from is a number.
LEMMA LastSeqType ==
  ASSUME seq \in Nat, Known
  PROVE  LastSeq \in Nat
<1> DEFINE S == {0} \cup UNION {Range(got[c]) : c \in Conns}
<1>1. \A c \in Conns : Range(got[c]) \subseteq 0..seq
  BY RangeOfSeq DEF Known
<1>2. S \in SUBSET (0..seq) /\ S # {}
  BY <1>1
<1>3. Max(S) \in S
  <2> HIDE DEF S
  <2> QED BY <1>2, Greatest
<1> QED BY <1>2, <1>3 DEF LastSeq

-----------------------------------------------------------------------------
(* The invariant behind NoEventMissed.                                      *)

\* Only a connection that is being resumed has something to replay.
ReplayOver == \A c \in Conns :
  conn[c].pc \notin {"attach", "replay"} => conn[c].replay = <<>>

\* A connection the peer has not opened is not a client, and a readPump leaves
\* only when its connection is closed, which it stays.
AwayApart  == \A c \in Conns : conn[c].pc = "away" => c \notin attached
LeftClosed == \A c \in Conns : conn[c].pc \in {"leave", "gone"} => c \notin open

\* An event that has its number is in the buffer, has been pushed out of it, or
\* its broadcast is about to push it.
Buffered == \A n \in 1..seq :
  \/ n \in Range(buffer) \/ n \in overwritten
  \/ \E s \in Senders : task[s].pc = "push" /\ task[s].n = n

\* A broadcast that has the event n still to send to c.
Carries(s, c, n) ==
  /\ task[s].n = n
  /\ \/ task[s].pc \in {"push", "clients"}
     \/ task[s].pc = "send" /\ c \in task[s].to

\* Where an event that c may not miss can be.
Covered(c, n) ==
  \/ n \in Range(got[c]) \/ n \in Range(outbox[c]) \/ n \in Range(conn[c].replay)
  \/ \E s \in Senders : Carries(s, c, n)

\* From the moment the peer's connection is a client until it is closed, it is
\* one for the broadcasts too, and no event it may not miss is nowhere.
Joined(c) == c = peer /\ c \in open /\ (c \in attached \/ conn[c].pc = "attach")
NothingLost == \A c \in Conns : Joined(c) =>
  /\ c \in members
  /\ \A n \in 1..seq : n > conn[c].since /\ n \notin conn[c].gone => Covered(c, n)

Places   == ReplayOver /\ AwayApart /\ LeftClosed
EventInv == TypeOK /\ Known /\ Places /\ Buffered /\ NothingLost

\* The invariant after a step, in the parts the steps prove.
LEMMA EventInvNext ==
  ASSUME LockType', EventType', ClientType', WireType', ConnType', TaskType',
         AskType', TurnType', Known', ReplayOver', AwayApart', LeftClosed',
         Buffered', NothingLost'
  PROVE  EventInv'
BY TypesNext DEF EventInv, Places

\* Steps that touch neither connections, clients nor events.
LEMMA NotInvolved ==
  ASSUME EventInv, UNCHANGED <<events, wire, clients, conn, task>>,
         LockType', AskType', TurnType'
  PROVE  EventInv'
<1>1. EventType' /\ ClientType' /\ WireType' /\ ConnType' /\ TaskType'
  BY Types, Kept DEF EventInv
<1>2. Known'
  BY DEF EventInv, Known, events, wire
<1>3. ReplayOver' /\ AwayApart' /\ LeftClosed'
  BY DEF EventInv, Places, ReplayOver, AwayApart, LeftClosed, wire, clients
<1>4. Buffered'
  BY DEF EventInv, Buffered, events
<1>5. NothingLost'
  BY DEF EventInv, NothingLost, Joined, Covered, Carries, events, wire, clients
<1> QED BY <1>1, <1>2, <1>3, <1>4, <1>5, EventInvNext

\* Steps of a readPump to a place that is neither in the middle of a resume nor
\* the end of an open connection.
LEMMA Walked ==
  ASSUME EventInv, UNCHANGED <<events, wire, clients, task>>,
         NEW c \in Conns, ConnType', \A d \in Conns : d # c => conn'[d] = conn[d],
         conn'[c].since = conn[c].since, conn'[c].gone = conn[c].gone,
         conn'[c].replay = <<>>, conn[c].replay = <<>>,
         conn'[c].pc \notin {"away", "attach"},
         conn'[c].pc \in {"leave", "gone"} => c \notin open,
         LockType', AskType', TurnType'
  PROVE  EventInv'
<1>1. EventType' /\ ClientType' /\ WireType' /\ TaskType'
  BY Types, Kept DEF EventInv
<1>2. Known'
  BY DEF EventInv, Known, events, wire
<1>3. ReplayOver' /\ AwayApart' /\ LeftClosed'
  BY DEF EventInv, Places, ReplayOver, AwayApart, LeftClosed, wire, clients
<1>4. Buffered'
  BY DEF EventInv, Buffered, events
<1>5. NothingLost'
  <2> SUFFICES ASSUME NEW d \in Conns, Joined(d)'
               PROVE  /\ d \in members'
                      /\ \A n \in 1..seq' : n > conn'[d].since /\ n \notin conn'[d].gone
                                              => Covered(d, n)'
    BY DEF NothingLost
  <2>1. Joined(d)
    BY DEF Joined, wire, clients
  <2>2. conn'[d].since = conn[d].since /\ conn'[d].gone = conn[d].gone
        /\ conn'[d].replay = conn[d].replay
    OBVIOUS
  <2>3. \A n : Covered(d, n) => Covered(d, n)'
    BY <2>2 DEF Covered, Carries, wire
  <2> QED BY <2>1, <2>2, <2>3 DEF EventInv, NothingLost, events, clients
<1> QED BY <1>1, <1>2, <1>3, <1>4, <1>5, EventInvNext

\* The same for Go.
LEMMA WalkedTo ==
  ASSUME EventInv, UNCHANGED <<events, wire, clients, task>>,
         NEW c \in Conns, NEW p \in ConnPlaces \ {"away", "attach", "leave", "gone"},
         Go(c, p), conn[c].pc \notin {"attach", "replay"} \/ conn[c].replay = <<>>,
         LockType', AskType', TurnType'
  PROVE  EventInv'
<1>1. ConnType
  BY Types DEF EventInv
<1>2. /\ ConnType' /\ conn'[c].pc = p
      /\ conn'[c].since = conn[c].since /\ conn'[c].gone = conn[c].gone
      /\ conn'[c].replay = conn[c].replay
      /\ \A d \in Conns : d # c => conn'[d] = conn[d]
  BY <1>1, WentTo
<1>3. conn[c].replay = <<>>
  BY DEF EventInv, Places, ReplayOver
<1> QED BY <1>2, <1>3, Walked

-----------------------------------------------------------------------------
(* The steps of the network and of the readPumps.                           *)

\* The peer gives its last connection up: what that one missed is lost, and the
\* next is no client yet.
LEMMA Connected ==
  ASSUME HubAssumption, EventInv, NEW c \in Conns, Connect(c)
  PROVE  EventInv'
<1> DEFINE r == [conn[c] EXCEPT !.pc = "ready", !.since = LastSeq]
<1>1. /\ conn[c].pc = "away" /\ c = peer + 1 /\ peer' = c /\ open' = open \cup {c}
      /\ conn' = [conn EXCEPT ![c] = r]
      /\ UNCHANGED <<locks, session, events, clients, outbox, got, task, asks, turns>>
  BY DEF Connect, ConnAt
<1>2. /\ LockType /\ EventType /\ ClientType /\ WireType /\ ConnType /\ TaskType
      /\ AskType /\ TurnType
  BY Types DEF EventInv
<1>3. LastSeq \in Nat
  BY <1>2, LastSeqType DEF EventInv, EventType
<1>4. /\ r \in ConnStates /\ r.pc = "ready" /\ r.replay = conn[c].replay
      /\ conn \in [Conns -> ConnStates]
  BY <1>2, <1>3 DEF ConnType, ConnStates, ConnPlaces
<1> HIDE DEF r
<1>5. /\ ConnType' /\ conn'[c] = r
      /\ \A d \in Conns : d # c => conn'[d] = conn[d]
  BY <1>1, <1>4 DEF ConnType
<1>6. /\ LockType' /\ EventType' /\ ClientType' /\ TaskType' /\ AskType' /\ TurnType'
  BY <1>1, <1>2, Kept
<1>7. WireType'
  BY <1>1, <1>2 DEF WireType, Conns, HubAssumption
<1>8. Known'
  BY <1>1, <1>4, <1>5 DEF EventInv, Known, events
<1>9. ReplayOver' /\ AwayApart' /\ LeftClosed'
  BY <1>1, <1>4, <1>5 DEF EventInv, Places, ReplayOver, AwayApart, LeftClosed, clients
<1>10. Buffered'
  BY <1>1 DEF EventInv, Buffered, events
<1>11. NothingLost'
  BY <1>1, <1>4, <1>5 DEF EventInv, Places, AwayApart, NothingLost, Joined, clients
<1> QED BY <1>5, <1>6, <1>7, <1>8, <1>9, <1>10, <1>11, EventInvNext

LEMMA Dropped ==
  ASSUME EventInv, NEW c \in Conns, Drop(c)
  PROVE  EventInv'
<1>1. /\ open' = open \ {c}
      /\ UNCHANGED <<locks, session, events, clients, outbox, peer, got, conn, task,
                     asks, turns>>
  BY DEF Drop
<1>2. /\ LockType /\ EventType /\ ClientType /\ WireType /\ ConnType /\ TaskType
      /\ AskType /\ TurnType
  BY Types DEF EventInv
<1>3. /\ LockType' /\ EventType' /\ ClientType' /\ ConnType' /\ TaskType'
      /\ AskType' /\ TurnType'
  BY <1>1, <1>2, Kept
<1>4. WireType'
  BY <1>1, <1>2 DEF WireType
<1>5. Known'
  BY <1>1 DEF EventInv, Known, events
<1>6. ReplayOver' /\ AwayApart' /\ LeftClosed'
  BY <1>1 DEF EventInv, Places, ReplayOver, AwayApart, LeftClosed, clients
<1>7. Buffered'
  BY <1>1 DEF EventInv, Buffered, events
<1>8. NothingLost'
  BY <1>1 DEF EventInv, NothingLost, Joined, Covered, Carries, events, clients
<1> QED BY <1>3, <1>4, <1>5, <1>6, <1>7, <1>8, EventInvNext

LEMMA WritePumped ==
  ASSUME HubAssumption, EventInv, NEW c \in Conns, WritePump(c)
  PROVE  EventInv'
<1>1. UNCHANGED <<locks, session, events, clients, open, peer, conn, task, asks, turns>>
  BY DEF WritePump
<1>2. /\ LockType /\ EventType /\ ClientType /\ WireType /\ ConnType /\ TaskType
      /\ AskType /\ TurnType
  BY Types DEF EventInv
<1>3. /\ LockType' /\ EventType' /\ ClientType' /\ ConnType' /\ TaskType'
      /\ AskType' /\ TurnType'
  BY <1>1, <1>2, Kept
<1>4. seq \in Nat /\ Known
  BY <1>2 DEF EventInv, EventType
<1>5. /\ WireType'
      /\ outbox' \in [Conns -> Seq(0..seq)] /\ got' \in [Conns -> Seq(0..seq)]
      /\ \A d \in Conns : Range(got[d]) \subseteq Range(got'[d])
      /\ \A d \in Conns : d = peer =>
           Range(outbox[d]) \subseteq Range(got'[d]) \cup Range(outbox'[d])
  BY <1>2, <1>4, Written
<1>6. Known'
  BY <1>1, <1>4, <1>5 DEF Known, events
<1>7. ReplayOver' /\ AwayApart' /\ LeftClosed'
  BY <1>1 DEF EventInv, Places, ReplayOver, AwayApart, LeftClosed, clients
<1>8. Buffered'
  BY <1>1 DEF EventInv, Buffered, events
<1>9. NothingLost'
  <2> SUFFICES ASSUME NEW d \in Conns, Joined(d)'
               PROVE  /\ d \in members'
                      /\ \A n \in 1..seq' : n > conn'[d].since /\ n \notin conn'[d].gone
                                              => Covered(d, n)'
    BY DEF NothingLost
  <2>1. Joined(d) /\ d = peer
    BY <1>1 DEF Joined, clients
  <2>2. \A n : Covered(d, n) => Covered(d, n)'
    BY <1>1, <1>5, <2>1 DEF Covered, Carries
  <2> QED BY <1>1, <2>1, <2>2 DEF EventInv, NothingLost, events, clients
<1> QED BY <1>3, <1>5, <1>6, <1>7, <1>8, <1>9, EventInvNext

\* The client of a new session: nothing that was broadcast before is for it.
LEMMA Registered ==
  ASSUME EventInv, NEW c \in Conns, Join(c)
  PROVE  EventInv'
<1> DEFINE r == [conn[c] EXCEPT !.pc = "ready", !.gone = 1..seq]
<1>1. /\ conn[c].pc = "join" /\ members' = members \cup {c}
      /\ attached' = attached \cup {c} /\ hOwner' = NoOne
      /\ conn' = [conn EXCEPT ![c] = r]
      /\ UNCHANGED <<sOwner, session, events, doomed, wire, task, asks, turns>>
  BY DEF Join, ConnAt
<1>2. /\ LockType /\ EventType /\ ClientType /\ WireType /\ ConnType /\ TaskType
      /\ AskType /\ TurnType
  BY Types DEF EventInv
<1>3. 1..seq \in SUBSET Nat
  BY <1>2 DEF EventType
<1>4. /\ r \in ConnStates /\ r.pc = "ready" /\ r.replay = conn[c].replay
      /\ r.gone = 1..seq /\ conn \in [Conns -> ConnStates]
  BY <1>2, <1>3 DEF ConnType, ConnStates, ConnPlaces
<1> HIDE DEF r
<1>5. /\ ConnType' /\ conn'[c] = r
      /\ \A d \in Conns : d # c => conn'[d] = conn[d]
  BY <1>1, <1>4 DEF ConnType
<1>6. /\ EventType' /\ WireType' /\ TaskType' /\ AskType' /\ TurnType'
  BY <1>1, <1>2, Kept
<1>7. LockType' /\ ClientType'
  BY <1>1, <1>2 DEF LockType, ClientType
<1>8. Known'
  BY <1>1, <1>4, <1>5 DEF EventInv, Known, events, wire
<1>9. ReplayOver' /\ AwayApart' /\ LeftClosed'
  BY <1>1, <1>4, <1>5 DEF EventInv, Places, ReplayOver, AwayApart, LeftClosed, wire
<1>10. Buffered'
  BY <1>1 DEF EventInv, Buffered, events
<1>11. ASSUME NEW d \in Conns, Joined(d)'
       PROVE  /\ d \in members'
              /\ \A n \in 1..seq' : n > conn'[d].since /\ n \notin conn'[d].gone
                                      => Covered(d, n)'
  <2>1. CASE d = c
    BY <1>1, <1>4, <1>5, <2>1 DEF events
  <2>2. CASE d # c
    <3>1. Joined(d) /\ conn'[d] = conn[d]
      BY <1>1, <1>5, <1>11, <2>2 DEF Joined, wire
    <3>2. \A n : Covered(d, n) => Covered(d, n)'
      BY <1>1, <3>1 DEF Covered, Carries, wire
    <3> QED BY <1>1, <3>1, <3>2 DEF EventInv, NothingLost, events
  <2> QED BY <2>1, <2>2
<1>12. NothingLost'
  BY <1>11 DEF NothingLost
<1> QED BY <1>5, <1>6, <1>7, <1>8, <1>9, <1>10, <1>12, EventInvNext

\* The resumed client: what it may not miss is in the buffer, and so in its
\* replay, or its broadcast has not looked at the clients yet.
LEMMA Resumed ==
  ASSUME EventInv, NEW c \in Conns, Snapshot(c), ~Gap(conn[c].since)
  PROVE  EventInv'
<1> DEFINE r == [conn[c] EXCEPT !.pc = "attach", !.gone = overwritten,
                                !.replay = Since(conn[c].since)]
<1>1. /\ conn[c].pc = "snapshot" /\ members' = members \cup {c} /\ sOwner' = c
      /\ conn' = [conn EXCEPT ![c] = r]
      /\ UNCHANGED <<hOwner, session, events, attached, doomed, wire, task, asks, turns>>
  BY DEF Snapshot, ConnAt
<1>2. /\ LockType /\ EventType /\ ClientType /\ WireType /\ ConnType /\ TaskType
      /\ AskType /\ TurnType /\ Known
  BY Types DEF EventInv
<1>3. /\ Since(conn[c].since) \in Seq(0..seq)
      /\ \A n \in Range(buffer) :
           n > conn[c].since => n \in Range(Since(conn[c].since))
  BY <1>2, SinceFacts DEF Known
<1>4. Since(conn[c].since) \in Seq(Nat) /\ overwritten \in SUBSET Nat
  <2>1. Seq(0..seq) \subseteq Seq(Nat)
    BY <1>2, SeqMonotonic DEF EventType
  <2> QED BY <1>2, <1>3, <2>1 DEF EventType
<1>5. /\ r \in ConnStates /\ r.pc = "attach" /\ r.since = conn[c].since
      /\ r.gone = overwritten /\ r.replay = Since(conn[c].since)
      /\ conn \in [Conns -> ConnStates]
  BY <1>2, <1>4 DEF ConnType, ConnStates, ConnPlaces
<1> HIDE DEF r
<1>6. /\ ConnType' /\ conn'[c] = r
      /\ \A d \in Conns : d # c => conn'[d] = conn[d]
  BY <1>1, <1>5 DEF ConnType
<1>7. /\ EventType' /\ WireType' /\ TaskType' /\ AskType' /\ TurnType'
  BY <1>1, <1>2, Kept
<1>8. LockType' /\ ClientType'
  BY <1>1, <1>2 DEF LockType, ClientType
<1>9. Known'
  BY <1>1, <1>2, <1>3, <1>5, <1>6 DEF Known, events, wire
<1>10. ReplayOver' /\ AwayApart' /\ LeftClosed'
  BY <1>1, <1>5, <1>6 DEF EventInv, Places, ReplayOver, AwayApart, LeftClosed, wire
<1>11. Buffered'
  BY <1>1 DEF EventInv, Buffered, events
<1>12. ASSUME NEW n \in 1..seq, n > conn[c].since, n \notin overwritten
       PROVE  Covered(c, n)'
  <2>1. CASE n \in Range(buffer)
    <3>1. n \in Range(conn'[c].replay)
      BY <1>3, <1>5, <1>6, <1>12, <2>1
    <3> QED BY <3>1 DEF Covered
  <2>2. CASE n \notin Range(buffer)
    <3>1. PICK s \in Senders : task[s].pc = "push" /\ task[s].n = n
      BY <1>12, <2>2 DEF EventInv, Buffered
    <3>2. Carries(s, c, n)'
      BY <1>1, <3>1 DEF Carries
    <3> QED BY <3>2 DEF Covered
  <2> QED BY <2>1, <2>2
<1>13. ASSUME NEW d \in Conns, Joined(d)'
       PROVE  /\ d \in members'
              /\ \A n \in 1..seq' : n > conn'[d].since /\ n \notin conn'[d].gone
                                      => Covered(d, n)'
  <2>1. CASE d = c
    BY <1>1, <1>5, <1>6, <1>12, <2>1 DEF events
  <2>2. CASE d # c
    <3>1. Joined(d) /\ conn'[d] = conn[d]
      BY <1>1, <1>6, <1>13, <2>2 DEF Joined, wire
    <3>2. \A n : Covered(d, n) => Covered(d, n)'
      BY <1>1, <3>1 DEF Covered, Carries, wire
    <3> QED BY <1>1, <3>1, <3>2 DEF EventInv, NothingLost, events
  <2> QED BY <2>1, <2>2
<1>14. NothingLost'
  BY <1>13 DEF NothingLost
<1> QED BY <1>6, <1>7, <1>8, <1>9, <1>10, <1>11, <1>14, EventInvNext

LEMMA Attached ==
  ASSUME EventInv, NEW c \in Conns, Attach(c)
  PROVE  EventInv'
<1>1. /\ conn[c].pc = "attach" /\ Go(c, "replay") /\ sOwner' = NoOne
      /\ attached' = attached \cup {c}
      /\ UNCHANGED <<hOwner, session, events, members, doomed, wire, task, asks, turns>>
  BY DEF Attach, ConnAt
<1>2. /\ LockType /\ EventType /\ ClientType /\ WireType /\ ConnType /\ TaskType
      /\ AskType /\ TurnType
  BY Types DEF EventInv
<1>3. /\ ConnType' /\ conn'[c].pc = "replay"
      /\ conn'[c].since = conn[c].since /\ conn'[c].gone = conn[c].gone
      /\ conn'[c].replay = conn[c].replay
      /\ \A d \in Conns : d # c => conn'[d] = conn[d]
  <2>1. "replay" \in ConnPlaces
    BY DEF ConnPlaces
  <2> QED BY <1>1, <1>2, <2>1, WentTo
<1>4. /\ EventType' /\ WireType' /\ TaskType' /\ AskType' /\ TurnType'
  BY <1>1, <1>2, Kept
<1>5. LockType' /\ ClientType'
  BY <1>1, <1>2 DEF LockType, ClientType
<1>6. Known'
  BY <1>1, <1>3 DEF EventInv, Known, events, wire
<1>7. ReplayOver' /\ AwayApart' /\ LeftClosed'
  BY <1>1, <1>3 DEF EventInv, Places, ReplayOver, AwayApart, LeftClosed, wire
<1>8. Buffered'
  BY <1>1 DEF EventInv, Buffered, events
<1>9. ASSUME NEW d \in Conns, Joined(d)'
      PROVE  /\ d \in members'
             /\ \A n \in 1..seq' : n > conn'[d].since /\ n \notin conn'[d].gone
                                     => Covered(d, n)'
  <2>1. Joined(d)
    BY <1>1, <1>3, <1>9 DEF Joined, wire
  <2>2. \A n : Covered(d, n) => Covered(d, n)'
    BY <1>1, <1>3 DEF Covered, Carries, wire
  <2>3. conn'[d].since = conn[d].since /\ conn'[d].gone = conn[d].gone
    BY <1>3
  <2> QED BY <1>1, <2>1, <2>2, <2>3 DEF EventInv, NothingLost, events
<1>10. NothingLost'
  BY <1>9 DEF NothingLost
<1> QED BY <1>3, <1>4, <1>5, <1>6, <1>7, <1>8, <1>10, EventInvNext

\* What is taken from the replay is in the channel of the connection, or that
\* was full and the connection is closed.
LEMMA Replayed ==
  ASSUME HubAssumption, EventInv, NEW c \in Conns, Replay(c), conn[c].replay # <<>>
  PROVE  EventInv'
<1> DEFINE n0 == Head(conn[c].replay)
           r  == [conn[c] EXCEPT !.replay = Tail(@)]
<1>1. /\ conn[c].pc = "replay" /\ Send(c, n0)
      /\ conn' = [conn EXCEPT ![c] = r]
      /\ UNCHANGED <<locks, session, events, clients, task, asks, turns>>
  BY DEF Replay, ConnAt
<1>2. /\ LockType /\ EventType /\ ClientType /\ WireType /\ ConnType /\ TaskType
      /\ AskType /\ TurnType /\ Known
  BY Types DEF EventInv
<1>3. /\ Tail(conn[c].replay) \in Seq(0..seq) /\ n0 \in 0..seq
      /\ Range(conn[c].replay) = Range(Tail(conn[c].replay)) \cup {n0}
  <2>1. conn[c].replay \in Seq(0..seq)
    BY <1>2 DEF Known
  <2> QED BY <2>1, RangeTail
<1>4. Tail(conn[c].replay) \in Seq(Nat)
  <2>1. conn[c].replay \in Seq(Nat)
    BY <1>2 DEF ConnType, ConnStates
  <2> QED BY <2>1, RangeTail
<1>5. /\ r \in ConnStates /\ r.pc = conn[c].pc /\ r.since = conn[c].since
      /\ r.gone = conn[c].gone /\ r.replay = Tail(conn[c].replay)
      /\ conn \in [Conns -> ConnStates]
  BY <1>2, <1>4 DEF ConnType, ConnStates
<1> HIDE DEF r, n0
<1>6. /\ ConnType' /\ conn'[c] = r
      /\ \A d \in Conns : d # c => conn'[d] = conn[d]
  BY <1>1, <1>5 DEF ConnType
<1>7. /\ open' \subseteq open /\ WireType' /\ outbox' \in [Conns -> Seq(0..seq)]
      /\ \A d \in Conns : Range(outbox[d]) \subseteq Range(outbox'[d])
      /\ c \in open' => n0 \in Range(outbox'[c])
      /\ UNCHANGED <<peer, got>>
  BY <1>1, <1>2, <1>3, Sent DEF EventType
<1>8. /\ LockType' /\ EventType' /\ ClientType' /\ TaskType' /\ AskType' /\ TurnType'
  BY <1>1, <1>2, Kept
<1>9. Known'
  BY <1>1, <1>2, <1>3, <1>5, <1>6, <1>7 DEF Known, events
<1>10. ReplayOver' /\ AwayApart' /\ LeftClosed'
  BY <1>1, <1>5, <1>6, <1>7
     DEF EventInv, Places, ReplayOver, AwayApart, LeftClosed, clients
<1>11. Buffered'
  BY <1>1 DEF EventInv, Buffered, events
<1>12. ASSUME NEW d \in Conns, Joined(d)'
       PROVE  /\ d \in members'
              /\ \A n \in 1..seq' : n > conn'[d].since /\ n \notin conn'[d].gone
                                      => Covered(d, n)'
  <2>1. Joined(d) /\ d \in open'
    BY <1>1, <1>5, <1>6, <1>7, <1>12 DEF Joined, clients
  <2>2. conn'[d].since = conn[d].since /\ conn'[d].gone = conn[d].gone
    BY <1>5, <1>6
  <2>3. Range(conn[d].replay) \subseteq Range(conn'[d].replay) \cup Range(outbox'[d])
    BY <1>3, <1>5, <1>6, <1>7, <2>1
  <2>4. \A n : Covered(d, n) => Covered(d, n)'
    BY <1>1, <1>7, <2>3 DEF Covered, Carries
  <2> QED BY <1>1, <2>1, <2>2, <2>4 DEF EventInv, NothingLost, events, clients
<1>13. NothingLost'
  BY <1>12 DEF NothingLost
<1> QED BY <1>6, <1>7, <1>8, <1>9, <1>10, <1>11, <1>13, EventInvNext

\* A new turn takes the place of the one that was current.
LEMMA Swapped ==
  ASSUME HubAssumption, EventInv, NEW c \in Conns, Swap(c)
  PROVE  EventInv'
<1> DEFINE r == [conn[c] EXCEPT !.pc = "turn", !.turn = started + 1]
<1>1. /\ conn[c].pc = "swap" /\ started < MaxTurns
      /\ started' = started + 1 /\ current' = started + 1
      /\ turn' = [CancelCurrent EXCEPT ![started + 1].state = "starting"]
      /\ conn' = [conn EXCEPT ![c] = r]
      /\ UNCHANGED <<locks, session, events, clients, wire, task, asks>>
  BY DEF Swap, ConnAt
<1>2. LockType /\ ConnType /\ AskType /\ TurnType
  BY Types DEF EventInv
<1>3. started + 1 \in 0..MaxTurns
  BY <1>1, <1>2 DEF TurnType, HubAssumption
<1>4. TurnType'
  <2>1. CancelCurrent \in [Turns -> [state : TurnStates, cancelled : BOOLEAN]]
    BY <1>2 DEF TurnType, CancelCurrent, CancelTurn
  <2>2. turn' \in [Turns -> [state : TurnStates, cancelled : BOOLEAN]]
    <3>1. "starting" \in TurnStates
      BY DEF TurnStates
    <3> HIDE DEF TurnStates
    <3> QED BY <1>1, <2>1, <3>1
  <2> QED BY <1>1, <1>3, <2>2 DEF TurnType
<1>5. /\ r \in ConnStates /\ r.pc = "turn" /\ r.since = conn[c].since
      /\ r.gone = conn[c].gone /\ r.replay = conn[c].replay
      /\ conn \in [Conns -> ConnStates]
  BY <1>2, <1>3 DEF ConnType, ConnStates, ConnPlaces
<1> HIDE DEF r
<1>6. /\ ConnType' /\ conn'[c] = r
      /\ \A d \in Conns : d # c => conn'[d] = conn[d]
  BY <1>1, <1>5 DEF ConnType
<1>7. LockType' /\ AskType'
  BY <1>1, <1>2, Kept
<1>8. conn[c].replay = <<>>
  BY <1>1 DEF EventInv, Places, ReplayOver
<1> QED BY <1>1, <1>4, <1>5, <1>6, <1>7, <1>8, Walked

\* Only a connection that is closed is let go.
LEMMA Unregistered ==
  ASSUME EventInv, NEW c \in Conns, Unregister(c)
  PROVE  EventInv'
<1>1. /\ conn[c].pc = "ready" /\ c \notin open
      /\ (hOwner' = c /\ Go(c, "leave")) \/ (hOwner' = hOwner /\ Go(c, "gone"))
      /\ UNCHANGED <<sOwner, session, events, clients, wire, task, asks, turns>>
  BY DEF Unregister, ConnAt
<1>2. LockType /\ ConnType /\ AskType /\ TurnType
  BY Types DEF EventInv
<1>3. LockType' /\ AskType' /\ TurnType'
  BY <1>1, <1>2, Kept DEF LockType
<1>4. ASSUME NEW p \in {"leave", "gone"}, Go(c, p)
      PROVE  EventInv'
  <2>1. p \in ConnPlaces
    BY DEF ConnPlaces
  <2>2. /\ ConnType' /\ conn'[c].pc = p
        /\ conn'[c].since = conn[c].since /\ conn'[c].gone = conn[c].gone
        /\ conn'[c].replay = conn[c].replay
        /\ \A d \in Conns : d # c => conn'[d] = conn[d]
    BY <1>2, <1>4, <2>1, WentTo
  <2>3. conn[c].replay = <<>>
    BY <1>1 DEF EventInv, Places, ReplayOver
  <2> QED BY <1>1, <1>3, <2>2, <2>3, Walked
<1> QED BY <1>1, <1>4

\* A connection that is let go is closed: no open one loses its place.
LEMMA Left ==
  ASSUME EventInv, NEW c \in Conns, Leave(c)
  PROVE  EventInv'
<1>1. /\ conn[c].pc = "leave" /\ Go(c, "gone") /\ hOwner' = NoOne
      /\ members' = members \ {c} /\ attached' = attached \ {c}
      /\ UNCHANGED <<sOwner, session, events, doomed, wire, task, asks, turns>>
  BY DEF Leave, ConnAt
<1>2. /\ LockType /\ EventType /\ ClientType /\ WireType /\ ConnType /\ TaskType
      /\ AskType /\ TurnType
  BY Types DEF EventInv
<1>3. /\ ConnType' /\ conn'[c].pc = "gone"
      /\ conn'[c].since = conn[c].since /\ conn'[c].gone = conn[c].gone
      /\ conn'[c].replay = conn[c].replay
      /\ \A d \in Conns : d # c => conn'[d] = conn[d]
  <2>1. "gone" \in ConnPlaces
    BY DEF ConnPlaces
  <2> QED BY <1>1, <1>2, <2>1, WentTo
<1>4. /\ EventType' /\ WireType' /\ TaskType' /\ AskType' /\ TurnType'
  BY <1>1, <1>2, Kept
<1>5. LockType' /\ ClientType'
  BY <1>1, <1>2 DEF LockType, ClientType
<1>6. Known'
  BY <1>1, <1>3 DEF EventInv, Known, events, wire
<1>7. ReplayOver' /\ AwayApart' /\ LeftClosed'
  BY <1>1, <1>3 DEF EventInv, Places, ReplayOver, AwayApart, LeftClosed, wire
<1>8. Buffered'
  BY <1>1 DEF EventInv, Buffered, events
<1>9. ASSUME NEW d \in Conns, Joined(d)'
      PROVE  /\ d \in members'
             /\ \A n \in 1..seq' : n > conn'[d].since /\ n \notin conn'[d].gone
                                     => Covered(d, n)'
  <2>1. d # c
    BY <1>1, <1>9 DEF EventInv, Places, LeftClosed, Joined, wire
  <2>2. Joined(d) /\ conn'[d] = conn[d]
    BY <1>1, <1>3, <1>9, <2>1 DEF Joined, wire
  <2>3. \A n : Covered(d, n) => Covered(d, n)'
    BY <1>1, <2>2 DEF Covered, Carries, wire
  <2> QED BY <1>1, <2>1, <2>2, <2>3 DEF EventInv, NothingLost, events
<1>10. NothingLost'
  BY <1>9 DEF NothingLost
<1> QED BY <1>3, <1>4, <1>5, <1>6, <1>7, <1>8, <1>10, EventInvNext

-----------------------------------------------------------------------------
(* The steps of the broadcasts.                                             *)

\* One broadcast moves on.
LEMMA OneTask ==
  ASSUME TaskType, NEW s \in Senders, NEW r \in TaskStates,
         task' = [task EXCEPT ![s] = r]
  PROVE  /\ TaskType' /\ task'[s] = r
         /\ \A q \in Senders : q # s => task'[q] = task[q]
BY DEF TaskType

\* A step of one broadcast keeps the invariant if what it had to push is pushed
\* and what it had to send is sent.
LEMMA BroadcastStep ==
  ASSUME EventInv, UNCHANGED <<locks, session, clients, conn, turns>>,
         NEW s \in Senders, NEW r \in TaskStates,
         task' = [task EXCEPT ![s] = r], r.n \in 0..seq',
         EventType', WireType', AskType', UNCHANGED <<peer, got>>, open' \subseteq open,
         outbox' \in [Conns -> Seq(0..seq')],
         \A c \in Conns : Range(outbox[c]) \subseteq Range(outbox'[c]),
         seq <= seq', buffer' \in Seq(0..seq'), Buffered',
         \A c \in Conns, n \in Nat :
           Carries(s, c, n) /\ Joined(c)' /\ c \in members
             => Carries(s, c, n)' \/ n \in Range(outbox'[c]),
         \A n \in Nat : n \in 1..seq' => n \in 1..seq \/ \A c : Carries(s, c, n)'
  PROVE  EventInv'
<1>1. /\ LockType /\ EventType /\ ClientType /\ WireType /\ ConnType /\ TaskType
      /\ AskType /\ TurnType /\ Known
  BY Types DEF EventInv
<1>2. LockType' /\ ClientType' /\ ConnType' /\ TurnType'
  BY <1>1, Kept
<1>3. /\ TaskType' /\ task'[s] = r
      /\ \A q \in Senders : q # s => task'[q] = task[q]
  BY <1>1, OneTask
<1>4. seq \in Nat /\ seq' \in Nat
  BY <1>1 DEF EventType
<1>5. 0..seq \subseteq 0..seq' /\ Seq(0..seq) \subseteq Seq(0..seq')
  <2>1. 0..seq \subseteq 0..seq'
    BY <1>4
  <2> QED BY <2>1, SeqMonotonic
<1>6. Known'
  <2>1. got' \in [Conns -> Seq(0..seq')]
    BY <1>1, <1>5 DEF Known
  <2>2. \A c \in Conns : conn'[c].replay \in Seq(0..seq')
    BY <1>1, <1>5 DEF Known
  <2>3. \A q \in Senders : task'[q].n \in 0..seq'
    BY <1>1, <1>3, <1>5 DEF Known
  <2> QED BY <2>1, <2>2, <2>3 DEF Known
<1>7. ReplayOver' /\ AwayApart' /\ LeftClosed'
  BY DEF EventInv, Places, ReplayOver, AwayApart, LeftClosed, clients
<1>8. ASSUME NEW d \in Conns, Joined(d)'
      PROVE  /\ d \in members'
             /\ \A n \in 1..seq' : n > conn'[d].since /\ n \notin conn'[d].gone
                                     => Covered(d, n)'
  <2>1. Joined(d)
    BY <1>8 DEF Joined, clients
  <2>2. d \in members
    BY <2>1 DEF EventInv, NothingLost
  <2>3. ASSUME NEW n \in 1..seq', n > conn[d].since, n \notin conn[d].gone
        PROVE  Covered(d, n)'
    <3>1. n \in Nat
      BY <1>4
    <3>2. CASE \A c : Carries(s, c, n)'
      BY <3>2 DEF Covered
    <3>3. CASE n \in 1..seq
      <4>1. Covered(d, n)
        BY <2>1, <2>3, <3>3 DEF EventInv, NothingLost
      <4>2. CASE n \in Range(got[d]) \/ n \in Range(conn[d].replay)
        BY <4>2 DEF Covered
      <4>3. CASE n \in Range(outbox[d])
        BY <4>3 DEF Covered
      <4>4. ASSUME NEW q \in Senders, Carries(q, d, n)
            PROVE  Covered(d, n)'
        <5>1. CASE q = s
          BY <1>8, <2>2, <3>1, <4>4, <5>1 DEF Covered
        <5>2. CASE q # s
          <6>1. Carries(q, d, n)'
            BY <1>3, <4>4, <5>2 DEF Carries
          <6> QED BY <6>1 DEF Covered
        <5> QED BY <5>1, <5>2
      <4> QED BY <4>1, <4>2, <4>3, <4>4 DEF Covered
    <3> QED BY <3>1, <3>2, <3>3
  <2> QED BY <2>2, <2>3 DEF clients
<1>9. NothingLost'
  BY <1>8 DEF NothingLost
<1> QED BY <1>2, <1>3, <1>6, <1>7, <1>9, EventInvNext

\* One that changes nothing but its own state, and pushes and sends nothing.
LEMMA TaskMoves ==
  ASSUME EventInv, UNCHANGED <<locks, session, events, clients, wire, conn, turns>>,
         NEW s \in Senders, NEW r \in TaskStates,
         task' = [task EXCEPT ![s] = r], r.n = task[s].n, task[s].pc # "push",
         AskType',
         \A c \in Conns : task[s].pc = "clients" \/ (task[s].pc = "send" /\ c \in task[s].to)
             => r.pc = "send" /\ (c \in members => c \in r.to)
  PROVE  EventInv'
<1>1. EventType /\ WireType /\ Known /\ TaskType
  BY Types DEF EventInv
<1>2. EventType' /\ WireType'
  BY <1>1, Kept
<1>3. /\ task'[s] = r
      /\ \A q \in Senders : q # s => task'[q] = task[q]
  BY <1>1, OneTask
<1>4. r.n \in 0..seq' /\ UNCHANGED <<seq, buffer, overwritten, open, outbox, peer, got>>
  BY <1>1 DEF Known, events, wire
<1>5. Buffered'
  BY <1>3, <1>4 DEF EventInv, Buffered
<1>6. \A c \in Conns, n \in Nat :
        Carries(s, c, n) /\ Joined(c)' /\ c \in members
          => Carries(s, c, n)' \/ n \in Range(outbox'[c])
  BY <1>3 DEF Carries
<1>7. outbox' \in [Conns -> Seq(0..seq')] /\ buffer' \in Seq(0..seq') /\ seq <= seq'
  BY <1>1, <1>4 DEF Known, EventType
<1> QED BY <1>2, <1>4, <1>5, <1>6, <1>7, BroadcastStep

\* The next number is given to a broadcast that is about to push it.
LEMMA Numbered ==
  ASSUME EventInv, NEW s \in Senders, task[s].pc \in {"idle", "number"},
         seq' = seq + 1,
         task' = [task EXCEPT ![s] = [@ EXCEPT !.pc = "push", !.n = seq + 1]],
         UNCHANGED <<locks, session, buffer, overwritten, clients, wire, conn, asks,
                     turns>>
  PROVE  EventInv'
<1> DEFINE r == [task[s] EXCEPT !.pc = "push", !.n = seq + 1]
<1>1. EventType /\ WireType /\ TaskType /\ AskType /\ Known /\ seq \in Nat
  BY Types DEF EventInv, EventType
<1>2. /\ r \in TaskStates /\ r.pc = "push" /\ r.n = seq + 1
      /\ task' = [task EXCEPT ![s] = r]
  <2>1. task[s] \in TaskStates /\ seq + 1 \in Nat /\ "push" \in TaskPlaces
    BY <1>1 DEF TaskType, TaskPlaces
  <2>2. r \in TaskStates /\ r.pc = "push" /\ r.n = seq + 1
    <3> HIDE DEF TaskPlaces
    <3> QED BY <2>1 DEF TaskStates
  <2>3. task' = [task EXCEPT ![s] = r]
    BY <1>1, Zenon DEF TaskType
  <2> QED BY <2>2, <2>3
<1> HIDE DEF r
<1>3. /\ task'[s] = r
      /\ \A q \in Senders : q # s => task'[q] = task[q]
  BY <1>1, <1>2, OneTask
<1>4. EventType'
  BY <1>1 DEF EventType
<1>5. WireType' /\ AskType'
  BY <1>1, Kept
<1>6. 0..seq \subseteq 0..seq' /\ Seq(0..seq) \subseteq Seq(0..seq') /\ seq <= seq'
  <2>1. 0..seq \subseteq 0..seq' /\ seq <= seq'
    BY <1>1
  <2> QED BY <2>1, SeqMonotonic
<1>7. outbox' \in [Conns -> Seq(0..seq')] /\ buffer' \in Seq(0..seq')
  BY <1>1, <1>6 DEF Known, wire
<1>8. ASSUME NEW n \in 1..seq'
      PROVE  n \in 1..seq \/ (n = seq + 1 /\ \A c : Carries(s, c, n)')
  BY <1>1, <1>2, <1>3 DEF Carries
<1>9. Buffered'
  <2> SUFFICES ASSUME NEW n \in 1..seq'
               PROVE  \/ n \in Range(buffer') \/ n \in overwritten'
                      \/ \E q \in Senders : task'[q].pc = "push" /\ task'[q].n = n
    BY DEF Buffered
  <2>1. CASE n = seq + 1
    BY <1>2, <1>3, <2>1
  <2>2. CASE n \in 1..seq
    BY <1>3, <2>2 DEF EventInv, Buffered
  <2> QED BY <1>8, <2>1, <2>2
<1>10. \A c \in Conns, n \in Nat : ~Carries(s, c, n)
  BY DEF Carries
<1>11. r.n \in 0..seq' /\ UNCHANGED <<open, outbox, peer, got>>
  BY <1>1, <1>2 DEF wire
<1> QED BY <1>2, <1>4, <1>5, <1>6, <1>7, <1>8, <1>9, <1>10, <1>11, BroadcastStep

LEMMA EmitStep ==
  ASSUME EventInv, NEW s \in Emitters, Emit(s)
  PROVE  EventInv'
BY Numbered DEF Emit, TaskAt, Senders

LEMMA NumberStep ==
  ASSUME EventInv, NEW s \in Requests, Number(s)
  PROVE  EventInv'
BY Numbered DEF Number, TaskAt, Senders

\* The event is in the buffer; the one pushed out of it is accounted for.
LEMMA Pushed ==
  ASSUME HubAssumption, EventInv, NEW s \in Senders, PushEvent(s)
  PROVE  EventInv'
<1> DEFINE r == [task[s] EXCEPT !.pc = "clients"]
           n0 == task[s].n
<1>1. /\ task[s].pc = "push" /\ Push(n0)
      /\ UNCHANGED <<locks, session, seq, clients, wire, conn, asks, turns>>
  BY DEF PushEvent, TaskAt
<1>2. EventType /\ WireType /\ TaskType /\ AskType /\ Known /\ seq \in Nat
  BY Types DEF EventInv, EventType
<1>3. /\ r \in TaskStates /\ r.pc = "clients" /\ r.n = n0 /\ task' = [task EXCEPT ![s] = r]
  BY <1>2 DEF TaskType, TaskStates, TaskPlaces, PushEvent
<1> HIDE DEF r
<1>4. /\ task'[s] = r
      /\ \A q \in Senders : q # s => task'[q] = task[q]
  BY <1>2, <1>3, OneTask
<1>5. WireType' /\ AskType'
  BY <1>1, <1>2, Kept
<1>6. n0 \in 0..seq /\ n0 \in Nat /\ buffer \in Seq(0..seq) /\ buffer \in Seq(Nat)
      /\ Len(buffer) <= Capacity /\ overwritten \subseteq Nat
  BY <1>2 DEF Known, EventType
<1> HIDE DEF n0
<1>7. /\ buffer' \in Seq(0..seq) /\ EventType' /\ n0 \in Range(buffer')
      /\ Range(buffer) \subseteq Range(buffer') \cup overwritten'
      /\ overwritten \subseteq overwritten'
  <2>1. CASE Len(buffer) < Capacity
    <3>1. buffer' = Append(buffer, n0) /\ overwritten' = overwritten
      BY <1>1, <2>1 DEF Push
    <3>2. /\ buffer' \in Seq(0..seq) /\ Range(buffer') = Range(buffer) \cup {n0}
      BY <1>6, <3>1, RangeAppend
    <3>3. buffer' \in Seq(Nat) /\ Len(buffer') = Len(buffer) + 1 /\ Len(buffer) \in Nat
      BY <1>6, <3>1
    <3>4. EventType'
      BY <1>1, <1>2, <2>1, <3>1, <3>3 DEF EventType, HubAssumption
    <3> QED BY <3>1, <3>2, <3>4
  <2>2. CASE ~(Len(buffer) < Capacity)
    <3>1. /\ buffer' = Append(Tail(buffer), n0)
          /\ overwritten' = overwritten \cup {Head(buffer)}
      BY <1>1, <2>2 DEF Push
    <3>2. buffer # <<>> /\ Len(buffer) \in Nat
      BY <1>6, <2>2 DEF HubAssumption
    <3>3. /\ Tail(buffer) \in Seq(0..seq) /\ Head(buffer) \in Nat
          /\ Range(buffer) = Range(Tail(buffer)) \cup {Head(buffer)}
      BY <1>6, <3>2, RangeTail
    <3>4. /\ buffer' \in Seq(0..seq) /\ Range(buffer') = Range(Tail(buffer)) \cup {n0}
      <4>1. \A b \in Seq(0..seq) : /\ Append(b, n0) \in Seq(0..seq)
                                    /\ Range(Append(b, n0)) = Range(b) \cup {n0}
        <5>1. n0 \in 0..seq
          BY <1>6
        <5> QED BY <5>1, RangeAppend
      <4> QED BY <3>1, <3>3, <4>1
    <3>5. buffer' \in Seq(Nat) /\ Len(buffer') = Len(buffer)
      BY <1>6, <3>1, <3>2
    <3>6. EventType'
      BY <1>1, <1>2, <1>6, <3>1, <3>3, <3>5 DEF EventType
    <3> QED BY <3>1, <3>3, <3>4, <3>6
  <2> QED BY <2>1, <2>2
<1>8. Buffered'
  <2> SUFFICES ASSUME NEW n \in 1..seq'
               PROVE  \/ n \in Range(buffer') \/ n \in overwritten'
                      \/ \E q \in Senders : task'[q].pc = "push" /\ task'[q].n = n
    BY DEF Buffered
  <2>1. CASE n \in Range(buffer) \/ n \in overwritten
    BY <1>7, <2>1
  <2>2. ASSUME NEW q \in Senders, task[q].pc = "push", task[q].n = n
        PROVE  \/ n \in Range(buffer')
               \/ \E p \in Senders : task'[p].pc = "push" /\ task'[p].n = n
    <3>1. CASE q = s
      BY <1>7, <2>2, <3>1 DEF n0
    <3>2. CASE q # s
      BY <1>4, <2>2, <3>2
    <3> QED BY <3>1, <3>2
  <2> QED BY <1>1, <2>1, <2>2 DEF EventInv, Buffered
<1>9. \A c \in Conns, n \in Nat : Carries(s, c, n) => Carries(s, c, n)'
  BY <1>3, <1>4 DEF Carries, n0
<1>10. /\ UNCHANGED <<open, outbox, peer, got>> /\ seq <= seq' /\ r.n \in 0..seq'
       /\ outbox' \in [Conns -> Seq(0..seq')] /\ buffer' \in Seq(0..seq')
  BY <1>1, <1>2, <1>3, <1>6, <1>7 DEF wire, Known
<1> QED BY <1>1, <1>3, <1>5, <1>7, <1>8, <1>9, <1>10, BroadcastStep

\* The event goes to the clients there are.
LEMMA Addressed ==
  ASSUME EventInv, NEW s \in Senders, SnapshotClients(s)
  PROVE  EventInv'
<1> DEFINE r == [task[s] EXCEPT !.pc = "send", !.to = members]
<1>1. ClientType /\ TaskType /\ AskType
  BY Types DEF EventInv
<1>2. /\ r \in TaskStates /\ r.pc = "send" /\ r.n = task[s].n /\ r.to = members
      /\ task' = [task EXCEPT ![s] = r]
  BY <1>1 DEF TaskType, TaskStates, TaskPlaces, ClientType, SnapshotClients
<1> HIDE DEF r
<1>3. /\ task[s].pc = "clients"
      /\ UNCHANGED <<locks, session, events, clients, wire, conn, asks, turns>>
  BY DEF SnapshotClients, TaskAt
<1>4. AskType'
  BY <1>1, <1>3, Kept
<1> QED BY <1>2, <1>3, <1>4, TaskMoves

\* A client the event is sent to has it in its channel, or is closed.
LEMMA SentLive ==
  ASSUME HubAssumption, EventInv, NEW s \in Senders, SendLive(s)
  PROVE  EventInv'
<1>1. PICK c \in task[s].to :
        Send(c, task[s].n) /\ task' = [task EXCEPT ![s].to = @ \ {c}]
  BY DEF SendLive
<1> DEFINE r == [task[s] EXCEPT !.to = @ \ {c}]
<1>2. EventType /\ WireType /\ TaskType /\ AskType /\ Known /\ seq \in Nat
  BY Types DEF EventInv, EventType
<1>3. c \in Conns /\ task[s].n \in 0..seq
  BY <1>1, <1>2 DEF TaskType, TaskStates, Known
<1>4. /\ r \in TaskStates /\ r.pc = task[s].pc /\ r.n = task[s].n
      /\ r.to = task[s].to \ {c} /\ task' = [task EXCEPT ![s] = r]
  BY <1>1, <1>2 DEF TaskType, TaskStates
<1> HIDE DEF r
<1>5. /\ task[s].pc = "send"
      /\ UNCHANGED <<locks, session, events, clients, conn, asks, turns>>
  BY DEF SendLive, TaskAt
<1>6. /\ open' \subseteq open /\ WireType' /\ outbox' \in [Conns -> Seq(0..seq)]
      /\ \A d \in Conns : Range(outbox[d]) \subseteq Range(outbox'[d])
      /\ c \in open' => task[s].n \in Range(outbox'[c])
      /\ UNCHANGED <<peer, got>>
  BY <1>1, <1>2, <1>3, Sent
<1>7. EventType' /\ AskType'
  BY <1>2, <1>5, Kept
<1>8. /\ task'[s] = r
      /\ \A q \in Senders : q # s => task'[q] = task[q]
  BY <1>2, <1>4, OneTask
<1>9. Buffered'
  BY <1>4, <1>5, <1>8 DEF EventInv, Buffered, events
<1>10. \A d \in Conns, n \in Nat :
        Carries(s, d, n) /\ Joined(d)' /\ d \in members
          => Carries(s, d, n)' \/ n \in Range(outbox'[d])
  BY <1>4, <1>5, <1>6, <1>8 DEF Carries, Joined
<1>11. /\ seq' = seq /\ seq <= seq' /\ r.n \in 0..seq' /\ buffer' \in Seq(0..seq')
       /\ outbox' \in [Conns -> Seq(0..seq')]
  BY <1>2, <1>3, <1>4, <1>5, <1>6 DEF events, Known
<1> QED BY <1>4, <1>5, <1>6, <1>7, <1>9, <1>10, <1>11, BroadcastStep

\* The other steps of a broadcast, and of the request it is part of.
LEMMA OtherTaskSteps ==
  ASSUME EventInv, NEW s \in Senders,
         Publish(s) \/ (s \in Requests /\ (Request(s) \/ Return(s)))
  PROVE  EventInv'
<1>1. TaskType /\ AskType
  BY Types DEF EventInv
<1>2. CASE Publish(s)
  <2> DEFINE p == IF s \in Requests THEN "wait" ELSE "idle"
             r == [task[s] EXCEPT !.pc = p]
  <2>1. p \in TaskPlaces
    BY DEF TaskPlaces
  <2>2. task' = [task EXCEPT ![s] = r]
    BY <1>1, <1>2 DEF TaskType, Publish
  <2> HIDE DEF p
  <2>3. r \in TaskStates /\ r.n = task[s].n
    BY <1>1, <2>1 DEF TaskType, TaskStates
  <2> HIDE DEF r
  <2>4. /\ task[s].pc = "send" /\ task[s].to = {}
        /\ UNCHANGED <<locks, session, events, clients, wire, conn, asks, turns>>
    BY <1>2 DEF Publish, TaskAt
  <2>5. AskType'
    BY <1>1, <2>4, Kept
  <2> QED BY <2>2, <2>3, <2>4, <2>5, TaskMoves
<1>3. CASE s \in Requests /\ Request(s)
  <2>1. PICK t \in Running :
          task' = [task EXCEPT ![s].pc = "number", ![s].turn = t]
    BY <1>3 DEF Request
  <2> DEFINE r == [task[s] EXCEPT !.pc = "number", !.turn = t]
  <2>2. t \in 0..MaxTurns
    BY DEF Running, Turns
  <2>3. r \in TaskStates /\ r.n = task[s].n /\ task' = [task EXCEPT ![s] = r]
    BY <1>1, <2>1, <2>2 DEF TaskType, TaskStates, TaskPlaces
  <2> HIDE DEF r
  <2>4. /\ task[s].pc = "idle"
        /\ UNCHANGED <<locks, session, events, clients, wire, conn, turns>>
    BY <1>3 DEF Request, TaskAt
  <2>5. AskType'
    BY <1>1, <1>3 DEF AskType, Request
  <2> QED BY <2>3, <2>4, <2>5, TaskMoves
<1>4. CASE s \in Requests /\ Return(s)
  <2> DEFINE r == [task[s] EXCEPT !.pc = "done"]
  <2>1. r \in TaskStates /\ r.n = task[s].n /\ task' = [task EXCEPT ![s] = r]
    BY <1>1, <1>4 DEF TaskType, TaskStates, TaskPlaces, Return
  <2> HIDE DEF r
  <2>2. /\ task[s].pc = "wait"
        /\ UNCHANGED <<locks, session, events, clients, wire, conn, turns>>
    BY <1>4 DEF Return, TaskAt
  <2>3. AskType'
    BY <1>1, <1>4 DEF AskType, Return
  <2> QED BY <2>1, <2>2, <2>3, TaskMoves
<1> QED BY <1>2, <1>3, <1>4

-----------------------------------------------------------------------------
\* Close takes the clients away; a connection whose resume is not over keeps its
\* place.
LEMMA Closed ==
  ASSUME HubAssumption, EventInv, CloseSessions
  PROVE  EventInv'
<1>1. /\ turn' = CancelCurrent /\ current' = 0 /\ session' = "closed"
      /\ attached' = {} /\ doomed' = attached /\ hOwner' = NoOne
      /\ UNCHANGED <<sOwner, events, members, wire, conn, task, asks, started>>
  BY DEF CloseSessions
<1>2. /\ LockType /\ EventType /\ ClientType /\ WireType /\ ConnType /\ TaskType
      /\ AskType /\ TurnType
  BY Types DEF EventInv
<1>3. /\ EventType' /\ WireType' /\ ConnType' /\ TaskType' /\ AskType'
  BY <1>1, <1>2, Kept
<1>4. LockType' /\ ClientType'
  BY <1>1, <1>2 DEF LockType, ClientType
<1>5. TurnType'
  <2>1. CancelCurrent \in [Turns -> [state : TurnStates, cancelled : BOOLEAN]]
    BY <1>2 DEF TurnType, CancelCurrent, CancelTurn
  <2> QED BY <1>1, <1>2, <2>1 DEF TurnType, HubAssumption
<1>6. Known'
  BY <1>1 DEF EventInv, Known, events, wire
<1>7. ReplayOver' /\ AwayApart' /\ LeftClosed'
  BY <1>1 DEF EventInv, Places, ReplayOver, AwayApart, LeftClosed, wire
<1>8. Buffered'
  BY <1>1 DEF EventInv, Buffered, events
<1>9. NothingLost'
  BY <1>1 DEF EventInv, NothingLost, Joined, Covered, Carries, events, wire
<1> QED BY <1>3, <1>4, <1>5, <1>6, <1>7, <1>8, <1>9, EventInvNext

\* ... and closes what it took away, which is no more than losing a connection.
LEMMA ClientClosed ==
  ASSUME EventInv, NEW c \in Conns, CloseClient(c)
  PROVE  EventInv'
<1>1. /\ open' = open \ {c} /\ doomed' = doomed \ {c}
      /\ UNCHANGED <<locks, session, events, members, attached, outbox, peer, got,
                     conn, task, asks, turns>>
  BY DEF CloseClient
<1>2. /\ LockType /\ EventType /\ ClientType /\ WireType /\ ConnType /\ TaskType
      /\ AskType /\ TurnType
  BY Types DEF EventInv
<1>3. /\ LockType' /\ EventType' /\ ConnType' /\ TaskType' /\ AskType' /\ TurnType'
  BY <1>1, <1>2, Kept
<1>4. WireType' /\ ClientType'
  BY <1>1, <1>2 DEF WireType, ClientType
<1>5. Known'
  BY <1>1 DEF EventInv, Known, events
<1>6. ReplayOver' /\ AwayApart' /\ LeftClosed'
  BY <1>1 DEF EventInv, Places, ReplayOver, AwayApart, LeftClosed
<1>7. Buffered'
  BY <1>1 DEF EventInv, Buffered, events
<1>8. NothingLost'
  BY <1>1 DEF EventInv, NothingLost, Joined, Covered, Carries, events
<1> QED BY <1>3, <1>4, <1>5, <1>6, <1>7, <1>8, EventInvNext

LEMMA InitEventInv ==
  ASSUME HubAssumption, Init
  PROVE  EventInv
<1>1. LockType /\ ClientType /\ AskType
  BY DEF Init, LockType, ClientType, AskType
<1>2. EventType /\ WireType
  BY DEF Init, EventType, WireType, HubAssumption
<1>3. ConnType
  BY DEF Init, ConnType, ConnStates, ConnPlaces, HubAssumption
<1>4. TaskType /\ TurnType
  BY DEF Init, TaskType, TaskStates, TaskPlaces, TurnType, TurnStates, HubAssumption
<1>5. Known
  <2>1. seq = 0 /\ 0 \in 0..0 /\ <<>> \in Seq(0..0)
    BY DEF Init
  <2>2. /\ buffer = <<>> /\ \A c \in Conns : conn[c].replay = <<>>
        /\ \A s \in Senders : task[s].n = 0
        /\ outbox = [c \in Conns |-> <<>>] /\ got = [c \in Conns |-> <<>>]
    BY DEF Init
  <2> QED BY <2>1, <2>2 DEF Known
<1>6. Places
  BY DEF Init, Places, ReplayOver, AwayApart, LeftClosed
<1>7. Buffered /\ NothingLost
  BY DEF Init, Buffered, NothingLost, Joined
<1> QED BY <1>1, <1>2, <1>3, <1>4, <1>5, <1>6, <1>7, Types DEF EventInv

LEMMA NextEventInv ==
  ASSUME HubAssumption, EventInv, [Next]_vars
  PROVE  EventInv'
<1>1. LockType /\ AskType /\ TurnType /\ ConnType
  BY Types DEF EventInv
<1>2. /\ {"ready", "register", "join", "snapshot", "swap", "turn", "wait"}
           \subseteq ConnPlaces \ {"away", "attach", "leave", "gone"}
      /\ CancelCurrent \in [Turns -> [state : TurnStates, cancelled : BOOLEAN]]
  BY <1>1 DEF ConnPlaces, TurnType, CancelCurrent, CancelTurn
<1>3. ASSUME NEW c \in Conns, Network(c)
      PROVE  EventInv'
  BY <1>3, Connected, Dropped, WritePumped DEF Network
<1>4. ASSUME NEW c \in Conns, Message(c)
      PROVE  EventInv'
  <2>1. CASE Create(c)
    <3>1. /\ conn[c].pc = "ready" /\ Go(c, "register") /\ session' = "open"
          /\ UNCHANGED <<locks, events, clients, wire, task, asks, turns>>
      BY <2>1 DEF Create, ConnAt
    <3>2. LockType' /\ AskType' /\ TurnType'
      BY <1>1, <3>1, Kept DEF LockType, locks
    <3> QED BY <1>2, <3>1, <3>2, WalkedTo
  <2>2. CASE Resume(c)
    <3>1. /\ conn[c].pc = "ready" /\ Go(c, "snapshot")
          /\ UNCHANGED <<locks, session, events, clients, wire, task, asks, turns>>
      BY <2>2 DEF Resume, ConnAt
    <3>2. LockType' /\ AskType' /\ TurnType'
      BY <1>1, <3>1, Kept
    <3> QED BY <1>2, <3>1, <3>2, WalkedTo
  <2>3. CASE UserMessage(c)
    <3>1. /\ conn[c].pc = "ready" /\ Go(c, "swap")
          /\ UNCHANGED <<locks, session, events, clients, wire, task, asks, turns>>
      BY <2>3 DEF UserMessage, ConnAt
    <3>2. LockType' /\ AskType' /\ TurnType'
      BY <1>1, <3>1, Kept
    <3> QED BY <1>2, <3>1, <3>2, WalkedTo
  <2>4. CASE CancelMessage(c)
    <3>1. /\ turn' = CancelCurrent /\ current' = 0
          /\ UNCHANGED <<locks, session, events, clients, wire, conn, task, asks, started>>
      BY <2>4 DEF CancelMessage
    <3>2. LockType' /\ AskType'
      BY <1>1, <3>1, Kept
    <3>3. TurnType'
      BY <1>1, <1>2, <3>1 DEF TurnType, HubAssumption
    <3> QED BY <3>1, <3>2, <3>3, NotInvolved
  <2>5. ASSUME NEW r \in Requests, UIResponse(c, r)
        PROVE  EventInv'
    <3>1. UNCHANGED <<locks, session, events, clients, wire, conn, task, turns>>
      BY <2>5 DEF UIResponse
    <3>2. LockType' /\ TurnType'
      BY <1>1, <3>1, Kept
    <3>3. AskType'
      BY <1>1, <2>5 DEF AskType, UIResponse
    <3> QED BY <3>1, <3>2, <3>3, NotInvolved
  <2> QED BY <1>4, <2>1, <2>2, <2>3, <2>4, <2>5 DEF Message
<1>5. ASSUME NEW c \in Conns, ReadPump(c)
      PROVE  EventInv'
  <2>1. CASE Register(c)
    <3>1. /\ conn[c].pc = "register"
          /\ UNCHANGED <<sOwner, session, events, clients, wire, task, asks, turns>>
          /\ (hOwner' = c /\ Go(c, "join")) \/ (hOwner' = hOwner /\ Go(c, "ready"))
      BY <2>1 DEF Register, ConnAt
    <3>2. LockType' /\ AskType' /\ TurnType'
      BY <1>1, <3>1, Kept DEF LockType
    <3> QED BY <1>2, <3>1, <3>2, WalkedTo
  <2>2. CASE Snapshot(c)
    <3>1. CASE Gap(conn[c].since)
      <4>1. /\ conn[c].pc = "snapshot" /\ Go(c, "ready")
            /\ UNCHANGED <<locks, session, events, clients, wire, task, asks, turns>>
        BY <2>2, <3>1 DEF Snapshot, ConnAt, locks, clients
      <4>2. LockType' /\ AskType' /\ TurnType'
        BY <1>1, <4>1, Kept
      <4> QED BY <1>2, <4>1, <4>2, WalkedTo
    <3> QED BY <2>2, <3>1, Resumed
  <2>3. CASE Replay(c)
    <3>1. CASE conn[c].replay = <<>>
      <4>1. /\ Go(c, "ready")
            /\ UNCHANGED <<locks, session, events, clients, wire, task, asks, turns>>
        BY <2>3, <3>1 DEF Replay
      <4>2. LockType' /\ AskType' /\ TurnType'
        BY <1>1, <4>1, Kept
      <4> QED BY <1>2, <3>1, <4>1, <4>2, WalkedTo
    <3> QED BY <2>3, <3>1, Replayed
  <2>4. CASE CheckTurn(c)
    <3>1. /\ conn[c].pc = "turn" /\ (Go(c, "ready") \/ Go(c, "wait"))
          /\ UNCHANGED <<locks, session, events, clients, wire, task, asks, started,
                         current>>
      BY <2>4 DEF CheckTurn, ConnAt
    <3>2. LockType' /\ AskType'
      BY <1>1, <3>1, Kept
    <3>3. TurnType'
      BY <1>1, <2>4 DEF TurnType, TurnStates, CheckTurn
    <3> QED BY <1>2, <3>1, <3>2, <3>3, WalkedTo
  <2>5. CASE StartTurn(c)
    <3>1. /\ conn[c].pc = "wait" /\ Go(c, "ready")
          /\ UNCHANGED <<locks, session, events, clients, wire, task, asks, started,
                         current>>
      BY <2>5 DEF StartTurn, ConnAt
    <3>2. LockType' /\ AskType'
      BY <1>1, <3>1, Kept
    <3>3. TurnType'
      BY <1>1, <2>5 DEF TurnType, TurnStates, StartTurn
    <3> QED BY <1>2, <3>1, <3>2, <3>3, WalkedTo
  <2> QED BY <1>5, <2>1, <2>2, <2>3, <2>4, <2>5, Registered, Attached, Swapped,
             Unregistered, Left DEF ReadPump
<1>6. ASSUME NEW e \in Emitters, Emit(e)
      PROVE  EventInv'
  BY <1>6, EmitStep
<1>7. ASSUME NEW r \in Requests, Request(r)
      PROVE  EventInv'
  BY <1>7, OtherTaskSteps DEF Senders
<1>8. ASSUME NEW s \in Senders, Broadcast(s)
      PROVE  EventInv'
  BY <1>8, Pushed, Addressed, SentLive, NumberStep, OtherTaskSteps DEF Broadcast
<1>9. ASSUME NEW t \in Turns, EndTurn(t)
      PROVE  EventInv'
  <2>1. /\ turn' = [turn EXCEPT ![t] = [state |-> "over", cancelled |-> TRUE]]
        /\ UNCHANGED <<locks, session, events, clients, wire, conn, task, asks, started,
                       current>>
    BY <1>9 DEF EndTurn, TurnOver
  <2>2. LockType' /\ AskType'
    BY <1>1, <2>1, Kept
  <2>3. TurnType'
    BY <1>1, <2>1 DEF TurnType, TurnStates
  <2> QED BY <2>1, <2>2, <2>3, NotInvolved
<1>10. CASE CloseHub
  <2>1. /\ hOwner' = Closer
        /\ UNCHANGED <<sOwner, session, events, clients, wire, conn, task, asks, turns>>
    BY <1>10 DEF CloseHub
  <2>2. LockType' /\ AskType' /\ TurnType'
    BY <1>1, <2>1, Kept DEF LockType
  <2> QED BY <2>1, <2>2, NotInvolved
<1>11. CASE CloseSessions
  BY <1>11, Closed
<1>12. ASSUME NEW c \in Conns, CloseClient(c)
       PROVE  EventInv'
  BY <1>12, ClientClosed
<1>13. CASE UNCHANGED vars
  <2>1. UNCHANGED <<locks, session, events, clients, wire, conn, task, asks, turns>>
    BY <1>13 DEF vars
  <2>2. LockType' /\ AskType' /\ TurnType'
    BY <1>1, <2>1, Kept
  <2> QED BY <2>1, <2>2, NotInvolved
<1> QED BY <1>3, <1>4, <1>5, <1>6, <1>7, <1>8, <1>9, <1>10, <1>11, <1>12, <1>13 DEF Next

\* Every variable has its type, and neither the ring buffer nor the channel of a
\* connection outgrows its capacity, for every capacity and number of
\* connections.  (RingBuffer.Push, Client.Send)
THEOREM TypeCorrect == Spec => []TypeOK
<1>1. Init => EventInv
  BY InitEventInv, HubAssumption
<1>2. EventInv /\ [Next]_vars => EventInv'
  BY NextEventInv, HubAssumption
<1>3. EventInv => TypeOK
  BY DEF EventInv
<1> QED BY <1>1, <1>2, <1>3, PTL DEF Spec

\* A resumed connection misses nothing, with any number of connections that
\* linger, of broadcasts that overtake each other, and of clients too slow for
\* their channel: once its replay and the broadcasts are through, the peer has
\* every event numbered after its last_seq that was still in the buffer when it
\* resumed or came later.
\* (broadcastToSession, snapshotAndRegisterClient, Client.Send, RingBuffer.Since)
THEOREM ResumeMissesNothing == Spec => []NoEventMissed
<1>1. Init => EventInv
  BY InitEventInv, HubAssumption
<1>2. EventInv /\ [Next]_vars => EventInv'
  BY NextEventInv, HubAssumption
<1>3. EventInv => NoEventMissed
  <2> SUFFICES ASSUME EventInv, NEW c \in Conns, Settled(c), NEW n \in 1..seq,
                      n > conn[c].since, n \notin conn[c].gone, n \notin InFlight
               PROVE  n \in Range(got[c])
    BY DEF NoEventMissed
  <2>1. conn[c].pc = "ready" /\ outbox[c] = <<>> /\ Joined(c)
    BY DEF Settled, ConnAt, Joined
  <2>2. conn[c].replay = <<>>
    BY <2>1 DEF EventInv, Places, ReplayOver
  <2>3. Range(<<>>) = {}
    BY DEF Range
  <2>4. \A s \in Senders : ~Carries(s, c, n)
    BY DEF Carries, InFlight
  <2>5. Covered(c, n)
    BY <2>1 DEF EventInv, NothingLost
  <2> QED BY <2>1, <2>2, <2>3, <2>4, <2>5 DEF Covered
<1> QED BY <1>1, <1>2, <1>3, PTL DEF Spec
=============================================================================
