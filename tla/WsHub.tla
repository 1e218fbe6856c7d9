-------------------------------- MODULE WsHub --------------------------------
(***************************************************************************)
(* internal/transport/ws: the hub that fans the events of one agent        *)
(* session out to WebSocket connections, keeps the last ones for clients   *)
(* that reconnect, routes UI requests and their answers, and starts and    *)
(* cancels turns.                                                          *)
(*                                                                         *)
(* Three kinds of goroutines meet in it: the readPump of each connection,  *)
(* the goroutines that broadcast (sinks, turns and UI requests), and the   *)
(* one that closes the hub.  Hub.mu and SessionState.mu appear as hOwner   *)
(* and sOwner where they are held across another wait; a critical section  *)
(* that waits for nothing is one step.  The connections are those of one   *)
(* remote peer that reconnects, the old connection lingering until the     *)
(* hub notices.  Messages without a sequence number are left out.          *)
(***************************************************************************)
EXTENDS Naturals, Sequences, FiniteSetsExt, Functions

CONSTANTS
  MaxConns,    \* bound of the model: connections, 1 being the first
  Emitters,    \* goroutines that broadcast session and turn events
  Requests,    \* UI requests of the session's turns
  MaxEvents,   \* bound of the model: events of the emitters
  MaxTurns,    \* bound of the model: user messages
  Capacity,    \* ReconnectBufferSize
  SendBuffer,  \* sendBufferSize
  MayClose     \* whether Close may be called

ASSUME HubAssumption ==
  /\ MaxConns \in Nat \ {0} /\ MaxEvents \in Nat /\ MaxTurns \in Nat
  /\ Capacity \in Nat \ {0} /\ SendBuffer \in Nat \ {0}
  /\ Emitters \cap Requests = {} /\ MayClose \in BOOLEAN

Conns   == 1..MaxConns
Turns   == 1..MaxTurns
Senders == Emitters \cup Requests
NoOne   == 0
Closer  == MaxConns + 1

VARIABLES
  hOwner,      \* who holds Hub.mu while it waits
  sOwner,      \* who holds SessionState.mu while it waits
  session,     \* whether Hub.sessions holds the session: "absent", "open", "closed"
  seq,         \* SessionState.seq
  buffer,      \* SessionState.Buffer, oldest first
  members,     \* SessionState.Clients
  attached,    \* the connections in Hub.clients
  doomed,      \* the connections Close has still to close
  open,        \* connections whose done channel is not closed
  outbox,      \* [Conns -> Seq(Nat)]: Client.send
  conn,        \* [Conns -> ...]: where each readPump is
  task,        \* [Senders -> ...]: where each broadcast is
  uiWait,      \* requests with an entry in SessionState.uiWait
  answers,     \* requests whose response channel is full
  started,     \* user messages that got as far as SessionState.cancel
  turn,        \* [Turns -> [state, cancelled]]
  current,     \* the turn SessionState.cancel cancels, or 0
  peer,        \* the connection the remote peer uses
  got,         \* [Conns -> Seq(Nat)]: the event numbers the peer received
  overwritten, \* history: event numbers pushed out of the buffer
  answered     \* history: pending requests a response arrived for

locks   == <<hOwner, sOwner>>
events  == <<seq, buffer, overwritten>>
clients == <<members, attached, doomed>>
wire    == <<open, outbox, peer, got>>
asks    == <<uiWait, answers, answered>>
turns   == <<started, turn, current>>
vars    == <<locks, session, events, clients, wire, conn, task, asks, turns>>

HFree == hOwner = NoOne
SFree == sOwner = NoOne

ConnAt(c, place) == conn[c].pc = place
Go(c, place)     == conn' = [conn EXCEPT ![c].pc = place]
TaskAt(s, place) == task[s].pc = place

Init ==
  /\ hOwner = NoOne /\ sOwner = NoOne /\ session = "absent"
  /\ seq = 0 /\ buffer = <<>> /\ overwritten = {}
  /\ members = {} /\ attached = {} /\ doomed = {}
  /\ open = {} /\ outbox = [c \in Conns |-> <<>>] /\ peer = 0
  /\ got = [c \in Conns |-> <<>>]
  /\ conn = [c \in Conns |-> [pc |-> "away", since |-> 0, replay |-> <<>>,
                              gone |-> {}, turn |-> 0]]
  /\ task = [s \in Senders |-> [pc |-> "idle", n |-> 0, to |-> {}, turn |-> 0]]
  /\ uiWait = {} /\ answers = {} /\ answered = {}
  /\ started = 0 /\ current = 0
  /\ turn = [t \in Turns |-> [state |-> "none", cancelled |-> FALSE]]

-----------------------------------------------------------------------------
(* The wire.                                                                *)

\* The greatest event number the peer has seen: the last_seq it resumes from.
LastSeq == Max({0} \cup UNION {Range(got[c]) : c \in Conns})

\* The peer opens its next connection; the previous one may linger.
Connect(c) ==
  /\ ConnAt(c, "away") /\ c = peer + 1
  /\ peer' = c /\ open' = open \cup {c}
  /\ conn' = [conn EXCEPT ![c].pc = "ready", ![c].since = LastSeq]
  /\ UNCHANGED <<locks, session, events, clients, outbox, got, task, asks, turns>>

\* The connection fails, or a deadline of readPump or writePump passes.
Drop(c) ==
  /\ c \in open /\ open' = open \ {c}
  /\ UNCHANGED <<locks, session, events, clients, outbox, peer, got, conn, task,
                 asks, turns>>

\* writePump; what is written to a connection the peer gave up is lost.
WritePump(c) ==
  /\ c \in open /\ outbox[c] # <<>>
  /\ outbox' = [outbox EXCEPT ![c] = Tail(@)]
  /\ got' = IF c = peer THEN [got EXCEPT ![c] = Append(@, Head(outbox[c]))] ELSE got
  /\ UNCHANGED <<locks, session, events, clients, open, peer, conn, task, asks,
                 turns>>

\* Client.Send: a client whose channel is full is closed.  The mutant skips the
\* message instead.
Send_Skips(c, n) ==
  /\ outbox' = IF c \in open /\ Len(outbox[c]) < SendBuffer
               THEN [outbox EXCEPT ![c] = Append(@, n)] ELSE outbox
  /\ UNCHANGED <<open, peer, got>>
Send(c, n) ==
  /\ IF c \in open /\ Len(outbox[c]) < SendBuffer
     THEN outbox' = [outbox EXCEPT ![c] = Append(@, n)] /\ UNCHANGED open
     ELSE open' = open \ {c} /\ UNCHANGED outbox
  /\ UNCHANGED <<peer, got>>

-----------------------------------------------------------------------------
(* The ring buffer.                                                         *)

Push(n) ==
  IF Len(buffer) < Capacity
  THEN buffer' = Append(buffer, n) /\ UNCHANGED overwritten
  ELSE /\ buffer' = Append(Tail(buffer), n)
       /\ overwritten' = overwritten \cup {Head(buffer)}

Since(last) ==
  LET result[i \in 0..Len(buffer)] ==
        IF i = 0 THEN <<>>
        ELSE IF buffer[i] > last THEN Append(result[i - 1], buffer[i])
        ELSE result[i - 1]
  IN  result[Len(buffer)]

-----------------------------------------------------------------------------
(* readPump and the handlers of client messages.                            *)

\* handleSessionCreate: CreateSession, then registerClient.
Create(c) ==
  /\ ConnAt(c, "ready") /\ c \in open /\ HFree /\ session = "absent"
  /\ session' = "open" /\ Go(c, "register")
  /\ UNCHANGED <<locks, events, clients, wire, task, asks, turns>>

Register(c) ==
  /\ ConnAt(c, "register") /\ HFree
  /\ IF session = "open" THEN hOwner' = c /\ Go(c, "join")
     ELSE Go(c, "ready") /\ UNCHANGED hOwner
  /\ UNCHANGED <<sOwner, session, events, clients, wire, task, asks, turns>>

\* Nothing is replayed to a client that has just created the session.
Join(c) ==
  /\ ConnAt(c, "join") /\ SFree
  /\ members' = members \cup {c} /\ attached' = attached \cup {c}
  /\ hOwner' = NoOne
  /\ conn' = [conn EXCEPT ![c].pc = "ready", ![c].gone = 1..seq]
  /\ UNCHANGED <<sOwner, session, events, doomed, wire, task, asks, turns>>

\* handleSessionResume and snapshotAndRegisterClient: the session is looked up
\* under Hub.mu ...
Resume(c) ==
  /\ ConnAt(c, "ready") /\ c \in open /\ c \notin attached
  /\ HFree /\ session = "open"
  /\ Go(c, "snapshot")
  /\ UNCHANGED <<locks, session, events, clients, wire, task, asks, turns>>

\* ... the buffer is read and the client added under SessionState.mu, unless a
\* gap is seen ...
Gap(last) == /\ last > 0 /\ Since(last) = <<>>
             /\ buffer # <<>> /\ buffer[1] > last

Snapshot(c) ==
  /\ ConnAt(c, "snapshot") /\ SFree
  /\ IF Gap(conn[c].since)
     THEN Go(c, "ready") /\ UNCHANGED <<sOwner, members>>
     ELSE /\ sOwner' = c
          /\ members' = members \cup {c}
          /\ conn' = [conn EXCEPT ![c].pc = "attach", ![c].gone = overwritten,
                                  ![c].replay = Since(conn[c].since)]
  /\ UNCHANGED <<hOwner, session, events, attached, doomed, wire, task, asks, turns>>

\* ... and Hub.mu is taken again with SessionState.mu held.
Attach(c) ==
  /\ ConnAt(c, "attach") /\ HFree
  /\ attached' = attached \cup {c} /\ sOwner' = NoOne
  /\ Go(c, "replay")
  /\ UNCHANGED <<hOwner, session, events, members, doomed, wire, task, asks, turns>>

Replay(c) ==
  /\ ConnAt(c, "replay")
  /\ IF conn[c].replay = <<>>
     THEN Go(c, "ready") /\ UNCHANGED wire
     ELSE /\ Send(c, Head(conn[c].replay))
          /\ conn' = [conn EXCEPT ![c].replay = Tail(@)]
  /\ UNCHANGED <<locks, session, events, clients, task, asks, turns>>

\* handleUserMessage: the session is read under Hub.mu and used after it.
UserMessage(c) ==
  /\ ConnAt(c, "ready") /\ c \in open /\ c \in attached /\ HFree
  /\ started < MaxTurns
  /\ Go(c, "swap")
  /\ UNCHANGED <<locks, session, events, clients, wire, task, asks, turns>>

CancelTurn(t) == [turn EXCEPT ![t].cancelled = TRUE]
CancelCurrent == IF current = 0 THEN turn ELSE CancelTurn(current)

Swap(c) ==
  /\ ConnAt(c, "swap") /\ SFree /\ started < MaxTurns
  /\ started' = started + 1 /\ current' = started + 1
  /\ turn' = [CancelCurrent EXCEPT ![started + 1].state = "starting"]
  /\ conn' = [conn EXCEPT ![c].pc = "turn", ![c].turn = started + 1]
  /\ UNCHANGED <<locks, session, events, clients, wire, task, asks>>

\* Agent.Turn looks at the context, then waits for the turn before it.
CheckTurn(c) ==
  /\ ConnAt(c, "turn")
  /\ IF turn[conn[c].turn].cancelled
     THEN Go(c, "ready") /\ turn' = [turn EXCEPT ![conn[c].turn].state = "over"]
     ELSE Go(c, "wait") /\ UNCHANGED turn
  /\ UNCHANGED <<locks, session, events, clients, wire, task, asks, started, current>>

StartTurn(c) ==
  /\ ConnAt(c, "wait") /\ \A t \in Turns : turn[t].state # "running"
  /\ turn' = [turn EXCEPT ![conn[c].turn].state = "running"]
  /\ Go(c, "ready")
  /\ UNCHANGED <<locks, session, events, clients, wire, task, asks, started, current>>

\* handleCancel.
CancelMessage(c) ==
  /\ ConnAt(c, "ready") /\ c \in open /\ c \in attached /\ HFree /\ SFree
  /\ current # 0
  /\ turn' = CancelCurrent /\ current' = 0
  /\ UNCHANGED <<locks, session, events, clients, wire, conn, task, asks, started>>

\* handleUIResponse: the response channel holds one response, so that sending is
\* one step with the lookup: a channel whose entry has been deleted meanwhile
\* takes a response nobody reads.  The mutant's channel holds none, and a
\* response nobody waits for yet is dropped.
Accepts_Waiting(r) == r \notin answers /\ TaskAt(r, "wait")
Accepts(r)         == r \notin answers

UIResponse(c, r) ==
  /\ ConnAt(c, "ready") /\ c \in open /\ c \in attached /\ HFree /\ SFree
  /\ r \in uiWait /\ task[r].n \in UNION {Range(got[k]) : k \in Conns}
  /\ answers' = IF Accepts(r) THEN answers \cup {r} ELSE answers
  /\ answered' = answered \cup {r}
  /\ UNCHANGED <<locks, session, events, clients, wire, conn, task, uiWait, turns>>

\* readPump returns: unregisterClient.
Unregister(c) ==
  /\ ConnAt(c, "ready") /\ c \notin open /\ HFree
  /\ IF c \in attached THEN hOwner' = c /\ Go(c, "leave")
     ELSE Go(c, "gone") /\ UNCHANGED hOwner
  /\ UNCHANGED <<sOwner, session, events, clients, wire, task, asks, turns>>

Leave(c) ==
  /\ ConnAt(c, "leave") /\ SFree
  /\ members' = members \ {c} /\ attached' = attached \ {c}
  /\ hOwner' = NoOne /\ Go(c, "gone")
  /\ UNCHANGED <<sOwner, session, events, doomed, wire, task, asks, turns>>

-----------------------------------------------------------------------------
(* Broadcasts.                                                              *)

Running == {t \in Turns : turn[t].state = "running"}

\* Emit and SessionEmitter look the session up; BroadcastTurnEvent has it.
Emit(e) ==
  /\ TaskAt(e, "idle") /\ seq < MaxEvents
  /\ \/ HFree /\ session = "open"
     \/ Running # {}
  /\ seq' = seq + 1
  /\ task' = [task EXCEPT ![e].pc = "push", ![e].n = seq + 1]
  /\ UNCHANGED <<locks, session, buffer, overwritten, clients, wire, conn, asks,
                 turns>>

\* requestFromSession, called by a tool of the turn t, makes its entry ...
Request(r) ==
  /\ TaskAt(r, "idle") /\ HFree /\ SFree /\ session = "open"
  /\ uiWait' = uiWait \cup {r}
  /\ \E t \in Running :
       task' = [task EXCEPT ![r].pc = "number", ![r].turn = t]
  /\ UNCHANGED <<locks, session, events, clients, wire, conn, answers, answered,
                 turns>>

\* ... and broadcasts itself.
Number(r) ==
  /\ TaskAt(r, "number")
  /\ seq' = seq + 1
  /\ task' = [task EXCEPT ![r].pc = "push", ![r].n = seq + 1]
  /\ UNCHANGED <<locks, session, buffer, overwritten, clients, wire, conn, asks,
                 turns>>

\* broadcastToSession.
PushEvent(s) ==
  /\ TaskAt(s, "push")
  /\ Push(task[s].n)
  /\ task' = [task EXCEPT ![s].pc = "clients"]
  /\ UNCHANGED <<locks, session, seq, clients, wire, conn, asks, turns>>

SnapshotClients(s) ==
  /\ TaskAt(s, "clients") /\ SFree
  /\ task' = [task EXCEPT ![s].pc = "send", ![s].to = members]
  /\ UNCHANGED <<locks, session, events, clients, wire, conn, asks, turns>>

SendLive(s) ==
  /\ TaskAt(s, "send")
  /\ \E c \in task[s].to :
       /\ Send(c, task[s].n)
       /\ task' = [task EXCEPT ![s].to = @ \ {c}]
  /\ UNCHANGED <<locks, session, events, clients, conn, asks, turns>>

\* The bridges are read under Hub.mu and published to.
Publish(s) ==
  /\ TaskAt(s, "send") /\ task[s].to = {} /\ HFree
  /\ task' = [task EXCEPT ![s].pc = IF s \in Requests THEN "wait" ELSE "idle"]
  /\ UNCHANGED <<locks, session, events, clients, wire, conn, asks, turns>>

\* The response, or the end of the turn's context; the entry is deleted.
Return(r) ==
  /\ TaskAt(r, "wait") /\ SFree
  /\ r \in answers \/ turn[task[r].turn].cancelled
  /\ uiWait' = uiWait \ {r} /\ answers' = answers \ {r}
  /\ task' = [task EXCEPT ![r].pc = "done"]
  /\ UNCHANGED <<locks, session, events, clients, wire, conn, answered, turns>>

-----------------------------------------------------------------------------
(* Turns and Close.                                                         *)

\* The turn's last event is read and its context is cancelled.  The mutant also
\* clears SessionState.cancel, whosever it is.
TurnOver_Clears(t) ==
  /\ turn' = [turn EXCEPT ![t] = [state |-> "over", cancelled |-> TRUE]]
  /\ current' = 0 /\ UNCHANGED started
TurnOver(t) ==
  /\ turn' = [turn EXCEPT ![t] = [state |-> "over", cancelled |-> TRUE]]
  /\ UNCHANGED <<started, current>>

EndTurn(t) ==
  /\ turn[t].state = "running"
  /\ \A r \in Requests : task[r].turn = t => task[r].pc = "done"
  /\ TurnOver(t)
  /\ UNCHANGED <<locks, session, events, clients, wire, conn, task, asks>>

CloseHub ==
  /\ MayClose /\ session = "open" /\ HFree
  /\ hOwner' = Closer
  /\ UNCHANGED <<sOwner, session, events, clients, wire, conn, task, asks, turns>>

\* The current turn is cancelled and the maps are cleared; the clients are
\* closed one by one once Hub.mu is released.
CloseSessions ==
  /\ hOwner = Closer /\ SFree
  /\ turn' = CancelCurrent /\ current' = 0
  /\ session' = "closed" /\ attached' = {} /\ doomed' = attached
  /\ hOwner' = NoOne
  /\ UNCHANGED <<sOwner, events, members, wire, conn, task, asks, started>>

CloseClient(c) ==
  /\ c \in doomed
  /\ doomed' = doomed \ {c} /\ open' = open \ {c}
  /\ UNCHANGED <<locks, session, events, members, attached, outbox, peer, got,
                 conn, task, asks, turns>>

-----------------------------------------------------------------------------
Network(c) == Connect(c) \/ Drop(c) \/ WritePump(c)

Message(c) ==
  \/ Create(c) \/ Resume(c) \/ UserMessage(c) \/ CancelMessage(c)
  \/ \E r \in Requests : UIResponse(c, r)

\* What a readPump does on its own.
ReadPump(c) ==
  \/ Register(c) \/ Join(c) \/ Snapshot(c) \/ Attach(c) \/ Replay(c)
  \/ Swap(c) \/ CheckTurn(c) \/ StartTurn(c) \/ Unregister(c) \/ Leave(c)

\* What a broadcast does once it has begun.
Broadcast(s) ==
  \/ PushEvent(s) \/ SnapshotClients(s) \/ SendLive(s) \/ Publish(s)
  \/ s \in Requests /\ (Number(s) \/ Return(s))

Next ==
  \/ \E c \in Conns : Network(c) \/ Message(c) \/ ReadPump(c)
  \/ \E e \in Emitters : Emit(e)
  \/ \E r \in Requests : Request(r)
  \/ \E s \in Senders : Broadcast(s)
  \/ \E t \in Turns : EndTurn(t)
  \/ CloseHub \/ CloseSessions
  \/ \E c \in Conns : CloseClient(c)

\* Every goroutine that can go on does; nothing is assumed of the peer, of the
\* emitters, of the agent or of the network.
Fairness ==
  /\ \A c \in Conns : WF_vars(ReadPump(c))
  /\ \A s \in Senders : WF_vars(Broadcast(s))
  /\ WF_vars(CloseSessions) /\ \A c \in Conns : WF_vars(CloseClient(c))

Spec == Init /\ [][Next]_vars /\ Fairness

-----------------------------------------------------------------------------
(* Properties.                                                              *)

ConnPlaces == {"away", "ready", "register", "join", "snapshot", "attach",
               "replay", "swap", "turn", "wait", "leave", "gone"}
TaskPlaces == {"idle", "number", "push", "clients", "send", "wait", "done"}

\* Every variable has its type; neither the ring buffer nor a send channel
\* outgrows its capacity.
TypeOK ==
  /\ hOwner \in Conns \cup {NoOne, Closer} /\ sOwner \in Conns \cup {NoOne}
  /\ session \in {"absent", "open", "closed"}
  /\ seq \in Nat /\ buffer \in Seq(Nat) /\ Len(buffer) <= Capacity
  /\ overwritten \subseteq Nat
  /\ members \subseteq Conns /\ attached \subseteq Conns
  /\ doomed \subseteq Conns
  /\ open \subseteq Conns /\ peer \in 0..MaxConns
  /\ outbox \in [Conns -> Seq(Nat)] /\ got \in [Conns -> Seq(Nat)]
  /\ \A c \in Conns : Len(outbox[c]) <= SendBuffer
  /\ conn \in [Conns -> [pc : ConnPlaces, since : Nat, replay : Seq(Nat),
                         gone : SUBSET Nat, turn : 0..MaxTurns]]
  /\ task \in [Senders -> [pc : TaskPlaces, n : Nat, to : SUBSET Conns,
                           turn : 0..MaxTurns]]
  /\ uiWait \subseteq Requests /\ answers \subseteq Requests
  /\ answered \subseteq Requests
  /\ started \in 0..MaxTurns /\ current \in 0..MaxTurns
  /\ turn \in [Turns -> [state : {"none", "starting", "running", "over"},
                         cancelled : BOOLEAN]]

InFlight   == {task[s].n : s \in {q \in Senders :
                  task[q].pc \in {"push", "clients", "send"}}}
Settled(c) == /\ c = peer /\ c \in open /\ c \in attached
              /\ ConnAt(c, "ready") /\ outbox[c] = <<>>

\* A resumed connection misses nothing: once its replay and the broadcasts are
\* through, the peer has every event numbered after its last_seq that was still
\* in the buffer when it resumed or came later, with every interleaving of the
\* broadcasts with the resume and with slow clients that are closed.
\* (broadcastToSession, snapshotAndRegisterClient, Send)
NoEventMissed ==
  \A c \in Conns : Settled(c) =>
    \A n \in 1..seq :
      n > conn[c].since /\ n \notin conn[c].gone /\ n \notin InFlight =>
        n \in Range(got[c])

\* As long as the hub has the session, a turn that is about to start or running
\* and whose context is not cancelled is the one SessionState.cancel stands for:
\* the next user message, a cancel message or Close reaches it.  A turn that a
\* message under way starts after Close has cleared the maps is left out: no
\* message reaches it any more, and Close has been there.  (handleUserMessage, handleCancel, Close)
TurnCancellable ==
  session = "open" =>
    \A t \in Turns :
      turn[t].state \in {"starting", "running"} /\ ~turn[t].cancelled => current = t

\* "Lock order: h.mu -> ss.mu (matches other code paths)": nobody waits for
\* Hub.mu with SessionState.mu held while somebody waits the other way around.
\* The program does not keep to it.
NoLockCycle == HFree \/ SFree

\* A request that a client has answered returns, even when the answer comes
\* before the requester waits for it, unless the two locks are held against each
\* other for ever.  (requestFromSession, handleUIResponse)
AnsweredRequestReturns ==
  \A r \in Requests : r \in answered ~> TaskAt(r, "done") \/ ~NoLockCycle
=============================================================================
