------------------------------- MODULE AcpConn -------------------------------
(***************************************************************************)
(* internal/acp/conn.go: a symmetric JSON-RPC connection over one stream.  *)
(*                                                                         *)
(* One read loop (Serve) takes messages off the stream.  A request is      *)
(* answered by a goroutine of its own, which may itself call Request; a    *)
(* notification goes through a bounded channel to one worker; a response   *)
(* is handed to the call that waits for it.  Calls are made by the         *)
(* handlers and by goroutines outside the connection, one call each.       *)
(*                                                                         *)
(* A channel of capacity one that a call waits on is slot[c]: Empty,       *)
(* Closed, or the id of the response in it.  Writes hold writeMu until the *)
(* stream has taken them, so while the peer does not read nobody writes.   *)
(***************************************************************************)
EXTENDS Integers, Sequences, FiniteSets

CONSTANTS
  Inbound,    \* requests of the peer
  Malformed,  \* those of them that do not decode but carry an id
  MaxNotes,   \* bound of the model: notifications of the peer
  Outside,    \* goroutines other than handlers that call Request
  Backlog,    \* notificationBacklog
  Faults,     \* what may happen to writing: "stalled", "broken"
  MaxInbox,   \* bound of the model: messages sent and not yet read
  MaxAnswers  \* bound of the model: responses the peer sends

ASSUME ConnAssumption ==
  /\ Faults \subseteq {"stalled", "broken"}
  /\ Malformed \subseteq Inbound /\ Backlog \in Nat \ {0} /\ MaxNotes \in Nat
  /\ MaxInbox \in Nat /\ MaxAnswers \in Nat
  /\ IsFiniteSet(Inbound) /\ IsFiniteSet(Outside)
  /\ Inbound \cap Outside = {}

Handlers == Inbound \ Malformed
Callers  == Outside \cup Handlers
Notes    == 1..MaxNotes   \* numbered as the peer sends them

Empty   == 0
Closed  == -1
Nothing == [kind |-> "none", id |-> 0]

VARIABLES
  \* the stream and the peer
  unsent,    \* requests the peer has not sent yet
  noted,     \* how many notifications it has sent
  replies,   \* how many responses the peer has sent
  inbox,     \* sent by the peer and not yet read
  eof,       \* the peer has closed its side, or reading fails
  writer,    \* "ok", "stalled" (the peer does not read) or "broken"
  written,   \* [Inbound -> how many answers to the request were written]
  \* Serve
  loop,      \* "reading", "pushing", "routing", "failing", "draining", "done"
  inHand,    \* the message the loop is pushing or routing
  cancelled, \* the context given to Serve
  closed,    \* Conn.closed
  notes,     \* Conn.notifications
  worker,    \* the notifications in the worker's hands, at most one
  \* handlers and calls
  handler,   \* [Handlers -> "none", "running", "noting", "answered"]
  call,      \* [Callers -> ...]: where each Request is
  id,        \* [Callers -> Nat]: its id, 0 before it has one
  nextID,    \* Conn.nextID
  pending,   \* the callers whose channel is in Conn.pending
  slot,      \* [Callers -> Empty, Closed or the id of a response]
  answer,    \* [Callers -> the id of the response Request returned, or 0]
  \* history
  served     \* notifications in the order their handlers finished

peerVars == <<unsent, noted, replies, eof, writer>>
loopVars == <<loop, inHand, cancelled, closed>>
noteVars == <<notes, worker, served>>
callVars == <<call, id, nextID, pending, slot, answer>>
vars == <<peerVars, inbox, written, loopVars, noteVars, handler, callVars>>

Request(h)  == [kind |-> IF h \in Malformed THEN "malformed" ELSE "request", id |-> h]
Note(n)     == [kind |-> "note", id |-> n]
Response(i) == [kind |-> "response", id |-> i]
Message ==
  [kind : {"request", "malformed"}, id : Inbound] \cup [kind : {"note"}, id : Notes]
    \cup [kind : {"response"}, id : Nat]

TypeOK ==
  /\ unsent \subseteq Inbound /\ noted \in 0..MaxNotes
  /\ replies \in 0..MaxAnswers
  /\ inbox \in Seq(Message) /\ written \in [Inbound -> Nat]
  /\ eof \in BOOLEAN /\ writer \in {"ok", "stalled", "broken"}
  /\ loop \in {"reading", "pushing", "routing", "failing", "draining", "done"}
  /\ inHand \in Message \cup {Nothing}
  /\ cancelled \in BOOLEAN /\ closed \in BOOLEAN
  /\ notes \in Seq(Notes) /\ Len(notes) <= Backlog
  /\ worker \subseteq Notes /\ Cardinality(worker) <= 1
  /\ handler \in [Handlers -> {"none", "running", "noting", "answered"}]
  /\ call \in [Callers -> {"idle", "sending", "waiting", "reclaiming", "done"}]
  /\ id \in [Callers -> Nat] /\ nextID \in Nat
  /\ pending \subseteq Callers
  /\ slot \in [Callers -> Nat \cup {Closed}]
  /\ answer \in [Callers -> Nat]
  /\ served \in Seq(Notes)

Init ==
  /\ unsent = Inbound /\ noted = 0 /\ replies = 0
  /\ inbox = <<>> /\ written = [h \in Inbound |-> 0] /\ eof = FALSE /\ writer = "ok"
  /\ loop = "reading" /\ inHand = Nothing /\ cancelled = FALSE /\ closed = FALSE
  /\ notes = <<>> /\ worker = {}
  /\ handler = [h \in Handlers |-> "none"]
  /\ call = [c \in Callers |-> "idle"] /\ id = [c \in Callers |-> 0]
  /\ nextID = 0 /\ pending = {}
  /\ slot = [c \in Callers |-> Empty] /\ answer = [c \in Callers |-> 0]
  /\ served = <<>>

-----------------------------------------------------------------------------
(* The peer and the stream: sends what it likes, answers any id it can     *)
(* have seen or guess, twice if it wants, stops reading, goes away.        *)

Room == ~eof /\ Len(inbox) < MaxInbox

PeerRequests(h) ==
  /\ Room /\ h \in unsent
  /\ unsent' = unsent \ {h}
  /\ inbox' = Append(inbox, Request(h))
  /\ UNCHANGED <<noted, replies, eof, writer, written, loopVars, noteVars, handler, callVars>>

PeerNotifies ==
  /\ Room /\ noted < MaxNotes
  /\ noted' = noted + 1
  /\ inbox' = Append(inbox, Note(noted + 1))
  /\ UNCHANGED <<unsent, replies, eof, writer, written, loopVars, noteVars, handler, callVars>>

PeerAnswers(i) ==
  /\ Room /\ replies < MaxAnswers
  /\ replies' = replies + 1
  /\ inbox' = Append(inbox, Response(i))
  /\ UNCHANGED <<unsent, noted, eof, writer, written, loopVars, noteVars, handler, callVars>>

\* The end of the stream, behind what was sent; a failed read loses that.
PeerCloses ==
  /\ ~eof /\ eof' = TRUE
  /\ inbox' \in {inbox, <<>>}
  /\ UNCHANGED <<unsent, noted, replies, writer, written, loopVars, noteVars, handler, callVars>>

WriterTurns(w) ==
  /\ writer # "broken" /\ w # writer
  /\ writer' = w
  /\ UNCHANGED <<unsent, noted, replies, eof, inbox, written, loopVars, noteVars, handler, callVars>>

Cancel ==
  /\ ~cancelled /\ cancelled' = TRUE
  /\ UNCHANGED <<peerVars, inbox, written, loop, inHand, closed, noteVars, handler, callVars>>

-----------------------------------------------------------------------------
(* Conn.write, which blocks while the peer does not read.                  *)

WriteReturns == writer # "stalled"

WritesAnswer(h) ==
  written' = IF writer = "ok" THEN [written EXCEPT ![h] = @ + 1] ELSE written

-----------------------------------------------------------------------------
(* Serve and dispatch.  The goroutine that scans the stream hands over one *)
(* line at a time and is part of the loop; so is a cancelled context being *)
(* noticed or not while a line is ready.                                   *)

Reads(m) == loop = "reading" /\ inbox # <<>> /\ Head(inbox) = m /\ inbox' = Tail(inbox)

\* serveRequest: inFlight.Add and the goroutine that answers.
ReadRequest(h) ==
  /\ Reads([kind |-> "request", id |-> h])
  /\ handler' = [handler EXCEPT ![h] = "running"]
  /\ UNCHANGED <<peerVars, written, loopVars, noteVars, callVars>>

\* A request that does not decode is answered by the loop itself.
ReadMalformed(h) ==
  /\ WriteReturns
  /\ Reads([kind |-> "malformed", id |-> h])
  /\ WritesAnswer(h)
  /\ UNCHANGED <<peerVars, loopVars, noteVars, handler, callVars>>

ReadNote(n) ==
  /\ Reads(Note(n))
  /\ loop' = "pushing" /\ inHand' = Note(n)
  /\ UNCHANGED <<peerVars, written, cancelled, closed, noteVars, handler, callVars>>

\* Its mutant drops the oldest when the channel is full.
Push_DropsOldest ==
  /\ loop = "pushing"
  /\ notes' = Append(IF Len(notes) < Backlog THEN notes ELSE Tail(notes), inHand.id)
  /\ loop' = "reading" /\ inHand' = Nothing
  /\ UNCHANGED <<peerVars, inbox, written, cancelled, closed, worker, served,
                 handler, callVars>>

\* Back-pressure: the loop waits for room in the channel.
Push ==
  /\ loop = "pushing" /\ Len(notes) < Backlog
  /\ notes' = Append(notes, inHand.id)
  /\ loop' = "reading" /\ inHand' = Nothing
  /\ UNCHANGED <<peerVars, inbox, written, cancelled, closed, worker, served,
                 handler, callVars>>

PushGivesUp ==
  /\ loop = "pushing" /\ cancelled
  /\ loop' = "reading" /\ inHand' = Nothing
  /\ UNCHANGED <<peerVars, inbox, written, cancelled, closed, noteVars, handler, callVars>>

\* routeResponse: the waiting call leaves pending before it is answered.
Waiting(i) == {c \in pending : id[c] = i}

\* Its mutant leaves the entry in pending.
ReadResponse_Keeps(i) ==
  /\ Reads(Response(i))
  /\ IF Waiting(i) = {}
     THEN UNCHANGED <<loop, inHand>>
     ELSE loop' = "routing" /\ inHand' = Response(i)
  /\ UNCHANGED <<peerVars, written, cancelled, closed, noteVars, handler, callVars>>

ReadResponse(i) ==
  /\ Reads(Response(i))
  /\ pending' = pending \ Waiting(i)
  /\ IF Waiting(i) = {}
     THEN UNCHANGED <<loop, inHand>>
     ELSE loop' = "routing" /\ inHand' = Response(i)
  /\ UNCHANGED <<peerVars, written, cancelled, closed, noteVars, handler,
                 call, id, nextID, slot, answer>>

Route(c) ==
  /\ loop = "routing" /\ id[c] = inHand.id /\ slot[c] = Empty
  /\ slot' = [slot EXCEPT ![c] = inHand.id]
  /\ loop' = "reading" /\ inHand' = Nothing
  /\ UNCHANGED <<peerVars, inbox, written, cancelled, closed, noteVars, handler,
                 call, id, nextID, pending, answer>>

\* The loop ends; the deferred calls run in the order of the next three.
Stop ==
  /\ loop = "reading" /\ (cancelled \/ (eof /\ inbox = <<>>))
  /\ loop' = "failing"
  /\ UNCHANGED <<peerVars, inbox, written, inHand, cancelled, closed, noteVars, handler, callVars>>

\* Its mutant marks the connection closed and fails nobody.
FailPending_FlagOnly ==
  /\ loop = "failing" /\ loop' = "draining"
  /\ closed' = TRUE
  /\ UNCHANGED <<peerVars, inbox, written, inHand, cancelled, noteVars, handler, callVars>>

FailPending ==
  /\ loop = "failing" /\ loop' = "draining"
  /\ closed' = TRUE
  /\ slot' = [c \in Callers |-> IF c \in pending THEN Closed ELSE slot[c]]
  /\ pending' = {}
  /\ UNCHANGED <<peerVars, inbox, written, inHand, cancelled, noteVars, handler,
                 call, id, nextID, answer>>

InFlight == {h \in Handlers : handler[h] \in {"running", "noting"}}

\* Its mutant does not wait.
DrainInFlight_Skipped ==
  /\ loop = "draining"
  /\ loop' = "done"
  /\ UNCHANGED <<peerVars, inbox, written, inHand, cancelled, closed, noteVars, handler, callVars>>

DrainInFlight ==
  /\ loop = "draining" /\ (InFlight = {} \/ cancelled)
  /\ loop' = "done"
  /\ UNCHANGED <<peerVars, inbox, written, inHand, cancelled, closed, noteVars, handler, callVars>>

-----------------------------------------------------------------------------
(* The notification worker.                                                *)

TakeNote ==
  /\ worker = {} /\ notes # <<>>
  /\ worker' = {Head(notes)} /\ notes' = Tail(notes)
  /\ UNCHANGED <<peerVars, inbox, written, loopVars, served, handler, callVars>>

FinishNote(n) ==
  /\ n \in worker
  /\ worker' = worker \ {n} /\ served' = Append(served, n)
  /\ UNCHANGED <<peerVars, inbox, written, loopVars, notes, handler, callVars>>

-----------------------------------------------------------------------------
(* Request, called by c.                                                   *)

MayCall(c) == c \in Handlers => handler[c] = "running"

Enter(c, i) ==
  /\ id' = [id EXCEPT ![c] = i]
  /\ pending' = pending \cup {c}
  /\ call' = [call EXCEPT ![c] = "sending"]

\* The mutants: an id taken twice, and no look at closed.
Register_SameId(c) ==
  /\ call[c] = "idle" /\ MayCall(c) /\ ~closed
  /\ Enter(c, 1) /\ nextID' = 1
  /\ UNCHANGED <<peerVars, inbox, written, loopVars, noteVars, handler, slot, answer>>

Register_Unchecked(c) ==
  /\ call[c] = "idle" /\ MayCall(c)
  /\ Enter(c, nextID + 1) /\ nextID' = nextID + 1
  /\ UNCHANGED <<peerVars, inbox, written, loopVars, noteVars, handler, slot, answer>>

Register(c) ==
  /\ call[c] = "idle" /\ MayCall(c)
  /\ IF closed
     THEN /\ call' = [call EXCEPT ![c] = "done"]
          /\ UNCHANGED <<id, nextID, pending>>
     ELSE nextID' = nextID + 1 /\ Enter(c, nextID + 1)
  /\ UNCHANGED <<peerVars, inbox, written, loopVars, noteVars, handler, slot, answer>>

SendCall(c) ==
  /\ call[c] = "sending" /\ WriteReturns
  /\ call' = [call EXCEPT ![c] = IF writer = "ok" THEN "waiting" ELSE "reclaiming"]
  /\ UNCHANGED <<peerVars, inbox, written, loopVars, noteVars, handler, id, nextID, pending,
                 slot, answer>>

\* The channel is full, or failPending closed it.
Receive(c) ==
  /\ call[c] = "waiting" /\ slot[c] # Empty
  /\ answer' = [answer EXCEPT ![c] = IF slot[c] = Closed THEN 0 ELSE slot[c]]
  /\ slot' = [slot EXCEPT ![c] = IF slot[c] = Closed THEN Closed ELSE Empty]
  /\ call' = [call EXCEPT ![c] = "reclaiming"]
  /\ UNCHANGED <<peerVars, inbox, written, loopVars, noteVars, handler, id, nextID, pending>>

\* The context of this call is cancelled, whether or not an answer is there.
GiveUp(c) ==
  /\ call[c] = "waiting"
  /\ call' = [call EXCEPT ![c] = "reclaiming"]
  /\ UNCHANGED <<peerVars, inbox, written, loopVars, noteVars, handler, id, nextID,
                 pending, slot, answer>>

\* Its mutant forgets the deferred delete.
Reclaim_Leaks(c) ==
  /\ call[c] = "reclaiming"
  /\ call' = [call EXCEPT ![c] = "done"]
  /\ UNCHANGED <<peerVars, inbox, written, loopVars, noteVars, handler, id, nextID,
                 pending, slot, answer>>

Reclaim(c) ==
  /\ call[c] = "reclaiming"
  /\ call' = [call EXCEPT ![c] = "done"]
  /\ pending' = pending \ {c}
  /\ UNCHANGED <<peerVars, inbox, written, loopVars, noteVars, handler, id, nextID,
                 slot, answer>>

-----------------------------------------------------------------------------
(* A handler: sends updates, makes its call, answers.                      *)

\* Notify looks at closed and writes later, as often as the handler likes.
Notify(h) ==
  /\ handler[h] = "running" /\ call[h] \in {"idle", "done"}
  /\ handler' = [handler EXCEPT ![h] = IF closed THEN "running" ELSE "noting"]
  /\ UNCHANGED <<peerVars, inbox, written, loopVars, noteVars, callVars>>

NotifyWrites(h) ==
  /\ handler[h] = "noting" /\ WriteReturns
  /\ handler' = [handler EXCEPT ![h] = "running"]
  /\ UNCHANGED <<peerVars, inbox, written, loopVars, noteVars, callVars>>

\* The response is written, then inFlight.Done.
Answer(h) ==
  /\ handler[h] = "running" /\ call[h] \in {"idle", "done"} /\ WriteReturns
  /\ WritesAnswer(h)
  /\ handler' = [handler EXCEPT ![h] = "answered"]
  /\ UNCHANGED <<peerVars, inbox, loopVars, noteVars, callVars>>

-----------------------------------------------------------------------------
Peer ==
  \/ \E h \in Inbound : PeerRequests(h)
  \/ PeerNotifies
  \/ \E i \in 1..Cardinality(Callers) : PeerAnswers(i)
  \/ PeerCloses
  \/ \E w \in {"ok"} \cup Faults : WriterTurns(w)

Loop ==
  \/ \E h \in Handlers : ReadRequest(h)
  \/ \E h \in Malformed : ReadMalformed(h)
  \/ \E n \in Notes : ReadNote(n)
  \/ \E i \in 1..Cardinality(Callers) : ReadResponse(i)
  \/ Push \/ PushGivesUp
  \/ \E c \in Callers : Route(c)
  \/ Stop \/ FailPending \/ DrainInFlight

Worker == TakeNote \/ \E n \in Notes : FinishNote(n)

CallSteps(c) == SendCall(c) \/ Receive(c) \/ Reclaim(c)

Next ==
  \/ Peer \/ Cancel \/ Loop \/ Worker
  \/ \E c \in Callers : Register(c) \/ CallSteps(c) \/ GiveUp(c)
  \/ \E h \in Handlers : Notify(h) \/ NotifyWrites(h) \/ Answer(h)

Spec == Init /\ [][Next]_vars

(* The loop, the worker, the calls and the handlers are goroutines that    *)
(* run when they can.  A handler is assumed to return, however many        *)
(* notifications it sends first; when its call does not, it does not.      *)
(* Nothing is assumed of the peer or of any context.                       *)
Fairness ==
  /\ WF_vars(Loop) /\ WF_vars(Worker)
  /\ \A c \in Callers : WF_vars(CallSteps(c))
  /\ \A h \in Handlers : WF_vars(NotifyWrites(h)) /\ SF_vars(Answer(h))

FairSpec == Spec /\ Fairness

-----------------------------------------------------------------------------
(* A response is returned only by the call whose id it carries, though     *)
(* answers arrive late, twice and for ids nobody uses.                     *)
OwnAnswer ==
  \A c \in Callers : answer[c] # 0 => answer[c] = id[c] /\ \A d \in Callers \ {c} : id[d] # id[c]

(* The read loop never blocks on the channel of a call: a response in its  *)
(* hands has an empty, open channel waiting for it, or the call has gone.  *)
RoutingNeverBlocks ==
  loop = "routing" =>
    \E c \in Callers : id[c] = inHand.id /\ slot[c] = Empty

(* An entry of Conn.pending belongs to a Request that has not returned:    *)
(* neither a cancelled call nor a failed write leaves one behind.          *)
NoEntryLeaked ==
  \A c \in pending : call[c] \in {"sending", "waiting", "reclaiming"} /\ ~closed

(* Unless the caller cancelled Serve or the peer cannot be written to, a   *)
(* Serve that has returned has answered every request it took, once.       *)
AnsweredBeforeReturn ==
  /\ \A h \in Inbound : written[h] <= 1
  /\ loop = "done" /\ ~cancelled /\ writer = "ok" =>
       \A h \in Handlers : handler[h] # "none" => written[h] = 1

(* Notifications are served one at a time in the order they were sent;     *)
(* only a cancelled Serve leaves some out.                                 *)
NotesInOrder ==
  /\ \A i, j \in 1..Len(served) : i < j => served[i] < served[j]
  /\ ~cancelled => \A i \in 1..Len(served) : served[i] = i

(* Every pending Request is failed when Serve ends: a call whose write the *)
(* peer takes returns, whatever the peer answers.                          *)
NoCallerLeftWaiting ==
  \A c \in Callers :
    (loop = "done" /\ call[c] # "idle") ~> (call[c] = "done" \/ writer = "stalled")

(* The end of the stream ends Serve, though handlers may be in the middle  *)
(* of a call that will get no answer now.                                  *)
ServeEnds == eof ~> (loop = "done" \/ writer = "stalled")
=============================================================================
