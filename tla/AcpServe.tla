------------------------------ MODULE AcpServe ------------------------------
(***************************************************************************)
(* internal/agent/acp_session.go over internal/acp/session.go: the agent   *)
(* served on one connection.  It composes AcpConn with the handlers of     *)
(* initialize, session/new and session/prompt, and the state they share:   *)
(* the handshake and the store of the one session and its one turn.        *)
(*                                                                         *)
(* Each handler runs in the goroutine AcpConn gives its request, so the    *)
(* handlers of a client that does not wait for answers race.  The          *)
(* handshake and the session, once there, stay: a handler that looks them  *)
(* up and then claims is one step, taken where it claims.  The peer's      *)
(* notifications name methods nobody serves (session/cancel).              *)
(***************************************************************************)
EXTENDS AcpConn

CONSTANTS
  Inits,   \* initialize requests
  News,    \* session/new requests
  Prompts  \* session/prompt requests

ASSUME ServeAssumption ==
  /\ Handlers = Inits \cup News \cup Prompts
  /\ Inits \cap News = {} /\ Inits \cap Prompts = {} /\ News \cap Prompts = {}

VARIABLES
  complete,  \* Handshake.complete
  claimed,   \* sessionStore.claimed
  sessions,  \* sessionStore.sessions: the session/new requests that made them
  active,    \* session.active of the session
  at,        \* [Handlers -> "start", "claimed", "turn", "ended"]
  addressed  \* prompts sent by a client that had been told the session's id

sessionVars == <<complete, claimed, sessions, active, at, addressed>>
serveVars   == <<vars, sessionVars>>

ServeTypeOK ==
  /\ TypeOK
  /\ complete \in BOOLEAN /\ claimed \in BOOLEAN /\ active \in BOOLEAN
  /\ sessions \subseteq News /\ addressed \subseteq Prompts
  /\ at \in [Handlers -> {"start", "claimed", "turn", "ended"}]

ServeInit ==
  /\ Init
  /\ complete = FALSE /\ claimed = FALSE /\ sessions = {} /\ active = FALSE
  /\ at = [h \in Handlers |-> "start"]
  /\ addressed = {}

-----------------------------------------------------------------------------
(* The handlers, each while its request is running.                        *)

Goes(h, from, to) ==
  /\ handler[h] = "running" /\ at[h] = from
  /\ at' = [at EXCEPT ![h] = to]
  /\ UNCHANGED vars

\* Parameters that do not decode or are refused change nothing.
Refuse(h) ==
  /\ Goes(h, "start", "ended")
  /\ UNCHANGED <<complete, claimed, sessions, active, addressed>>

Initialize(h) ==
  /\ Goes(h, "start", "ended")
  /\ complete' = TRUE
  /\ UNCHANGED <<claimed, sessions, active, addressed>>

NewSession(h) ==
  /\ complete /\ ~claimed
  /\ Goes(h, "start", "claimed")
  /\ claimed' = TRUE
  /\ UNCHANGED <<complete, sessions, active, addressed>>

AddSession(h) ==
  /\ Goes(h, "claimed", "ended")
  /\ sessions' = sessions \cup {h}
  /\ UNCHANGED <<complete, claimed, active, addressed>>

\* Its mutant keeps the claim.
ReleaseSole_Kept(h) ==
  /\ Goes(h, "claimed", "ended")
  /\ UNCHANGED <<complete, claimed, sessions, active, addressed>>

\* newSessionID fails: releaseSole.
ReleaseSole(h) ==
  /\ Goes(h, "claimed", "ended")
  /\ claimed' = FALSE
  /\ UNCHANGED <<complete, sessions, active, addressed>>

BeginTurn(h) ==
  /\ complete /\ h \in addressed /\ ~active
  /\ Goes(h, "start", "turn")
  /\ active' = TRUE
  /\ UNCHANGED <<complete, claimed, sessions, addressed>>

\* Its mutant leaves the session busy when the turn fails.
EndTurn_IfNoError(h) ==
  /\ Goes(h, "turn", "ended")
  /\ active' \in BOOLEAN
  /\ UNCHANGED <<complete, claimed, sessions, addressed>>

\* The events of the turn are over, or it failed; endTurn is deferred.
EndTurn(h) ==
  /\ Goes(h, "turn", "ended")
  /\ active' = FALSE
  /\ UNCHANGED <<complete, claimed, sessions, addressed>>

HandlerStep(h) ==
  \/ Refuse(h)
  \/ h \in Inits /\ Initialize(h)
  \/ h \in News /\ (NewSession(h) \/ AddSession(h) \/ ReleaseSole(h))
  \/ h \in Prompts /\ (BeginTurn(h) \/ EndTurn(h))

-----------------------------------------------------------------------------
(* A client can name the session once it has read the answer to the        *)
(* request that opened it.                                                 *)
Known == \E n \in sessions : written[n] > 0

ClientPrompts(h) ==
  /\ PeerRequests(h)
  /\ addressed' = IF Known THEN addressed \cup {h} ELSE addressed
  /\ UNCHANGED <<complete, claimed, sessions, active, at>>

ConnStep ==
  \/ \E h \in Inbound \ Prompts : PeerRequests(h)
  \/ PeerNotifies \/ PeerCloses
  \/ \E w \in {"ok"} \cup Faults : WriterTurns(w)
  \/ Cancel \/ Loop \/ Worker
  \/ \E h \in Prompts : at[h] = "turn" /\ Notify(h)
  \/ \E h \in Handlers : NotifyWrites(h)
  \/ \E h \in Handlers : at[h] = "ended" /\ Answer(h)

ServeNext ==
  \/ ConnStep /\ UNCHANGED sessionVars
  \/ \E h \in Prompts : ClientPrompts(h)
  \/ \E h \in Handlers : HandlerStep(h)

ServeSpec == ServeInit /\ [][ServeNext]_serveVars

-----------------------------------------------------------------------------
(* The agent has one conversation: it never hosts two sessions, and the    *)
(* slot is taken by a session, or by a session/new that is making one and  *)
(* gives it back when that fails.                                          *)
SoleSession ==
  /\ Cardinality(sessions) <= 1
  /\ claimed <=> sessions # {} \/ \E h \in News : at[h] = "claimed"

(* One turn runs at a time, and the session is busy exactly while the      *)
(* request that runs it is unanswered: a client that prompts again after   *)
(* an answer, or after a failure, is not told that a turn is active.       *)
Running == {h \in Prompts : at[h] = "turn"}

TurnSlot ==
  /\ Cardinality(Running) <= 1
  /\ active <=> Running # {}
  /\ \A h \in Running : handler[h] # "answered"
=============================================================================
