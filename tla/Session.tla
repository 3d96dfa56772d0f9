-------------------------------- MODULE Session --------------------------------
(***************************************************************************)
(* The client sessions of the server (internal/server/session.go) and the  *)
(* yamux session under each of them.                                       *)
(*                                                                         *)
(* state[s] is the atomic SessionState; the session context is cancelled   *)
(* in Close only, right after the state has left "active", so it is Done   *)
(* exactly when state[s] is "closing" or "closed".                         *)
(*                                                                         *)
(* mux[s] is the multiplexed connection as the server sees it: "up"; or    *)
(* "lost", when the connection under it is gone (the peer, the network, or *)
(* conn.Close) and yamux has not noticed; or "closed", when the yamux      *)
(* session is shut down, by the server or because its read loop or its     *)
(* keepalive failed.                                                       *)
(***************************************************************************)
CONSTANT Sessions    \* connections, each with the Session made from it

VARIABLES
    state,   \* Session.state; "none" before NewSessionWithMux
    mux,     \* Session.muxSession with its connection
    idle     \* IdleDuration() has passed IdleTimeout

sessionVars == <<state, mux, idle>>

SessionStates == {"none", "connecting", "active", "closing", "closed"}

SessionTypeOK ==
    /\ state \in [Sessions -> SessionStates]
    /\ mux \in [Sessions -> {"up", "lost", "closed"}]
    /\ idle \in [Sessions -> BOOLEAN]

SessionInit ==
    /\ state = [s \in Sessions |-> "none"]
    /\ mux = [s \in Sessions |-> "closed"]
    /\ idle = [s \in Sessions |-> FALSE]

-------------------------------------------------------------------------------

NewSession(s) == state' = [state EXCEPT ![s] = "connecting"]

(* SetState stores without looking at the state it replaces. *)
SetState(s, v) == state' = [state EXCEPT ![s] = v]

IsActive(s) == state[s] = "active"

ContextDone(s) == state[s] \in {"closing", "closed"}

IsClosed(s) == mux[s] = "closed"

(* Mutated forms: Close tests for "not closed yet"; Close also lets in a caller
   that finds the session connecting. *)
CloseWins_NotClosed(s) == state[s] \in {"active", "closing"}
CloseWins_Connecting(s) == state[s] \in {"connecting", "active"}

(* The CompareAndSwap that lets one caller of Close in: every other caller
   returns at once, also one that finds the session still "connecting". *)
CloseWins(s) == state[s] = "active"

(* Close, first half: the winner stores "closing" and cancels the context. *)
BeginClose(s) ==
    state' = IF CloseWins(s) THEN [state EXCEPT ![s] = "closing"] ELSE state

(* Mutated form: yamux is left to its keepalive. *)
FinishClose_KeepsMux(s) ==
    /\ UNCHANGED mux
    /\ state' = [state EXCEPT ![s] = "closed"]

(* Close, second half: yamux and the connection are closed, then "closed" is
   stored; nothing tells "closing" from "closed" between the two. *)
FinishClose(s) ==
    /\ mux' = [mux EXCEPT ![s] = "closed"]
    /\ state' = [state EXCEPT ![s] = "closed"]

(* yamux: a stream can be opened until the session is shut down; over a lost
   connection it may be, or may not, until yamux has noticed. *)
CanOpenStream(s) == mux[s] # "closed"
StreamMayFail(s) == mux[s] # "up"

(* updateActivity, called when a stream has been opened. *)
UpdateActivity(s) == idle' = [idle EXCEPT ![s] = FALSE]

-------------------------------------------------------------------------------
(* What the client, the network and the clock do to a session. *)

(* The client goes away, or the network between the two does. *)
LoseConnection(s) ==
    /\ mux[s] = "up"
    /\ mux' = [mux EXCEPT ![s] = "lost"]
    /\ UNCHANGED <<state, idle>>

(* The read loop of yamux fails, or its keepalive times out. *)
NoticeLoss(s) ==
    /\ mux[s] = "lost"
    /\ mux' = [mux EXCEPT ![s] = "closed"]
    /\ UNCHANGED <<state, idle>>

(* No stream has been opened for IdleTimeout. *)
GrowIdle(s) ==
    /\ IsActive(s)
    /\ ~idle[s]
    /\ idle' = [idle EXCEPT ![s] = TRUE]
    /\ UNCHANGED <<state, mux>>

===============================================================================
