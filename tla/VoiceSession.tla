---------------------------- MODULE VoiceSession ----------------------------
(***************************************************************************)
(* The durable row of one voice session.  Every transition locks the row   *)
(* and checks the state it finds, so each is one step; transcripts read    *)
(* the row without a lock and act on it later (ConversationTurns).         *)
(*                                                                         *)
(* Source: src/verbaops/voice/service.py and repository.py.                *)
(***************************************************************************)
VARIABLE session   \* status of the row

SessionStates == {"created", "connecting", "connected", "ended"}

\* transition_allowed: what may follow each status.
Successors ==
    [created    |-> {"connecting", "ended"},
     connecting |-> {"connected", "ended"},
     connected  |-> {"ended"},
     ended      |-> {}]

SessionTypeOK == session \in SessionStates

SessionInit == session = "created"

\* _require_valid: whether created_at + ttl has passed is left open, so each
\* check of a row that is not ended may go either way.
Valid == session # "ended"

-----------------------------------------------------------------------------
Become(s) == s \in Successors[session] /\ session' = s

\* The token issuer fails: the row, already committed, is ended.
MintFails == session = "created" /\ Become("ended")

\* Repeated calls return the row as it is.
MarkConnecting == Valid /\ Become("connecting")
MarkConnected == Valid /\ Become("connected")

\* The owner may end a session whether or not it is still valid.
EndSession == Become("ended")

SessionNext == MintFails \/ MarkConnecting \/ MarkConnected \/ EndSession
=============================================================================
