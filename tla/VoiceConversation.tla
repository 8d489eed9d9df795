------------------------- MODULE VoiceConversation -------------------------
(***************************************************************************)
(* A voice worker in front of the conversation: every FINAL event that the *)
(* speech provider delivers is a request of VoiceRequests, and several     *)
(* deliveries may carry one turn id.  The worker's memory (the ids it      *)
(* submitted, the playout it holds) is lost when it restarts, the          *)
(* conversation's is not.  Text requests share the conversation.           *)
(*                                                                         *)
(* Source: src/verbaops/voice/worker.py, speech.py and the transcript      *)
(* route; the HTTP client and the audio provider are only protocols there. *)
(***************************************************************************)
EXTENDS ConversationTurns

VARIABLES
    task,        \* the handle_speech_event call of each delivery
    submitted,   \* SpeechEventNormalizer._submitted_turn_ids
    playout,     \* the handle in VoiceWorkerCoordinator._playout
    audible,     \* deliveries whose answer is being played
    restarted    \* the worker restarted (once at most: a bound)

workerVars == <<task, submitted, playout, audible, restarted>>
vars == <<session, turnVars, workerVars>>

WorkerTypeOK ==
    /\ task \in [VoiceRequests ->
                   {"none", "submitted", "speaking", "spoken", "dropped", "over"}]
    /\ submitted \subseteq Turns
    /\ playout \in VoiceRequests \cup {NoOne}
    /\ audible \subseteq VoiceRequests
    /\ restarted \in BOOLEAN

TypeOK == SessionTypeOK /\ TurnsTypeOK /\ WorkerTypeOK

WorkerInit ==
    /\ task = [d \in VoiceRequests |-> "none"]
    /\ submitted = {}
    /\ playout = NoOne
    /\ audible = {}
    /\ restarted = FALSE

Init == SessionInit /\ TurnsInit /\ WorkerInit

-----------------------------------------------------------------------------
\* Faulty variant: submitted ids are not remembered.
HearFinal_Forgets(d) ==
    /\ task[d] = "none"
    /\ task' = [task EXCEPT ![d] = "submitted"]
    /\ UNCHANGED <<submitted, playout, audible, restarted>>

\* Only the first FINAL of a turn is submitted.
HearFinal(d) ==
    /\ task[d] = "none"
    /\ IF turnOf[d] \in submitted
       THEN task' = [task EXCEPT ![d] = "dropped"] /\ UNCHANGED submitted
       ELSE /\ task' = [task EXCEPT ![d] = "submitted"]
            /\ submitted' = submitted \cup {turnOf[d]}
    /\ UNCHANGED <<playout, audible, restarted>>

\* forget_final, then the error is raised to the caller.
GiveUp(d) ==
    /\ task' = [task EXCEPT ![d] = "over"]
    /\ submitted' = submitted \ {turnOf[d]}
    /\ UNCHANGED <<playout, audible, restarted>>

\* The answer of the route, or its error.
ResultReturns(d) ==
    /\ task[d] = "submitted"
    /\ pc[d] = "ended"
    /\ IF reply[d].what = "answered"
       THEN /\ task' = [task EXCEPT ![d] = "speaking"]
            /\ UNCHANGED <<submitted, playout, audible, restarted>>
       ELSE GiveUp(d)

\* The client gives up on a request that may be under way or served.
SubmissionLost(d) == task[d] = "submitted" /\ GiveUp(d)

SpeakFails(d) == task[d] = "speaking" /\ GiveUp(d)

\* speak returns the handle, which takes the place of an earlier one.
Speak(d) ==
    /\ task[d] = "speaking"
    /\ task' = [task EXCEPT ![d] = "spoken"]
    /\ playout' = d
    /\ audible' = audible \cup {d}
    /\ UNCHANGED <<submitted, restarted>>

\* The audio ends; handle_playout_completed clears the handle if it is still it.
PlayoutCompletes(d) ==
    /\ d \in audible
    /\ audible' = audible \ {d}
    /\ playout' = IF playout = d THEN NoOne ELSE playout
    /\ UNCHANGED <<task, submitted, restarted>>

\* Interruption, disconnect, session end and provider error are handled alike.
CancelPlayout ==
    /\ playout # NoOne
    /\ playout' = NoOne
    /\ audible' = audible \ {playout}
    /\ UNCHANGED <<task, submitted, restarted>>

Restart ==
    /\ ~restarted
    /\ restarted' = TRUE
    /\ task' = [d \in VoiceRequests |-> IF task[d] \in {"none", "dropped"} THEN task[d] ELSE "over"]
    /\ submitted' = {}
    /\ playout' = NoOne
    /\ audible' = {}

DeliveryStep(d) ==
    \/ HearFinal(d) \/ ResultReturns(d) \/ SubmissionLost(d)
    \/ SpeakFails(d) \/ Speak(d) \/ PlayoutCompletes(d)

\* A request reaches the server only if its FINAL was submitted, also after
\* the worker that sent it gave up or died.
Sent(r) == r \in VoiceRequests => task[r] \notin {"none", "dropped"}

RequestArrives(r) == Sent(r) /\ Arrive(r) /\ UNCHANGED turnOf

-----------------------------------------------------------------------------
Next ==
    \/ \E r \in Requests :
          (RequestArrives(r) \/ TurnStep(r)) /\ UNCHANGED <<session, workerVars>>
    \/ SessionNext /\ UNCHANGED <<turnVars, workerVars>>
    \/ ((\E d \in VoiceRequests : DeliveryStep(d)) \/ CancelPlayout \/ Restart)
          /\ UNCHANGED <<session, turnVars>>

Spec == Init /\ [][Next]_vars

-----------------------------------------------------------------------------
\* Until the worker restarts, a turn has one submission at most that is under
\* way, being spoken or spoken, however often its FINAL is delivered; and what
\* is being spoken or played is the durable answer of that very turn.
HeardOnceAndDurable ==
    /\ \A d, e \in VoiceRequests :
          ({task[d], task[e]} \subseteq {"submitted", "speaking", "spoken"}
             /\ turnOf[d] = turnOf[e]) => d = e
    /\ \A d \in audible \cup {e \in VoiceRequests : task[e] = "speaking"} :
          \E q \in Claims(d) : run[q] = "completed" /\ RowsOf(q, "assistant") # {}
=============================================================================
