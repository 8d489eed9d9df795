------------------------- MODULE ConversationTurns -------------------------
(***************************************************************************)
(* Turns of one conversation: every handler of AgentRuntime.run_turn, one  *)
(* step per transaction of ConversationService or per wait inside one.  A  *)
(* run bears the name of the request that created it.                      *)
(*                                                                         *)
(* Row locks are read off the program counters: the conversation row is    *)
(* held by a handler at "locked", an agent_runs row by its own handler at  *)
(* "writing"; every other transaction takes its locks and commits in one   *)
(* step.  The two kinds of holder take the two rows in opposite order.     *)
(*                                                                         *)
(* Source: src/verbaops/conversations/, src/verbaops/agent/runtime.py and  *)
(* the tool node of src/verbaops/agent/graph.py.                           *)
(***************************************************************************)
EXTENDS Naturals, FiniteSets, FiniteSetsExt, VoiceSession

CONSTANTS
    Requests,        \* HTTP requests for a turn, text and voice
    VoiceRequests,   \* those that carry a voice session and turn id
    Turns,           \* voice turn ids
    ToolUsers,       \* bound: the requests whose model calls a tool
    MaxCalls,        \* bound on the model calls recorded per run
    NoOne

ASSUME TurnsAssumption ==
    /\ VoiceRequests \subseteq Requests
    /\ MaxCalls \in Nat
    /\ NoOne \notin Requests

VARIABLES
    run,        \* status of the agent_runs row of each request
    stale,      \* a running row's started_at has fallen behind the recovery limit
    messages,   \* the rows of messages
    calls,      \* model_calls rows of each run
    tool,       \* status of the tool_invocations row of each run
    pc,         \* where each handler stands
    want,       \* what the trace write under way is to record
    reply,      \* what each request was told, and from which run
    turnOf      \* the turn id that each voice request carries

turnVars == <<run, stale, messages, calls, tool, pc, want, reply, turnOf>>

Row == [seq : Nat \ {0}, role : {"user", "assistant"}, run : Requests]
Kinds == {"call", "begin", "finish", "cancelled"}
Outcomes == {"none", "answered", "refused", "busy", "in_progress",
             "failed_before", "unavailable", "error"}

TurnsTypeOK ==
    /\ run \in [Requests -> {"none", "running", "completed", "failed"}]
    /\ stale \in [Requests -> BOOLEAN]
    /\ messages \subseteq Row
    /\ calls \in [Requests -> 0 .. MaxCalls]
    /\ tool \in [Requests -> {"none", "proposed", "finished"}]
    /\ pc \in [Requests -> {"idle", "arrived", "locked", "graph", "write", "writing",
                            "tool", "complete", "fail", "ended"}]
    /\ want \in [Requests -> Kinds \cup {"none"}]
    /\ reply \in [Requests -> [what : Outcomes, run : Requests \cup {NoOne}]]
    /\ turnOf \in [VoiceRequests -> Turns]

TurnsInit ==
    /\ run = [r \in Requests |-> "none"]
    /\ stale = [r \in Requests |-> FALSE]
    /\ messages = {}
    /\ calls = [r \in Requests |-> 0]
    /\ tool = [r \in Requests |-> "none"]
    /\ pc = [r \in Requests |-> "idle"]
    /\ want = [r \in Requests |-> "none"]
    /\ reply = [r \in Requests |-> [what |-> "none", run |-> NoOne]]
    /\ turnOf \in [VoiceRequests -> Turns]

Goto(r, label) == pc' = [pc EXCEPT ![r] = label] /\ UNCHANGED reply

Tell(r, what, q) ==
    /\ pc' = [pc EXCEPT ![r] = "ended"]
    /\ reply' = [reply EXCEPT ![r] = [what |-> what, run |-> q]]

ConversationFree == \A r \in Requests : pc[r] # "locked"

Running == {q \in Requests : run[q] = "running"}

-----------------------------------------------------------------------------
(* Starting a turn: the conversation row is locked first.                  *)

\* The transcript route reads the session before it starts the turn.
Arrive(r) ==
    /\ pc[r] = "idle"
    /\ \/ Goto(r, "arrived") /\ (r \in VoiceRequests => Valid /\ session = "connected")
       \/ Tell(r, "refused", NoOne) /\ r \in VoiceRequests
    /\ UNCHANGED <<run, stale, messages, calls, tool, want>>

LockConversation(r) ==
    /\ pc[r] = "arrived"
    /\ ConversationFree
    /\ Goto(r, "locked")
    /\ UNCHANGED <<run, stale, messages, calls, tool, want>>

\* The run that claimed the turn id of r.
Claims(r) ==
    {q \in VoiceRequests : r \in VoiceRequests /\ run[q] # "none" /\ turnOf[q] = turnOf[r]}

ProvenanceHolds(r) == r \in VoiceRequests => session # "ended"

\* The session was ended after the route read it.
RefuseProvenance(r) ==
    /\ pc[r] = "locked"
    /\ ~ProvenanceHolds(r)
    /\ Tell(r, "refused", NoOne)
    /\ UNCHANGED <<run, stale, messages, calls, tool, want>>

\* _replay_voice_turn: a claimed turn is answered from its run, never again.
Replay(r) ==
    /\ pc[r] = "locked"
    /\ ProvenanceHolds(r)
    /\ \E q \in Claims(r) :
          \/ run[q] = "running" /\ Tell(r, "in_progress", NoOne)
          \/ run[q] = "failed" /\ Tell(r, "failed_before", NoOne)
          \/ run[q] = "completed" /\ Tell(r, "answered", q)
    /\ UNCHANGED <<run, stale, messages, calls, tool, want>>

\* Faulty variant: a failed voice turn is run again under the same id.
NewTurn_RetriesFailed(r) ==
    pc[r] = "locked" /\ ProvenanceHolds(r) /\ \A q \in Claims(r) : run[q] = "failed"

NewTurn(r) == pc[r] = "locked" /\ ProvenanceHolds(r) /\ Claims(r) = {}

\* _recover_or_reject_running selects running rows FOR UPDATE: it waits for
\* a handler that holds its row.
CanScan == \A q \in Running : pc[q] # "writing"

RejectBusy(r) ==
    /\ NewTurn(r) /\ CanScan
    /\ \E q \in Running : ~stale[q]
    /\ Tell(r, "busy", NoOne)
    /\ UNCHANGED <<run, stale, messages, calls, tool, want>>

NextSeq == IF messages = {} THEN 1 ELSE 1 + Max({m.seq : m \in messages})

\* Faulty variant: stale runs are stepped over, not failed.
Recovered_Forgets(r) == [run EXCEPT ![r] = "running"]

\* The status of every run once stale ones are failed and r's is inserted.
Recovered(r) ==
    [q \in Requests |-> IF q = r THEN "running"
                        ELSE IF q \in Running THEN "failed" ELSE run[q]]

StartRun(r) ==
    /\ NewTurn(r) /\ CanScan
    /\ \A q \in Running : stale[q]
    /\ messages' = messages \cup {[seq |-> NextSeq, role |-> "user", run |-> r]}
    /\ run' = Recovered(r)
    /\ stale' = [q \in Requests |-> FALSE]
    /\ Goto(r, "graph")
    /\ UNCHANGED <<calls, tool, want>>

-----------------------------------------------------------------------------
(* The graph: model calls and one tool invocation, each recorded by a      *)
(* transaction that locks the run's row and then the conversation's.       *)

BeginWrite(r, kind) ==
    /\ \/ pc[r] = "graph" /\ kind = "call" /\ calls[r] < MaxCalls
       \/ pc[r] = "graph" /\ kind = "begin" /\ r \in ToolUsers /\ calls[r] > 0 /\ tool[r] = "none"
       \/ pc[r] = "tool" /\ kind = "finish"
    /\ want' = [want EXCEPT ![r] = kind]
    /\ Goto(r, "write")
    /\ UNCHANGED <<run, stale, messages, calls, tool>>

LockRun(r) ==
    /\ pc[r] = "write"
    /\ Goto(r, "writing")
    /\ UNCHANGED <<run, stale, messages, calls, tool, want>>

\* Where the graph goes on: a tool's result or failure is told to the model,
\* or its failure ends the turn.
After(kind) ==
    CASE kind = "call" -> {"graph"}
      [] kind = "begin" -> {"tool"}
      [] kind = "finish" -> {"graph", "fail"}
      [] kind = "cancelled" -> {"fail"}

Invocation(kind, before) ==
    CASE kind = "call" -> before
      [] kind = "begin" -> "proposed"
      [] OTHER -> "finished"

\* Faulty variant: the status of the run is not looked at under its lock.
Write_Unchecked(r) ==
    /\ pc[r] = "writing"
    /\ ConversationFree
    /\ calls' = [calls EXCEPT ![r] = IF want[r] = "call" THEN @ + 1 ELSE @]
    /\ tool' = [tool EXCEPT ![r] = Invocation(want[r], @)]
    /\ \E label \in After(want[r]) : Goto(r, label)
    /\ want' = [want EXCEPT ![r] = "none"]
    /\ UNCHANGED <<run, stale, messages>>

\* _run joins the conversation, then _require_running decides.
Write(r) ==
    /\ pc[r] = "writing"
    /\ ConversationFree
    /\ \/ /\ run[r] = "running"
          /\ calls' = [calls EXCEPT ![r] = IF want[r] = "call" THEN @ + 1 ELSE @]
          /\ tool' = [tool EXCEPT ![r] = Invocation(want[r], @)]
          /\ \E label \in After(want[r]) : Goto(r, label)
       \/ /\ run[r] # "running"
          /\ Goto(r, "fail")
          /\ UNCHANGED <<calls, tool>>
    /\ want' = [want EXCEPT ![r] = "none"]
    /\ UNCHANGED <<run, stale, messages>>

\* A starter holds the conversation and waits for the row of q; q holds its
\* row and waits for the conversation.  PostgreSQL ends one of the two.
Deadlocked(r, q) == NewTurn(r) /\ q \in Running /\ pc[q] = "writing"

AbortStart(r) ==
    /\ \E q \in Requests : Deadlocked(r, q)
    /\ Tell(r, "error", NoOne)
    /\ UNCHANGED <<run, stale, messages, calls, tool, want>>

AbortWrite(q) ==
    /\ \E r \in Requests : Deadlocked(r, q)
    /\ want' = [want EXCEPT ![q] = "none"]
    /\ Goto(q, "fail")
    /\ UNCHANGED <<run, stale, messages, calls, tool>>

\* A protocol error, an exhausted budget, a model or retrieval failure.
GraphFails(r) ==
    /\ pc[r] = "graph"
    /\ Goto(r, "fail")
    /\ UNCHANGED <<run, stale, messages, calls, tool, want>>

\* wait_for cancels the graph once; a tool that is executing records that
\* it was cancelled before the turn is failed, any other write is rolled back.
Deadline(r) ==
    /\ \/ pc[r] = "tool" /\ want' = [want EXCEPT ![r] = "cancelled"] /\ Goto(r, "write")
       \/ /\ pc[r] \in {"graph", "write", "writing"} /\ want[r] # "cancelled"
          /\ want' = [want EXCEPT ![r] = "none"]
          /\ Goto(r, "fail")
    /\ UNCHANGED <<run, stale, messages, calls, tool>>

Answer(r) ==
    /\ pc[r] = "graph"
    /\ calls[r] > 0
    /\ Goto(r, "complete")
    /\ UNCHANGED <<run, stale, messages, calls, tool, want>>

-----------------------------------------------------------------------------
(* Ending a turn.                                                          *)

\* The age of a row is of no interest once it is not running.
Rejuvenate(r) == stale' = [stale EXCEPT ![r] = FALSE]

\* Faulty variant: a turn that was recovered from its handler is completed after all.
Complete_Unchecked(r) ==
    /\ pc[r] = "complete"
    /\ ConversationFree
    /\ messages' = messages \cup {[seq |-> NextSeq, role |-> "assistant", run |-> r]}
    /\ run' = [run EXCEPT ![r] = "completed"]
    /\ Tell(r, "answered", r)
    /\ UNCHANGED <<stale, calls, tool, want>>

\* complete_turn; the commit may be applied although its caller sees an error.
Complete(r) ==
    /\ pc[r] = "complete"
    /\ ConversationFree
    /\ \/ /\ run[r] = "running"
          /\ messages' = messages \cup {[seq |-> NextSeq, role |-> "assistant", run |-> r]}
          /\ run' = [run EXCEPT ![r] = "completed"]
          /\ Tell(r, "answered", r) \/ Goto(r, "fail")
       \/ /\ run[r] # "running"
          /\ Goto(r, "fail")
          /\ UNCHANGED <<run, messages>>
    /\ Rejuvenate(r)
    /\ UNCHANGED <<calls, tool, want>>

\* _fail_run: fail_turn refuses a run that is no longer running, and its
\* errors, those of the database included, are swallowed.
Fail(r) ==
    /\ pc[r] = "fail"
    /\ ConversationFree
    /\ \/ /\ run' = [run EXCEPT ![r] = IF @ = "running" THEN "failed" ELSE @]
          /\ Rejuvenate(r)
       \/ UNCHANGED <<run, stale>>
    /\ Tell(r, "unavailable", NoOne)
    /\ UNCHANGED <<messages, calls, tool, want>>

\* The process dies: its locks are released, its run stays as it is.
Crash(r) ==
    /\ pc[r] \notin {"idle", "ended"}
    /\ Tell(r, "unavailable", NoOne)
    /\ UNCHANGED <<run, stale, messages, calls, tool, want>>

GrowStale(q) ==
    /\ run[q] = "running" /\ ~stale[q]
    /\ stale' = [stale EXCEPT ![q] = TRUE]
    /\ UNCHANGED <<run, messages, calls, tool, pc, want, reply>>

DatabaseStep(r) ==
    \/ LockConversation(r) \/ RefuseProvenance(r) \/ Replay(r)
    \/ RejectBusy(r) \/ StartRun(r) \/ AbortStart(r)
    \/ LockRun(r) \/ Write(r) \/ AbortWrite(r) \/ Complete(r) \/ Fail(r)

TurnStep(r) ==
    /\ \/ DatabaseStep(r)
       \/ \E kind \in Kinds : BeginWrite(r, kind)
       \/ GraphFails(r) \/ Deadline(r) \/ Answer(r) \/ Crash(r) \/ GrowStale(r)
    /\ UNCHANGED turnOf

-----------------------------------------------------------------------------
\* At most one turn of the conversation runs, whatever handlers are still at
\* work for turns that were recovered from them.
OneRunningTurn == \A q, r \in Running : q = r

RowsOf(q, role) == {m \in messages : m.run = q /\ m.role = role}

\* The transcript is numbered without gaps or repeats; every run has its
\* question, only a completed one has an answer, and the answer directly
\* follows its question; a completed run leaves no invocation unfinished.
TranscriptIntact ==
    /\ {m.seq : m \in messages} = 1 .. Cardinality(messages)
    /\ \A q \in Requests :
          /\ Cardinality(RowsOf(q, "user")) = (IF run[q] = "none" THEN 0 ELSE 1)
          /\ Cardinality(RowsOf(q, "assistant")) = (IF run[q] = "completed" THEN 1 ELSE 0)
          /\ run[q] = "completed" => tool[q] # "proposed"
    /\ \A a \in messages : a.role = "assistant" =>
          \E u \in RowsOf(a.run, "user") : a.seq = u.seq + 1

\* A voice turn id is run once, and whoever was answered for it got the one
\* durable answer; a text request only ever gets its own.
VoiceTurnOnce ==
    /\ \A q \in Requests : Cardinality(Claims(q)) <= 1
    /\ \A r \in Requests : reply[r].what = "answered" =>
          /\ run[reply[r].run] = "completed"
          /\ reply[r].run \in Claims(r) \cup ({r} \ VoiceRequests)

\* Nothing is added to a run once it ended, by its own late handler or by
\* anybody else, and no message is ever changed or removed.
EndedRunsAreFrozen ==
    [][/\ messages \subseteq messages'
       /\ \A q \in Requests : run[q] \in {"completed", "failed"} =>
             /\ run'[q] = run[q] /\ calls'[q] = calls[q] /\ tool'[q] = tool[q]
             /\ RowsOf(q, "assistant")' = RowsOf(q, "assistant")]_turnVars

\* Two requests that meet on one conversation: the later one is told that it
\* is busy, as the design of the voice stage and the concurrency tests say.
LoserIsToldBusy == \A r \in Requests : reply[r].what # "error"
=============================================================================
