----------------------- MODULE VoiceConversationProofs -----------------------
(***************************************************************************)
(* The theorems of VoiceConversation: for any number of text and voice     *)
(* requests, turn ids, tool users and recorded model calls.                *)
(***************************************************************************)
EXTENDS VoiceConversation, TLAPS, FiniteSetTheorems

-----------------------------------------------------------------------------
(* What a handler's place tells of its run, its invocation and its write.  *)
HandlerInv(r) ==
    /\ pc[r] \in {"idle", "arrived", "locked"} => run[r] = "none" /\ tool[r] = "none"
    /\ pc[r] \in {"graph", "complete"} => tool[r] # "proposed"
    /\ pc[r] \in {"write", "writing"} =>
          /\ want[r] # "none"
          /\ want[r] = "call" => calls[r] < MaxCalls
          /\ want[r] \in {"call", "begin"} => tool[r] # "proposed"

HandlersInv == \A r \in Requests : HandlerInv(r)

(* The rows that belong to a run in each status.                           *)
RowsInv ==
    \A q \in Requests :
       /\ run[q] = "none" => RowsOf(q, "user") = {}
       /\ run[q] # "none" => \E u \in messages : RowsOf(q, "user") = {u}
       /\ run[q] # "completed" => RowsOf(q, "assistant") = {}
       /\ run[q] = "completed" => \E a \in messages : RowsOf(q, "assistant") = {a}

Numbered ==
    /\ IsFiniteSet(messages)
    /\ {m.seq : m \in messages} = 1 .. Cardinality(messages)

(* The question of the running turn is the last row of the transcript.     *)
QuestionIsLast ==
    \A q \in Running : \E u \in RowsOf(q, "user") : u.seq = Cardinality(messages)

AnswersFollow ==
    \A a \in messages : a.role = "assistant" =>
       \E u \in RowsOf(a.run, "user") : a.seq = u.seq + 1

ToolsFinished == \A q \in Requests : run[q] = "completed" => tool[q] # "proposed"

TranscriptInv ==
    RowsInv /\ Numbered /\ QuestionIsLast /\ AnswersFollow /\ ToolsFinished

(* One run claims a turn id; replies name a completed run.                 *)
ClaimedOnce ==
    \A p, q \in VoiceRequests :
       run[p] # "none" /\ run[q] # "none" /\ turnOf[p] = turnOf[q] => p = q

RepliesDurable ==
    \A r \in Requests : reply[r].what = "answered" =>
       /\ run[reply[r].run] = "completed"
       /\ reply[r].run \in Claims(r) \cup ({r} \ VoiceRequests)

(* The deliveries that keep their turn id in submitted.                    *)
Live == {d \in VoiceRequests : task[d] \in {"submitted", "speaking", "spoken"}}

WorkerInv ==
    /\ \A d, e \in Live : turnOf[d] = turnOf[e] => d = e
    /\ \A d \in Live : turnOf[d] \in submitted
    /\ \A d \in audible \cup {e \in VoiceRequests : task[e] = "speaking"} :
          \E q \in Claims(d) : run[q] = "completed"

IInv ==
    /\ TypeOK
    /\ HandlersInv
    /\ OneRunningTurn
    /\ TranscriptInv
    /\ ClaimedOnce
    /\ RepliesDurable
    /\ WorkerInv

-----------------------------------------------------------------------------
(* How Goto and Tell change their handler's entries, and no other.         *)
LEMMA GotoEffect ==
  ASSUME TypeOK, NEW r \in Requests, NEW label, Goto(r, label)
  PROVE  /\ pc' = [pc EXCEPT ![r] = label] /\ pc'[r] = label
         /\ \A other \in Requests \ {r} : pc'[other] = pc[other]
         /\ reply' = reply
  BY DEF TypeOK, TurnsTypeOK, Goto

LEMMA TellEffect ==
  ASSUME TypeOK, NEW r \in Requests, NEW what, NEW q, Tell(r, what, q)
  PROVE  /\ pc' = [pc EXCEPT ![r] = "ended"] /\ pc'[r] = "ended"
         /\ reply'[r].what = what /\ reply'[r].run = q
         /\ \A other \in Requests \ {r} : pc'[other] = pc[other] /\ reply'[other] = reply[other]
  BY DEF TypeOK, TurnsTypeOK, Tell

(* A step of one handler leaves the entries of the others alone.           *)
OthersKept(r) ==
    \A other \in Requests \ {r} :
       /\ pc'[other] = pc[other] /\ reply'[other] = reply[other]
       /\ want'[other] = want[other]
       /\ calls'[other] = calls[other] /\ tool'[other] = tool[other]

HandlerAction(r) == RequestArrives(r) \/ TurnStep(r)

(* What a handler's step may do to the durable rows.                       *)
Quiet == run' = run /\ messages' = messages

Started(r) ==
    /\ NewTurn(r)
    /\ run' = Recovered(r)
    /\ messages' = messages \cup {[seq |-> NextSeq, role |-> "user", run |-> r]}
    /\ pc'[r] = "graph" /\ calls' = calls /\ tool' = tool

Finished(r) ==
    /\ pc[r] = "complete" /\ run[r] = "running"
    /\ run' = [run EXCEPT ![r] = "completed"]
    /\ messages' = messages \cup {[seq |-> NextSeq, role |-> "assistant", run |-> r]}
    /\ calls' = calls /\ tool' = tool

Dropped(r) ==
    /\ run[r] = "running"
    /\ run' = [run EXCEPT ![r] = "failed"]
    /\ messages' = messages /\ calls' = calls /\ tool' = tool

(* Calls and invocations are recorded for running turns only.              *)
Recorded(r) == run[r] = "running" \/ (calls'[r] = calls[r] /\ tool'[r] = tool[r])

LEMMA HandlerEffect ==
  ASSUME TypeOK, NEW r \in Requests, HandlerAction(r)
  PROVE  /\ OthersKept(r)
         /\ turnOf' = turnOf
         /\ Quiet \/ Started(r) \/ Finished(r) \/ Dropped(r)
         /\ Recorded(r)
<1> USE DEF OthersKept, Recorded
<1>0. turnOf' = turnOf
  BY DEF HandlerAction, RequestArrives, TurnStep
<1>1. CASE Arrive(r) \/ LockConversation(r) \/ RefuseProvenance(r) \/ RejectBusy(r)
           \/ AbortStart(r) \/ LockRun(r) \/ GraphFails(r) \/ Answer(r) \/ Crash(r)
  BY <1>0, <1>1, GotoEffect, TellEffect
  DEF Arrive, LockConversation, RefuseProvenance, RejectBusy, AbortStart, LockRun,
      GraphFails, Answer, Crash, Quiet
<1>2. CASE Replay(r)
  BY <1>0, <1>2, TellEffect DEF Replay, Quiet
<1>3. CASE StartRun(r)
  BY <1>0, <1>3, GotoEffect DEF StartRun, Started
<1>4. CASE Write(r)
  <2>1. \A other \in Requests \ {r} : calls'[other] = calls[other] /\ tool'[other] = tool[other]
    BY <1>4 DEF Write, TypeOK, TurnsTypeOK
  <2>2. \A other \in Requests \ {r} : want'[other] = want[other]
    BY <1>4 DEF Write, TypeOK, TurnsTypeOK
  <2>3. \A other \in Requests \ {r} : pc'[other] = pc[other] /\ reply'[other] = reply[other]
    BY <1>4, GotoEffect DEF Write
  <2> QED BY <1>0, <1>4, <2>1, <2>2, <2>3 DEF Write, Quiet
<1>5. CASE AbortWrite(r) \/ Deadline(r) \/ \E kind \in Kinds : BeginWrite(r, kind)
  <2>1. \A other \in Requests \ {r} : want'[other] = want[other]
    BY <1>5 DEF AbortWrite, Deadline, BeginWrite, TypeOK, TurnsTypeOK
  <2>2. \A other \in Requests \ {r} : pc'[other] = pc[other] /\ reply'[other] = reply[other]
    BY <1>5, GotoEffect DEF AbortWrite, Deadline, BeginWrite
  <2> QED BY <1>0, <1>5, <2>1, <2>2 DEF AbortWrite, Deadline, BeginWrite, Quiet
<1>6. CASE Complete(r)
  <2>1. \A other \in Requests \ {r} : pc'[other] = pc[other] /\ reply'[other] = reply[other]
    BY <1>6, GotoEffect, TellEffect DEF Complete
  <2> QED BY <1>0, <1>6, <2>1 DEF Complete, Quiet, Finished
<1>7. CASE Fail(r)
  <2>1. run' = run \/ (run[r] = "running" /\ run' = [run EXCEPT ![r] = "failed"])
    BY <1>7 DEF Fail, TypeOK, TurnsTypeOK
  <2> QED BY <1>0, <1>7, <2>1, TellEffect DEF Fail, Quiet, Dropped
<1>8. CASE GrowStale(r)
  BY <1>0, <1>8 DEF GrowStale, Quiet
<1> QED BY <1>1, <1>2, <1>3, <1>4, <1>5, <1>6, <1>7, <1>8
    DEF HandlerAction, RequestArrives, TurnStep, DatabaseStep

-----------------------------------------------------------------------------
(* The next sequence number is one more than there are rows, so a row that *)
(* is appended is new, keeps the numbering and becomes the last.           *)
LEMMA NextSeqIsFresh ==
  ASSUME TypeOK, Numbered
  PROVE  /\ Cardinality(messages) \in Nat
         /\ NextSeq = Cardinality(messages) + 1
<1> DEFINE n == Cardinality(messages)
           seqs == {m.seq : m \in messages}
<1>1. n \in Nat /\ seqs = 1 .. n
  BY FS_CardinalityType DEF Numbered
<1>2. CASE messages = {}
  BY <1>2, FS_EmptySet DEF NextSeq
<1>3. CASE messages # {}
  <2>1. n \in seqs /\ \A s \in seqs : n >= s
    BY <1>1, <1>3
  <2>2. Max(seqs) \in seqs /\ \A s \in seqs : Max(seqs) >= s
    BY <2>1 DEF Max
  <2>3. Max(seqs) \in 1 .. n /\ Max(seqs) >= n
    BY <1>1, <2>1, <2>2
  <2> QED BY <1>1, <1>3, <2>3 DEF NextSeq
<1> QED BY <1>1, <1>2, <1>3

LEMMA AppendedRow ==
  ASSUME TypeOK, Numbered, NEW r \in Requests, NEW role \in {"user", "assistant"},
         messages' = messages \cup {[seq |-> NextSeq, role |-> role, run |-> r]}
  PROVE  /\ [seq |-> NextSeq, role |-> role, run |-> r] \in Row
         /\ messages' \subseteq Row
         /\ Numbered'
         /\ Cardinality(messages)' = Cardinality(messages) + 1
         /\ Cardinality(messages)' = NextSeq
<1> DEFINE n == Cardinality(messages)
           new == [seq |-> NextSeq, role |-> role, run |-> r]
<1>1. n \in Nat /\ NextSeq = n + 1
  BY NextSeqIsFresh
<1>2. new \in Row /\ new.seq = n + 1
  BY <1>1 DEF Row
<1>3. new \notin messages
  <2> SUFFICES ASSUME new \in messages PROVE FALSE
    OBVIOUS
  <2>1. n + 1 \in {m.seq : m \in messages}
    BY <1>2
  <2> QED BY <1>1, <2>1 DEF Numbered
<1>4. IsFiniteSet(messages') /\ Cardinality(messages') = n + 1
  BY <1>3, FS_AddElement DEF Numbered
<1>5. {m.seq : m \in messages'} = {m.seq : m \in messages} \cup {n + 1}
  BY <1>2
<1>6. {m.seq : m \in messages'} = 1 .. n + 1
  BY <1>1, <1>5 DEF Numbered
<1> QED BY <1>1, <1>2, <1>4, <1>6 DEF Numbered, TypeOK, TurnsTypeOK

(* The rows of each run and role after a row was appended.                 *)
LEMMA AppendedRowsOf ==
  ASSUME NEW r \in Requests, NEW role,
         messages' = messages \cup {[seq |-> NextSeq, role |-> role, run |-> r]}
  PROVE  /\ RowsOf(r, role)' = RowsOf(r, role) \cup {[seq |-> NextSeq, role |-> role, run |-> r]}
         /\ \A q \in Requests, other \in {"user", "assistant"} :
               <<q, other>> # <<r, role>> => RowsOf(q, other)' = RowsOf(q, other)
  BY DEF RowsOf

LEMMA QuietRowsOf ==
  ASSUME messages' = messages
  PROVE  \A q \in Requests, role \in {"user", "assistant"} : RowsOf(q, role)' = RowsOf(q, role)
  BY DEF RowsOf

-----------------------------------------------------------------------------
LEMMA InitIInv == Init => IInv
<1> SUFFICES ASSUME Init PROVE IInv
  OBVIOUS
<1> USE DEF Init, SessionInit, TurnsInit, WorkerInit
<1>1. TypeOK
  <2>1. SessionTypeOK /\ WorkerTypeOK
    BY DEF SessionTypeOK, SessionStates, WorkerTypeOK
  <2>2. calls \in [Requests -> 0 .. MaxCalls]
    BY TurnsAssumption
  <2>3. reply \in [Requests -> [what : Outcomes, run : Requests \cup {NoOne}]]
    BY DEF Outcomes
  <2> QED BY <2>1, <2>2, <2>3 DEF TypeOK, TurnsTypeOK
<1>2. HandlersInv /\ OneRunningTurn
  BY DEF HandlersInv, HandlerInv, OneRunningTurn, Running
<1>3. TranscriptInv
  <2>1. Numbered
    BY FS_EmptySet DEF Numbered
  <2> QED BY <2>1 DEF TranscriptInv, RowsInv, RowsOf, QuestionIsLast, Running,
                      AnswersFollow, ToolsFinished
<1>4. ClaimedOnce /\ RepliesDurable
  BY TurnsAssumption DEF ClaimedOnce, RepliesDurable
<1>5. WorkerInv
  BY DEF WorkerInv, Live
<1> QED BY <1>1, <1>2, <1>3, <1>4, <1>5 DEF IInv

Places == {"idle", "arrived", "locked", "graph", "write", "writing",
           "tool", "complete", "fail", "ended"}

LEMMA GotoTyped ==
  ASSUME TypeOK, NEW r \in Requests, NEW label \in Places, Goto(r, label)
  PROVE  pc' \in [Requests -> Places] /\ reply' = reply
  BY DEF TypeOK, TurnsTypeOK, Goto, Places

LEMMA TellTyped ==
  ASSUME TypeOK, NEW r \in Requests, NEW what \in Outcomes, NEW q \in Requests \cup {NoOne},
         Tell(r, what, q)
  PROVE  /\ pc' \in [Requests -> Places]
         /\ reply' \in [Requests -> [what : Outcomes, run : Requests \cup {NoOne}]]
  BY DEF TypeOK, TurnsTypeOK, Tell, Places

(* Types are kept.  The writes that a handler stands before tell its next  *)
(* label, and the numbering gives the type of an appended row.             *)
LEMMA HandlerTypeKept ==
  ASSUME IInv, NEW r \in Requests, HandlerAction(r)
  PROVE  TurnsTypeOK'
<1>1. TypeOK /\ TurnsTypeOK /\ Numbered /\ HandlerInv(r)
  BY DEF IInv, TypeOK, TranscriptInv, HandlersInv
<1>2. turnOf' \in [VoiceRequests -> Turns]
  BY <1>1, HandlerEffect DEF TurnsTypeOK
<1>3. messages' \subseteq Row
  BY <1>1, HandlerEffect, AppendedRow DEF TurnsTypeOK, Quiet, Started, Finished, Dropped
<1>4. run' \in [Requests -> {"none", "running", "completed", "failed"}]
  BY <1>1, HandlerEffect
  DEF TurnsTypeOK, Quiet, Started, Finished, Dropped, Recovered, Running
<1>5. CASE Arrive(r) \/ LockConversation(r) \/ RefuseProvenance(r) \/ RejectBusy(r)
           \/ AbortStart(r) \/ LockRun(r) \/ GraphFails(r) \/ Answer(r) \/ Crash(r)
  BY <1>1, <1>2, <1>5, GotoTyped, TellTyped
  DEF TurnsTypeOK, Places, Arrive, LockConversation, RefuseProvenance, RejectBusy, AbortStart,
      LockRun, GraphFails, Answer, Crash, Outcomes
<1>6. CASE Replay(r)
  BY <1>1, <1>2, <1>6, TellTyped, TurnsAssumption DEF TurnsTypeOK, Places, Replay, Claims, Outcomes
<1> USE DEF TurnsTypeOK, Goto, Tell, Outcomes, Kinds
<1>7. CASE StartRun(r)
  BY <1>1, <1>2, <1>3, <1>4, <1>7 DEF StartRun
<1>8. CASE Write(r)
  <2>1. want[r] \in {"call", "begin", "finish", "cancelled"}
    BY <1>1, <1>8 DEF Write, HandlerInv
  <2>2. pc' \in [Requests -> {"idle", "arrived", "locked", "graph", "write", "writing",
                              "tool", "complete", "fail", "ended"}]
    BY <1>1, <1>8, <2>1 DEF Write, After
  <2>3. calls' \in [Requests -> 0 .. MaxCalls]
    <3>1. want[r] = "call" => calls[r] + 1 \in 0 .. MaxCalls
      BY <1>1, <1>8, TurnsAssumption DEF Write, HandlerInv
    <3> QED BY <1>1, <1>8, <3>1 DEF Write
  <2>4. tool' \in [Requests -> {"none", "proposed", "finished"}]
    BY <1>1, <1>8, <2>1 DEF Write, Invocation
  <2> QED BY <1>1, <1>2, <1>8, <2>2, <2>3, <2>4 DEF Write
<1>9. CASE AbortWrite(r) \/ Deadline(r) \/ \E kind \in Kinds : BeginWrite(r, kind)
  BY <1>1, <1>2, <1>9 DEF AbortWrite, Deadline, BeginWrite
<1>10. CASE Complete(r)
  BY <1>1, <1>2, <1>3, <1>4, <1>10 DEF Complete, Rejuvenate
<1>11. CASE Fail(r)
  BY <1>1, <1>2, <1>4, <1>11 DEF Fail, Rejuvenate
<1>12. CASE GrowStale(r)
  BY <1>1, <1>2, <1>12 DEF GrowStale
<1> QED BY <1>5, <1>6, <1>7, <1>8, <1>9, <1>10, <1>11, <1>12
    DEF HandlerAction, RequestArrives, TurnStep, DatabaseStep

-----------------------------------------------------------------------------
(* What each durable step does to the status of the runs.                  *)
LEMMA RunEffect ==
  ASSUME TypeOK, NEW r \in Requests, HandlerAction(r)
  PROVE  /\ Started(r) =>
              /\ run'[r] = "running"
              /\ \A q \in Requests \ {r} :
                    run'[q] = (IF run[q] = "running" THEN "failed" ELSE run[q])
         /\ Finished(r) =>
              /\ run'[r] = "completed" /\ \A q \in Requests \ {r} : run'[q] = run[q]
         /\ Dropped(r) =>
              /\ run'[r] = "failed" /\ \A q \in Requests \ {r} : run'[q] = run[q]
  BY DEF TypeOK, TurnsTypeOK, Started, Finished, Dropped, Recovered, Running

(* A handler's own place, as its step leaves it.                           *)
LEMMA MoverKept ==
  ASSUME IInv, NEW r \in Requests, HandlerAction(r)
  PROVE  HandlerInv(r)'
<1>1. TypeOK /\ TurnsTypeOK /\ HandlerInv(r)
  BY DEF IInv, TypeOK, HandlersInv
<1> USE DEF HandlerInv
<1>2. CASE Arrive(r) \/ LockConversation(r) \/ RefuseProvenance(r) \/ RejectBusy(r)
           \/ AbortStart(r) \/ GraphFails(r) \/ Answer(r) \/ Crash(r)
  BY <1>1, <1>2, GotoEffect, TellEffect
  DEF Arrive, LockConversation, RefuseProvenance, RejectBusy, AbortStart,
      GraphFails, Answer, Crash
<1>3. CASE Replay(r)
  BY <1>1, <1>3, TellEffect DEF Replay
<1>4. CASE StartRun(r)
  BY <1>1, <1>4, GotoEffect DEF StartRun, NewTurn
<1>5. CASE LockRun(r)
  BY <1>1, <1>5, GotoEffect DEF LockRun
<1>6. CASE Write(r)
  <2>1. ASSUME NEW label \in After(want[r]), Goto(r, label),
               calls' = [calls EXCEPT ![r] = IF want[r] = "call" THEN @ + 1 ELSE @],
               tool' = [tool EXCEPT ![r] = Invocation(want[r], @)]
        PROVE  HandlerInv(r)'
    <3>1. want[r] \in {"call", "begin", "finish", "cancelled"} /\ pc[r] = "writing"
      BY <1>1, <1>6 DEF Write, TurnsTypeOK, Kinds
    <3>2. tool'[r] = Invocation(want[r], tool[r]) /\ pc'[r] = label
      BY <1>1, <2>1, GotoEffect DEF TurnsTypeOK
    <3>3. label \in {"graph", "tool", "fail"}
      BY <2>1, <3>1 DEF After
    <3>4. label = "graph" => tool'[r] # "proposed"
      BY <1>1, <2>1, <3>1, <3>2 DEF After, Invocation
    <3> QED BY <3>2, <3>3, <3>4
  <2>2. CASE Goto(r, "fail")
    BY <1>1, <2>2, GotoEffect
  <2> QED BY <1>6, <2>1, <2>2 DEF Write
<1>7. CASE AbortWrite(r)
  BY <1>1, <1>7, GotoEffect DEF AbortWrite
<1>8. ASSUME NEW kind \in Kinds, BeginWrite(r, kind)
      PROVE  HandlerInv(r)'
  <2>1. pc'[r] = "write" /\ want'[r] = kind /\ tool' = tool /\ calls' = calls
    BY <1>1, <1>8, GotoEffect DEF BeginWrite, TurnsTypeOK
  <2> QED BY <1>1, <1>8, <2>1 DEF BeginWrite, Kinds
<1>9. CASE Deadline(r)
  <2>1. tool' = tool /\ calls' = calls
    BY <1>9 DEF Deadline
  <2>2. (pc'[r] = "write" /\ want'[r] = "cancelled") \/ pc'[r] = "fail"
    BY <1>1, <1>9, GotoEffect DEF Deadline, TurnsTypeOK
  <2> QED BY <2>1, <2>2
<1>10. CASE Complete(r) \/ Fail(r)
  BY <1>1, <1>10, GotoEffect, TellEffect DEF Complete, Fail
<1>11. CASE GrowStale(r)
  BY <1>1, <1>11 DEF GrowStale
<1> QED BY <1>2, <1>3, <1>4, <1>5, <1>6, <1>7, <1>8, <1>9, <1>10, <1>11
    DEF HandlerAction, RequestArrives, TurnStep, DatabaseStep

LEMMA HandlersKept ==
  ASSUME IInv, NEW r \in Requests, HandlerAction(r)
  PROVE  HandlersInv'
<1>1. TypeOK /\ HandlersInv
  BY DEF IInv
<1>2. ASSUME NEW other \in Requests \ {r} PROVE HandlerInv(other)'
  <2>1. run[other] = "none" => run'[other] = "none"
    BY <1>1, HandlerEffect, RunEffect DEF Quiet
  <2>2. OthersKept(r) /\ HandlerInv(other)
    BY <1>1, HandlerEffect DEF HandlersInv
  <2> QED BY <2>1, <2>2 DEF HandlerInv, OthersKept
<1> QED BY <1>2, MoverKept DEF HandlersInv

(* A start fails every run that it finds running.                          *)
LEMMA OneRunningKept ==
  ASSUME IInv, NEW r \in Requests, HandlerAction(r)
  PROVE  OneRunningTurn'
  BY HandlerEffect, RunEffect DEF IInv, OneRunningTurn, Running, Quiet

-----------------------------------------------------------------------------
(* The transcript under each kind of durable step.                         *)
LEMMA StartKeepsTranscript ==
  ASSUME IInv, NEW r \in Requests, HandlerAction(r), Started(r)
  PROVE  TranscriptInv'
<1> DEFINE new == [seq |-> NextSeq, role |-> "user", run |-> r]
<1>1. TypeOK /\ RowsInv /\ Numbered /\ AnswersFollow /\ ToolsFinished /\ run[r] = "none"
  BY DEF IInv, TranscriptInv, HandlersInv, HandlerInv, Started, NewTurn
<1>2. messages' = messages \cup {new} /\ tool' = tool
  BY DEF Started
<1>3. /\ run'[r] = "running"
      /\ \A q \in Requests \ {r} : run'[q] = (IF run[q] = "running" THEN "failed" ELSE run[q])
  BY <1>1, RunEffect
<1>4. /\ RowsOf(r, "user")' = RowsOf(r, "user") \cup {new}
      /\ \A q \in Requests, role \in {"user", "assistant"} :
            <<q, role>> # <<r, "user">> => RowsOf(q, role)' = RowsOf(q, role)
  BY <1>2, AppendedRowsOf
<1>5. Numbered' /\ Cardinality(messages)' = NextSeq
  BY <1>1, <1>2, AppendedRow
<1>6. RowsInv'
  <2>1. RowsOf(r, "user")' = {new} /\ new \in messages'
    BY <1>1, <1>2, <1>4 DEF RowsInv
  <2> QED BY <1>1, <1>2, <1>3, <1>4, <2>1 DEF RowsInv
<1>7. QuestionIsLast'
  <2>1. \A q \in Running' : q = r
    BY <1>3 DEF Running
  <2>2. new \in RowsOf(r, "user")' /\ new.seq = Cardinality(messages)'
    BY <1>4, <1>5
  <2> QED BY <2>1, <2>2 DEF QuestionIsLast
<1>8. AnswersFollow'
  <2> SUFFICES ASSUME NEW a \in messages', a.role = "assistant"
               PROVE  \E u \in RowsOf(a.run, "user")' : a.seq = u.seq + 1
    BY DEF AnswersFollow
  <2>1. a \in messages /\ a.run \in Requests
    BY <1>1, <1>2 DEF TypeOK, TurnsTypeOK, Row
  <2>2. RowsOf(a.run, "user") \subseteq RowsOf(a.run, "user")'
    BY <1>4, <2>1
  <2> QED BY <1>1, <2>1, <2>2 DEF AnswersFollow
<1>9. ToolsFinished'
  BY <1>1, <1>2, <1>3 DEF ToolsFinished
<1> QED BY <1>5, <1>6, <1>7, <1>8, <1>9 DEF TranscriptInv

LEMMA FinishKeepsTranscript ==
  ASSUME IInv, NEW r \in Requests, HandlerAction(r), Finished(r)
  PROVE  TranscriptInv'
<1> DEFINE new == [seq |-> NextSeq, role |-> "assistant", run |-> r]
<1>1. TypeOK /\ TranscriptInv /\ HandlerInv(r) /\ OneRunningTurn /\ run[r] = "running"
  BY DEF IInv, HandlersInv, Finished
<1>2. messages' = messages \cup {new} /\ tool' = tool
  BY DEF Finished
<1>3. run'[r] = "completed" /\ \A q \in Requests \ {r} : run'[q] = run[q]
  BY <1>1, RunEffect
<1>4. /\ RowsOf(r, "assistant")' = RowsOf(r, "assistant") \cup {new}
      /\ \A q \in Requests, role \in {"user", "assistant"} :
            <<q, role>> # <<r, "assistant">> => RowsOf(q, role)' = RowsOf(q, role)
  BY <1>2, AppendedRowsOf
<1>5. Numbered'
  BY <1>1, <1>2, AppendedRow DEF TranscriptInv
<1>6. RowsInv'
  <2>1. RowsOf(r, "assistant")' = {new} /\ new \in messages'
    BY <1>1, <1>2, <1>4 DEF TranscriptInv, RowsInv
  <2> QED BY <1>1, <1>2, <1>3, <1>4, <2>1 DEF TranscriptInv, RowsInv
<1>7. QuestionIsLast'
  BY <1>1, <1>3 DEF QuestionIsLast, OneRunningTurn, Running
<1>8. AnswersFollow'
  <2> SUFFICES ASSUME NEW a \in messages', a.role = "assistant"
               PROVE  \E u \in RowsOf(a.run, "user")' : a.seq = u.seq + 1
    BY DEF AnswersFollow
  <2>1. a.run \in Requests
    BY <1>1, <1>2 DEF TypeOK, TurnsTypeOK, Row
  <2>2. RowsOf(a.run, "user")' = RowsOf(a.run, "user")
    BY <1>4, <2>1
  <2>3. CASE a \in messages
    BY <1>1, <2>2, <2>3 DEF TranscriptInv, AnswersFollow
  <2>4. CASE a = new
    <3>1. \E u \in RowsOf(r, "user") : u.seq = Cardinality(messages)
      BY <1>1 DEF TranscriptInv, QuestionIsLast, Running
    <3>2. NextSeq = Cardinality(messages) + 1
      BY <1>1, NextSeqIsFresh DEF TranscriptInv
    <3> QED BY <2>2, <2>4, <3>1, <3>2
  <2> QED BY <1>2, <2>3, <2>4
<1>9. ToolsFinished'
  BY <1>1, <1>2, <1>3 DEF TranscriptInv, ToolsFinished, HandlerInv, Finished
<1> QED BY <1>5, <1>6, <1>7, <1>8, <1>9 DEF TranscriptInv

LEMMA QuietKeepsTranscript ==
  ASSUME IInv, NEW r \in Requests, HandlerAction(r), Quiet \/ Dropped(r)
  PROVE  TranscriptInv'
<1>1. TypeOK /\ TranscriptInv /\ messages' = messages
  BY DEF IInv, Quiet, Dropped
<1>2. \A q \in Requests :
         run'[q] = run[q] \/ (run[q] = "running" /\ run'[q] = "failed")
  BY <1>1, RunEffect DEF Quiet, Dropped
<1>3. \A q \in Requests, role \in {"user", "assistant"} : RowsOf(q, role)' = RowsOf(q, role)
  BY <1>1, QuietRowsOf
<1>4. RowsInv'
  BY <1>1, <1>2, <1>3 DEF TranscriptInv, RowsInv
<1>5. Numbered'
  BY <1>1 DEF TranscriptInv, Numbered
<1>6. QuestionIsLast'
  <2>1. Running' \subseteq Running
    BY <1>2 DEF Running
  <2> QED BY <1>1, <1>3, <2>1 DEF TranscriptInv, QuestionIsLast, Running
<1>7. AnswersFollow'
  <2>1. \A a \in messages : a.run \in Requests
    BY <1>1 DEF TypeOK, TurnsTypeOK, Row
  <2> QED BY <1>1, <1>3, <2>1 DEF TranscriptInv, AnswersFollow
<1>8. ToolsFinished'
  <2>1. OthersKept(r) /\ Recorded(r)
    BY <1>1, HandlerEffect
  <2> QED BY <1>1, <1>2, <2>1 DEF TranscriptInv, ToolsFinished, OthersKept, Recorded
<1> QED BY <1>4, <1>5, <1>6, <1>7, <1>8 DEF TranscriptInv

LEMMA TranscriptKept ==
  ASSUME IInv, NEW r \in Requests, HandlerAction(r)
  PROVE  TranscriptInv'
  BY HandlerEffect, StartKeepsTranscript, FinishKeepsTranscript, QuietKeepsTranscript DEF IInv

-----------------------------------------------------------------------------
(* Claims are never given up, and a completed run stays completed.         *)
LEMMA ClaimsGrow ==
  ASSUME IInv, NEW r \in Requests, HandlerAction(r)
  PROVE  /\ \A q \in Requests : run[q] = "completed" => run'[q] = "completed"
         /\ \A q \in Requests : Claims(q) \subseteq Claims(q)'
         /\ \A q \in Requests \ {r} : run'[q] # "none" => run[q] # "none"
<1>1. TypeOK /\ HandlerInv(r) /\ turnOf' = turnOf
  BY HandlerEffect DEF IInv, HandlersInv
<1>2. Started(r) => run[r] = "none"
  BY <1>1 DEF Started, NewTurn, HandlerInv
<1>3. \A q \in Requests :
         /\ run[q] = "completed" => run'[q] = "completed"
         /\ run[q] # "none" => run'[q] # "none"
         /\ q # r => (run'[q] # "none" => run[q] # "none")
  BY <1>1, <1>2, HandlerEffect, RunEffect DEF Quiet, Finished, Dropped
<1> QED BY <1>1, <1>3, TurnsAssumption DEF Claims

LEMMA ClaimedOnceKept ==
  ASSUME IInv, NEW r \in Requests, HandlerAction(r)
  PROVE  ClaimedOnce'
<1>1. TypeOK /\ ClaimedOnce /\ turnOf' = turnOf
  BY HandlerEffect DEF IInv
<1>2. CASE Started(r)
  <2>1. Claims(r) = {} /\ \A q \in Requests \ {r} : run'[q] # "none" => run[q] # "none"
    BY <1>2, ClaimsGrow DEF Started, NewTurn
  <2> QED BY <1>1, <2>1, TurnsAssumption DEF ClaimedOnce, Claims
<1>3. CASE ~Started(r)
  <2>1. \A q \in Requests : run'[q] # "none" => run[q] # "none"
    BY <1>1, <1>3, HandlerEffect, RunEffect DEF Quiet, Finished, Dropped
  <2> QED BY <1>1, <2>1, TurnsAssumption DEF ClaimedOnce
<1> QED BY <1>2, <1>3

AnswerDurable(r) ==
    /\ run[reply[r].run] = "completed"
    /\ reply[r].run \in Claims(r) \cup ({r} \ VoiceRequests)

(* Only a replay and a completion answer, each from a completed run.       *)
LEMMA AnswerEffect ==
  ASSUME IInv, NEW r \in Requests, HandlerAction(r)
  PROVE  reply'[r] = reply[r] \/ reply'[r].what # "answered" \/ AnswerDurable(r)'
<1>1. TypeOK /\ turnOf' = turnOf
  BY HandlerEffect DEF IInv
<1>2. CASE Arrive(r) \/ LockConversation(r) \/ RefuseProvenance(r) \/ RejectBusy(r)
           \/ StartRun(r) \/ AbortStart(r) \/ LockRun(r) \/ Write(r) \/ AbortWrite(r)
           \/ Deadline(r) \/ (\E kind \in Kinds : BeginWrite(r, kind))
           \/ GraphFails(r) \/ Answer(r) \/ Fail(r) \/ Crash(r) \/ GrowStale(r)
  BY <1>1, <1>2, GotoEffect, TellEffect
  DEF Arrive, LockConversation, RefuseProvenance, RejectBusy, StartRun, AbortStart,
      LockRun, Write, AbortWrite, Deadline, BeginWrite, GraphFails, Answer, Fail, Crash,
      GrowStale
<1>3. CASE Replay(r)
  <2>1. run' = run /\ Claims(r)' = Claims(r)
    BY <1>1, <1>3 DEF Replay, Claims
  <2>2. PICK q \in Claims(r) :
           \/ run[q] = "running" /\ Tell(r, "in_progress", NoOne)
           \/ run[q] = "failed" /\ Tell(r, "failed_before", NoOne)
           \/ run[q] = "completed" /\ Tell(r, "answered", q)
    BY <1>3 DEF Replay
  <2> QED BY <1>1, <2>1, <2>2, TellEffect DEF AnswerDurable
<1>4. CASE Complete(r)
  <2>1. CASE Tell(r, "answered", r) /\ run' = [run EXCEPT ![r] = "completed"]
    <3>1. run'[r] = "completed"
      BY <1>1, <2>1 DEF TypeOK, TurnsTypeOK
    <3>2. r \in VoiceRequests => r \in Claims(r)'
      BY <1>1, <3>1 DEF Claims
    <3> QED BY <1>1, <2>1, <3>1, <3>2, TellEffect DEF AnswerDurable
  <2>2. CASE Goto(r, "fail")
    BY <1>1, <2>2, GotoEffect
  <2> QED BY <1>4, <2>1, <2>2 DEF Complete
<1> QED BY <1>2, <1>3, <1>4 DEF HandlerAction, RequestArrives, TurnStep, DatabaseStep

LEMMA RepliesKept ==
  ASSUME IInv, NEW r \in Requests, HandlerAction(r)
  PROVE  RepliesDurable'
<1>1. /\ TypeOK /\ OthersKept(r)
      /\ \A q \in Requests : reply[q].what = "answered" => AnswerDurable(q)
  BY HandlerEffect DEF IInv, RepliesDurable, AnswerDurable
<1>2. ASSUME NEW q \in Requests, reply'[q].what = "answered"
      PROVE  AnswerDurable(q)'
  <2>1. CASE reply'[q] = reply[q]
    <3>1. AnswerDurable(q) /\ reply[q].run \in Requests
      BY <1>1, <1>2, <2>1, TurnsAssumption DEF AnswerDurable, Claims
    <3> QED BY <2>1, <3>1, ClaimsGrow DEF AnswerDurable
  <2>2. CASE reply'[q] # reply[q]
    BY <1>1, <1>2, <2>2, AnswerEffect DEF OthersKept
  <2> QED BY <2>1, <2>2
<1> QED BY <1>2 DEF RepliesDurable, AnswerDurable

-----------------------------------------------------------------------------
(* The worker: what it submitted, speaks and plays.                        *)
Backed(d) == \E q \in Claims(d) : run[q] = "completed"

WorkerStep == (\E d \in VoiceRequests : DeliveryStep(d)) \/ CancelPlayout \/ Restart

LEMMA HandlerKeepsWorker ==
  ASSUME IInv, NEW r \in Requests, HandlerAction(r), UNCHANGED workerVars
  PROVE  WorkerInv'
<1>1. WorkerInv /\ turnOf' = turnOf
  BY HandlerEffect DEF IInv
<1>2. Live' = Live
  BY DEF Live, workerVars
<1>3. \A d \in VoiceRequests : Backed(d) => Backed(d)'
  BY ClaimsGrow, TurnsAssumption DEF Backed, Claims
<1>4. audible \subseteq VoiceRequests
  BY DEF IInv, TypeOK, WorkerTypeOK
<1> QED BY <1>1, <1>2, <1>3, <1>4 DEF WorkerInv, Backed, workerVars

LEMMA WorkerTypeKept ==
  ASSUME TypeOK, WorkerStep
  PROVE  WorkerTypeOK'
<1> USE DEF TypeOK, WorkerTypeOK
<1>1. ASSUME NEW d \in VoiceRequests, DeliveryStep(d) PROVE WorkerTypeOK'
  BY <1>1 DEF DeliveryStep, HearFinal, ResultReturns, SubmissionLost, SpeakFails, GiveUp,
              Speak, PlayoutCompletes, TurnsTypeOK
<1>2. CASE CancelPlayout
  BY <1>2 DEF CancelPlayout
<1>3. CASE Restart
  BY <1>3 DEF Restart
<1> QED BY <1>1, <1>2, <1>3 DEF WorkerStep

LEMMA WorkerKept ==
  ASSUME IInv, WorkerStep, UNCHANGED <<session, turnVars>>
  PROVE  WorkerInv'
<1>1. /\ TypeOK /\ WorkerTypeOK /\ WorkerInv /\ RepliesDurable
      /\ audible \subseteq VoiceRequests
  BY DEF IInv, TypeOK, WorkerTypeOK
<1>2. turnOf' = turnOf /\ \A d \in VoiceRequests : Backed(d)' = Backed(d)
  BY DEF turnVars, Backed, Claims
<1>3. ASSUME NEW d \in VoiceRequests, DeliveryStep(d) PROVE WorkerInv'
  <2>1. CASE HearFinal(d)
    <3>1. CASE turnOf[d] \in submitted
      <4>1. Live' = Live /\ submitted' = submitted /\ audible' = audible
            /\ \A e \in VoiceRequests : task'[e] = "speaking" => task[e] = "speaking"
        BY <1>1, <2>1, <3>1 DEF HearFinal, Live, WorkerTypeOK
      <4> QED BY <1>1, <1>2, <4>1 DEF WorkerInv, Backed
    <3>2. CASE turnOf[d] \notin submitted
      <4>1. /\ Live' = Live \cup {d} /\ submitted' = submitted \cup {turnOf[d]}
            /\ audible' = audible
            /\ \A e \in VoiceRequests : task'[e] = "speaking" => task[e] = "speaking"
        BY <1>1, <2>1, <3>2 DEF HearFinal, Live, WorkerTypeOK
      <4> QED BY <1>1, <1>2, <3>2, <4>1 DEF WorkerInv, Backed
    <3> QED BY <3>1, <3>2
  <2>2. CASE d \in Live /\ GiveUp(d)
    <3>1. /\ Live' = Live \ {d} /\ submitted' = submitted \ {turnOf[d]}
          /\ audible' = audible
          /\ \A e \in VoiceRequests : task'[e] = "speaking" => task[e] = "speaking"
      BY <1>1, <2>2 DEF GiveUp, Live, WorkerTypeOK
    <3> QED BY <1>1, <1>2, <2>2, <3>1 DEF WorkerInv, Backed
  <2>3. CASE ResultReturns(d) /\ reply[d].what = "answered"
    <3>1. Backed(d)
      BY <1>1, <2>3, TurnsAssumption DEF RepliesDurable, Backed
    <3>2. /\ Live' = Live /\ submitted' = submitted /\ audible' = audible
          /\ \A e \in VoiceRequests \ {d} : task'[e] = "speaking" => task[e] = "speaking"
      BY <1>1, <2>3 DEF ResultReturns, Live, WorkerTypeOK
    <3> QED BY <1>1, <1>2, <3>1, <3>2 DEF WorkerInv, Backed
  <2>4. CASE Speak(d)
    <3>1. Backed(d)
      BY <1>1, <2>4 DEF Speak, WorkerInv, Backed
    <3>2. /\ Live' = Live /\ submitted' = submitted /\ audible' = audible \cup {d}
          /\ \A e \in VoiceRequests : task'[e] = "speaking" => task[e] = "speaking"
      BY <1>1, <2>4 DEF Speak, Live, WorkerTypeOK
    <3> QED BY <1>1, <1>2, <3>1, <3>2 DEF WorkerInv, Backed
  <2>5. CASE PlayoutCompletes(d)
    <3>1. Live' = Live /\ submitted' = submitted /\ audible' \subseteq audible /\ task' = task
      BY <1>1, <2>5 DEF PlayoutCompletes, Live
    <3> QED BY <1>1, <1>2, <3>1 DEF WorkerInv, Backed
  <2> QED BY <1>3, <2>1, <2>2, <2>3, <2>4, <2>5
      DEF DeliveryStep, ResultReturns, SubmissionLost, SpeakFails, Live
<1>4. CASE CancelPlayout
  <2>1. Live' = Live /\ submitted' = submitted /\ audible' \subseteq audible /\ task' = task
    BY <1>4 DEF CancelPlayout, Live
  <2> QED BY <1>1, <1>2, <2>1 DEF WorkerInv, Backed
<1>5. CASE Restart
  <2>1. Live' = {} /\ audible' = {} /\ \A e \in VoiceRequests : task'[e] # "speaking"
    BY <1>1, <1>5 DEF Restart, Live, WorkerTypeOK
  <2> QED BY <2>1 DEF WorkerInv
<1> QED BY <1>3, <1>4, <1>5 DEF WorkerStep

-----------------------------------------------------------------------------
(* The inductive invariant: one step per kind of actor.                    *)
LEMMA HandlerKeeps ==
  ASSUME IInv, NEW r \in Requests, HandlerAction(r), UNCHANGED <<session, workerVars>>
  PROVE  IInv'
<1>1. TypeOK'
  <2>1. SessionTypeOK' /\ WorkerTypeOK'
    BY DEF IInv, TypeOK, SessionTypeOK, WorkerTypeOK, workerVars
  <2> QED BY <2>1, HandlerTypeKept DEF TypeOK
<1> QED BY <1>1, HandlersKept, OneRunningKept, TranscriptKept, ClaimedOnceKept, RepliesKept,
           HandlerKeepsWorker DEF IInv

LEMMA TurnVarsKeep ==
  ASSUME IInv, UNCHANGED turnVars
  PROVE  /\ TurnsTypeOK' /\ HandlersInv' /\ OneRunningTurn' /\ TranscriptInv'
         /\ ClaimedOnce' /\ RepliesDurable'
<1> USE DEF turnVars
<1>1. TurnsTypeOK' /\ HandlersInv' /\ OneRunningTurn'
  BY DEF IInv, TypeOK, TurnsTypeOK, HandlersInv, HandlerInv, OneRunningTurn, Running
<1>2. TranscriptInv'
  BY DEF IInv, TranscriptInv, RowsInv, Numbered, QuestionIsLast, AnswersFollow,
         ToolsFinished, RowsOf, Running
<1>3. ClaimedOnce' /\ RepliesDurable'
  BY DEF IInv, ClaimedOnce, RepliesDurable, Claims
<1> QED BY <1>1, <1>2, <1>3

LEMMA StepKeeps == IInv /\ [Next]_vars => IInv'
<1> SUFFICES ASSUME IInv, [Next]_vars PROVE IInv'
  OBVIOUS
<1>1. ASSUME NEW r \in Requests, RequestArrives(r) \/ TurnStep(r),
             UNCHANGED <<session, workerVars>>
      PROVE  IInv'
  BY <1>1, HandlerKeeps DEF HandlerAction
<1>2. CASE SessionNext /\ UNCHANGED <<turnVars, workerVars>>
  <2>1. SessionTypeOK'
    BY <1>2 DEF IInv, TypeOK, SessionTypeOK, SessionStates, SessionNext, MintFails,
                MarkConnecting, MarkConnected, EndSession, Become, Successors
  <2>2. WorkerTypeOK' /\ WorkerInv'
    BY <1>2 DEF IInv, TypeOK, WorkerTypeOK, WorkerInv, Live, Claims, workerVars, turnVars
  <2> QED BY <1>2, <2>1, <2>2, TurnVarsKeep DEF IInv, TypeOK
<1>3. CASE WorkerStep /\ UNCHANGED <<session, turnVars>>
  <2>1. SessionTypeOK' /\ WorkerTypeOK'
    BY <1>3, WorkerTypeKept DEF IInv, TypeOK, SessionTypeOK
  <2> QED BY <1>3, <2>1, TurnVarsKeep, WorkerKept DEF IInv, TypeOK
<1>4. CASE UNCHANGED vars
  <2>1. SessionTypeOK' /\ WorkerTypeOK' /\ WorkerInv'
    BY <1>4 DEF IInv, TypeOK, SessionTypeOK, WorkerTypeOK, WorkerInv, Live, Claims,
                vars, workerVars, turnVars
  <2> QED BY <1>4, <2>1, TurnVarsKeep DEF IInv, TypeOK, vars
<1> QED BY <1>1, <1>2, <1>3, <1>4 DEF Next, WorkerStep

(* The invariant holds of every reachable state.                           *)
THEOREM InvariantHolds == Spec => []IInv
  BY InitIInv, StepKeeps, PTL DEF Spec

(* Every variable of the composition keeps its type.                       *)
THEOREM TypesHold == Spec => []TypeOK
<1>1. IInv => TypeOK
  BY DEF IInv
<1> QED BY <1>1, InvariantHolds, PTL

(* At most one turn of a conversation runs, however many requests start,   *)
(* recover or complete turns, and wherever their handlers stop.            *)
THEOREM AtMostOneTurnRuns == Spec => []OneRunningTurn
<1>1. IInv => OneRunningTurn
  BY DEF IInv
<1> QED BY <1>1, InvariantHolds, PTL

(* The rows of each run, counted.                                          *)
LEMMA InvKeepsTranscript == IInv => TranscriptIntact
<1> SUFFICES ASSUME IInv PROVE TranscriptIntact
  OBVIOUS
<1>1. TypeOK /\ RowsInv /\ Numbered /\ AnswersFollow /\ ToolsFinished
  BY DEF IInv, TranscriptInv
<1>2. ASSUME NEW q \in Requests
      PROVE  /\ Cardinality(RowsOf(q, "user")) = (IF run[q] = "none" THEN 0 ELSE 1)
             /\ Cardinality(RowsOf(q, "assistant")) = (IF run[q] = "completed" THEN 1 ELSE 0)
  BY <1>1, FS_EmptySet, FS_Singleton DEF RowsInv
<1> QED BY <1>1, <1>2 DEF TranscriptIntact, Numbered, AnswersFollow, ToolsFinished

(* The transcript is gapless, with one question per run and an answer that *)
(* directly follows it for the completed ones.                             *)
THEOREM TranscriptHolds == Spec => []TranscriptIntact
  BY InvariantHolds, InvKeepsTranscript, PTL

(* A set whose elements are all equal has one at most.                     *)
LEMMA InvAnswersOnce == IInv => VoiceTurnOnce
<1> SUFFICES ASSUME IInv PROVE VoiceTurnOnce
  OBVIOUS
<1>1. ASSUME NEW q \in Requests PROVE Cardinality(Claims(q)) <= 1
  <2>1. \A a, b \in Claims(q) : a = b
    BY DEF IInv, ClaimedOnce, Claims
  <2>2. Claims(q) = {} \/ \E a : Claims(q) = {a}
    BY <2>1
  <2>3. Cardinality(Claims(q)) \in {0, 1}
    BY <2>2, FS_EmptySet, FS_Singleton
  <2> QED BY <2>3
<1> QED BY <1>1 DEF IInv, RepliesDurable, VoiceTurnOnce

(* A voice turn is run once, and every answer told for it is its durable   *)
(* one, however often its transcript is submitted.                         *)
THEOREM VoiceTurnsRunOnce == Spec => []VoiceTurnOnce
  BY InvariantHolds, InvAnswersOnce, PTL

(* A backed delivery has a completed run, whose answer is in the           *)
(* transcript.                                                             *)
LEMMA InvHearsOnce == IInv => HeardOnceAndDurable
<1> SUFFICES ASSUME IInv PROVE HeardOnceAndDurable
  OBVIOUS
<1>1. \A q \in Requests : run[q] = "completed" => RowsOf(q, "assistant") # {}
  BY DEF IInv, TranscriptInv, RowsInv
<1>2. \A d \in VoiceRequests : Claims(d) \subseteq Requests
  BY TurnsAssumption DEF Claims
<1>3. audible \subseteq VoiceRequests
  BY DEF IInv, TypeOK, WorkerTypeOK
<1> QED BY <1>1, <1>2, <1>3 DEF IInv, WorkerInv, Live, HeardOnceAndDurable

(* What the worker speaks or plays is a durable answer of that turn, and   *)
(* no turn is under way twice between two restarts.                        *)
THEOREM TurnsAreHeardOnce == Spec => []HeardOnceAndDurable
  BY InvariantHolds, InvHearsOnce, PTL

(* A step of any handler spares the runs that have ended.                  *)
LEMMA StepFreezes ==
  ASSUME IInv, [Next]_vars
  PROVE  \/ UNCHANGED turnVars
         \/ /\ messages \subseteq messages'
            /\ \A q \in Requests : run[q] \in {"completed", "failed"} =>
                  /\ run'[q] = run[q] /\ calls'[q] = calls[q] /\ tool'[q] = tool[q]
                  /\ RowsOf(q, "assistant")' = RowsOf(q, "assistant")
<1>1. CASE UNCHANGED turnVars
  BY <1>1
<1>2. ASSUME NEW r \in Requests, HandlerAction(r)
      PROVE  /\ messages \subseteq messages'
             /\ \A q \in Requests : run[q] \in {"completed", "failed"} =>
                   /\ run'[q] = run[q] /\ calls'[q] = calls[q] /\ tool'[q] = tool[q]
                   /\ RowsOf(q, "assistant")' = RowsOf(q, "assistant")
  <2>1. /\ TypeOK /\ HandlerInv(r) /\ OthersKept(r) /\ Recorded(r)
        /\ Quiet \/ Started(r) \/ Finished(r) \/ Dropped(r)
    BY <1>2, HandlerEffect DEF IInv, HandlersInv
  <2>2. Started(r) => run[r] = "none"
    BY <2>1 DEF Started, NewTurn, HandlerInv
  <2>3. messages \subseteq messages'
    BY <2>1 DEF Quiet, Started, Finished, Dropped
  <2>4. ASSUME NEW q \in Requests, run[q] \in {"completed", "failed"}
        PROVE  /\ run'[q] = run[q] /\ calls'[q] = calls[q] /\ tool'[q] = tool[q]
               /\ RowsOf(q, "assistant")' = RowsOf(q, "assistant")
    <3>1. run'[q] = run[q] /\ (q = r => ~Started(r) /\ ~Finished(r))
      BY <1>2, <2>1, <2>2, <2>4, RunEffect DEF Quiet, Finished, Dropped
    <3>2. calls'[q] = calls[q] /\ tool'[q] = tool[q]
      BY <2>1, <2>4 DEF OthersKept, Recorded
    <3>3. RowsOf(q, "assistant")' = RowsOf(q, "assistant")
      <4>1. CASE messages' = messages
        BY <4>1, QuietRowsOf
      <4>2. CASE Started(r)
        BY <4>2, AppendedRowsOf DEF Started
      <4>3. CASE Finished(r)
        BY <3>1, <4>3, AppendedRowsOf DEF Finished
      <4> QED BY <2>1, <4>1, <4>2, <4>3 DEF Quiet, Dropped
    <3> QED BY <3>1, <3>2, <3>3
  <2> QED BY <2>3, <2>4
<1> QED BY <1>1, <1>2 DEF Next, HandlerAction, vars

(* No step adds to a run that has ended, nor changes or removes a message. *)
THEOREM EndedRunsStayFrozen == Spec => EndedRunsAreFrozen
<1>1. IInv /\ [Next]_vars =>
        [/\ messages \subseteq messages'
         /\ \A q \in Requests : run[q] \in {"completed", "failed"} =>
               /\ run'[q] = run[q] /\ calls'[q] = calls[q] /\ tool'[q] = tool[q]
               /\ RowsOf(q, "assistant")' = RowsOf(q, "assistant")]_turnVars
  BY StepFreezes
<1> QED BY <1>1, InvariantHolds, PTL DEF Spec, EndedRunsAreFrozen
=============================================================================
