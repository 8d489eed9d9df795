--------------------- MODULE CommerceIdempotencyProofs ---------------------
(***************************************************************************)
(* The theorems of CommerceIdempotency: for any number of requests under   *)
(* one key, and for any requests they may be.                              *)
(***************************************************************************)
EXTENDS CommerceIdempotency, TLAPS

-----------------------------------------------------------------------------
(* What a request and its open transaction know of each other.             *)
RequestInv(r) ==
    /\ pc[r] \in Inside <=> draft[r] # NoRecord
    /\ draft[r] # NoRecord =>
          /\ record = NoRecord
          /\ draft[r].fingerprint = fingerprint[r]
          /\ pc[r] \in {"complete", "commit"} => draft[r].result \in Results
          /\ pc[r] = "commit" => draft[r].status = "completed"
    /\ pc[r] = "read" => record # NoRecord
    /\ pc[r] # "ended" => answer[r] = "none"

RequestsInv == \A r \in Requests : RequestInv(r)

(* The row's primary key admits one inserter at a time.                    *)
OneInserter ==
    \A r, other \in Requests :
        draft[r] # NoRecord /\ draft[other] # NoRecord => r = other

IInv ==
    /\ TypeOK
    /\ RequestsInv
    /\ OneInserter
    /\ AnswersAreDurable
    /\ ReuseIsReal
    /\ RecordMeansDone

-----------------------------------------------------------------------------
(* How Goto, Respond and Close change their request's entry, and no other. *)
LEMMA GotoEffect ==
  ASSUME TypeOK, NEW r \in Requests, NEW label, Goto(r, label)
  PROVE  /\ pc'[r] = label
         /\ \A other \in Requests \ {r} : pc'[other] = pc[other]
         /\ answer' = answer
  BY DEF TypeOK, Goto

LEMMA RespondEffect ==
  ASSUME TypeOK, NEW r \in Requests, NEW what, Respond(r, what)
  PROVE  /\ pc'[r] = "ended" /\ answer'[r] = what
         /\ \A other \in Requests \ {r} :
               pc'[other] = pc[other] /\ answer'[other] = answer[other]
  BY DEF TypeOK, Respond

LEMMA CloseEffect ==
  ASSUME TypeOK, NEW r \in Requests, Close(r)
  PROVE  /\ draft'[r] = NoRecord
         /\ \A other \in Requests \ {r} : draft'[other] = draft[other]
  BY DEF TypeOK, Close

-----------------------------------------------------------------------------
LEMMA InitIInv == Init => IInv
  BY NoRecordAssumption
  DEF Init, IInv, TypeOK, RequestsInv, RequestInv, OneInserter, Inside, Results,
      AnswersAreDurable, ReuseIsReal, RecordMeansDone

(* Types are kept: one step per statement of the transaction.              *)
LEMMA TypeKept == IInv /\ [Next]_vars => TypeOK'
<1> SUFFICES ASSUME IInv, [Next]_vars PROVE TypeOK'
  OBVIOUS
<1> USE DEF TypeOK, Inside, Results
<1>1. CASE UNCHANGED vars
  BY <1>1 DEF IInv, vars
<1>2. ASSUME NEW r \in Requests, Arrive(r) PROVE TypeOK'
  BY <1>2 DEF IInv, Arrive, Goto
<1>3. ASSUME NEW r \in Requests, Insert(r) PROVE TypeOK'
  BY <1>3 DEF IInv, Insert, Goto, Record
<1>4. ASSUME NEW r \in Requests, Read(r) PROVE TypeOK'
  <2>1. record \in Record /\ record.result \in Results
    BY <1>4 DEF IInv, Read, RequestsInv, RequestInv, RecordMeansDone
  <2> QED BY <1>4, <2>1 DEF IInv, Read, Respond, Rollback, Close, Record
<1>5. ASSUME NEW r \in Requests, Operate(r) PROVE TypeOK'
  <2>1. draft[r] \in Record
    BY <1>5 DEF IInv, Operate, RequestsInv, RequestInv
  <2> QED BY <1>5, <2>1 DEF IInv, Operate, Goto, Record
<1>6. ASSUME NEW r \in Requests, Complete(r) PROVE TypeOK'
  <2>1. draft[r] \in Record
    BY <1>6 DEF IInv, Complete, RequestsInv, RequestInv
  <2> QED BY <1>6, <2>1 DEF IInv, Complete, Goto, Record
<1>7. ASSUME NEW r \in Requests, Commit(r) \/ CommitFails(r) PROVE TypeOK'
  <2>1. draft[r] \in Record /\ draft[r].result \in Results
    BY <1>7 DEF IInv, Commit, CommitFails, RequestsInv, RequestInv
  <2> QED BY <1>7, <2>1
      DEF IInv, Commit, CommitFails, Publish, Rollback, Close, Respond
<1>8. ASSUME NEW r \in Requests, Fail(r) PROVE TypeOK'
  BY <1>8 DEF IInv, Fail, Rollback, Close, Respond
<1> QED BY <1>1, <1>2, <1>3, <1>4, <1>5, <1>6, <1>7, <1>8 DEF Next, Proceed

(* The step of a request, as the other requests see it.                    *)
RecordStays == record' = record /\ effects' = effects

Published(r) ==
    /\ pc[r] = "commit"
    /\ record' = draft[r]
    /\ effects' = effects + (IF draft[r].result = "accepted" THEN 1 ELSE 0)
    /\ draft'[r] = NoRecord

LEMMA StepEffect ==
  ASSUME IInv, NEW r \in Requests, Arrive(r) \/ Proceed(r) \/ Fail(r)
  PROVE  /\ RecordStays \/ Published(r)
         /\ fingerprint' = fingerprint
         /\ \A other \in Requests \ {r} :
               /\ pc'[other] = pc[other] /\ answer'[other] = answer[other]
               /\ draft'[other] = draft[other]
<1>1. TypeOK
  BY DEF IInv
<1>2. CASE Arrive(r)
  BY <1>1, <1>2, GotoEffect DEF Arrive, RecordStays
<1>3. CASE Insert(r) \/ Operate(r) \/ Complete(r)
  <2>1. \A other \in Requests \ {r} : draft'[other] = draft[other]
    BY <1>1, <1>3 DEF TypeOK, Insert, Operate, Complete
  <2> QED BY <1>1, <1>3, <2>1, GotoEffect DEF Insert, Operate, Complete, RecordStays
<1>4. CASE Read(r) \/ Fail(r)
  BY <1>1, <1>4, RespondEffect, CloseEffect DEF Read, Fail, Rollback, RecordStays
<1>5. CASE Commit(r) \/ CommitFails(r)
  BY <1>1, <1>5, RespondEffect, CloseEffect
  DEF Commit, CommitFails, Publish, Published, Rollback, RecordStays
<1> QED BY <1>2, <1>3, <1>4, <1>5 DEF Proceed

(* The request that moves keeps its own part of the invariant.             *)
LEMMA MoverKept ==
  ASSUME IInv, NEW r \in Requests, Arrive(r) \/ Proceed(r) \/ Fail(r)
  PROVE  RequestInv(r)'
<1>1. TypeOK /\ RequestInv(r)
  BY DEF IInv, RequestsInv
<1>2. CASE Arrive(r)
  BY <1>1, <1>2, GotoEffect DEF Arrive, RequestInv, Inside
<1>3. CASE Insert(r)
  <2>1. CASE record = NoRecord
    <3> DEFINE new == [fingerprint |-> fingerprint[r],
                       status |-> "in_progress", result |-> "none"]
    <3>1. draft'[r] = new /\ new \in Record
      BY <1>1, <1>3, <2>1 DEF TypeOK, Insert, Record
    <3>2. pc'[r] = "operate" /\ answer' = answer /\ record' = record /\ fingerprint' = fingerprint
      BY <1>1, <1>3, <2>1, GotoEffect DEF Insert
    <3> QED BY <1>1, <1>3, <2>1, <3>1, <3>2, NoRecordAssumption DEF RequestInv, Inside, Insert
  <2>2. CASE record # NoRecord
    BY <1>1, <1>3, <2>2, GotoEffect DEF Insert, RequestInv, Inside
  <2> QED BY <2>1, <2>2
<1>4. CASE Operate(r)
  <2>1. draft[r] \in Record /\ record = NoRecord
    BY <1>1, <1>4 DEF TypeOK, RequestInv, Operate, Inside
  <2>2. PICK result \in Results : draft' = [draft EXCEPT ![r].result = result]
    BY <1>4 DEF Operate
  <2>3. /\ draft'[r] \in Record /\ draft'[r].result = result
        /\ draft'[r].fingerprint = draft[r].fingerprint
    BY <1>1, <2>1, <2>2 DEF TypeOK, Record
  <2>4. pc'[r] = "complete" /\ answer' = answer /\ record' = record /\ fingerprint' = fingerprint
    BY <1>1, <1>4, GotoEffect DEF Operate
  <2> QED BY <1>1, <1>4, <2>1, <2>3, <2>4, NoRecordAssumption DEF RequestInv, Inside, Operate
<1>5. CASE Complete(r)
  <2>1. draft[r] \in Record /\ record = NoRecord
    BY <1>1, <1>5 DEF TypeOK, RequestInv, Complete, Inside
  <2>2. /\ draft'[r] \in Record /\ draft'[r].status = "completed"
        /\ draft'[r].fingerprint = draft[r].fingerprint /\ draft'[r].result = draft[r].result
    BY <1>1, <1>5, <2>1 DEF TypeOK, Record, Complete
  <2>3. pc'[r] = "commit" /\ answer' = answer /\ record' = record /\ fingerprint' = fingerprint
    BY <1>1, <1>5, GotoEffect DEF Complete
  <2> QED BY <1>1, <1>5, <2>1, <2>2, <2>3, NoRecordAssumption DEF RequestInv, Inside, Complete
<1>6. CASE Read(r) \/ Fail(r) \/ Commit(r) \/ CommitFails(r)
  BY <1>1, <1>6, RespondEffect, CloseEffect
  DEF RequestInv, Inside, Read, Fail, Commit, CommitFails, Publish, Rollback
<1> QED BY <1>2, <1>3, <1>4, <1>5, <1>6 DEF Proceed

(* Nobody else is inside while one commits, so the others keep theirs.     *)
LEMMA RequestsKept ==
  ASSUME IInv, NEW r \in Requests, Arrive(r) \/ Proceed(r) \/ Fail(r)
  PROVE  RequestsInv' /\ OneInserter'
<1>1. RequestInv(r)'
  BY MoverKept
<1>2. ASSUME NEW other \in Requests \ {r} PROVE RequestInv(other)'
  <2>1. RequestInv(other)
    BY DEF IInv, RequestsInv
  <2>2. CASE RecordStays
    BY <2>1, <2>2, StepEffect DEF RequestInv, RecordStays
  <2>3. CASE Published(r)
    <3>1. draft[r] # NoRecord /\ draft[r] \in Record
      BY <2>3 DEF IInv, TypeOK, RequestsInv, RequestInv, Published, Inside
    <3>2. draft[other] = NoRecord
      BY <3>1 DEF IInv, OneInserter
    <3> QED BY <2>1, <2>3, <3>1, <3>2, StepEffect DEF RequestInv, Published
  <2> QED BY <2>2, <2>3, StepEffect
<1>3. OneInserter'
  <2>1. CASE Insert(r)
    <3>1. \A other \in Requests \ {r} : draft'[other] = NoRecord
      BY <2>1, StepEffect DEF Insert
    <3> QED BY <3>1 DEF OneInserter
  <2>2. CASE ~Insert(r)
    <3>1. draft'[r] # NoRecord => draft[r] # NoRecord
      <4>1. CASE Arrive(r)
        BY <4>1 DEF Arrive
      <4>2. CASE Operate(r) \/ Complete(r)
        BY <4>2 DEF IInv, RequestsInv, RequestInv, Inside, Operate, Complete
      <4>3. CASE Read(r) \/ Fail(r) \/ Commit(r) \/ CommitFails(r)
        BY <4>3, CloseEffect DEF IInv, Read, Fail, Commit, CommitFails, Publish, Rollback
      <4> QED BY <2>2, <4>1, <4>2, <4>3 DEF Proceed
    <3> QED BY <3>1, StepEffect DEF IInv, OneInserter
  <2> QED BY <2>1, <2>2
<1> QED BY <1>1, <1>2, <1>3 DEF RequestsInv

(* A record, once committed, is complete and never changes again.          *)
LEMMA RecordKept ==
  ASSUME IInv, NEW r \in Requests, Arrive(r) \/ Proceed(r) \/ Fail(r)
  PROVE  /\ RecordMeansDone'
         /\ record # NoRecord => record' = record /\ effects' = effects
<1>1. CASE RecordStays
  BY <1>1 DEF IInv, RecordMeansDone, RecordStays
<1>2. CASE Published(r)
  <2>1. /\ record = NoRecord /\ draft[r] \in Record
        /\ draft[r].status = "completed" /\ draft[r].result \in Results
    BY <1>2 DEF IInv, TypeOK, RequestsInv, RequestInv, Published, Inside
  <2>2. effects = 0
    BY <2>1 DEF IInv, RecordMeansDone
  <2> QED BY <1>2, <2>1, <2>2, NoRecordAssumption DEF RecordMeansDone, Published
<1> QED BY <1>1, <1>2, StepEffect

(* What a request is told in this step is so.                              *)
LEMMA TellsTruth ==
  ASSUME IInv, NEW r \in Requests, Arrive(r) \/ Proceed(r) \/ Fail(r),
         answer'[r] # answer[r]
  PROVE  /\ answer[r] = "none"
         /\ \/ answer'[r] = "unknown"
            \/ /\ answer'[r] = "reused" /\ RecordStays
               /\ record # NoRecord /\ record.fingerprint # fingerprint[r]
            \/ /\ answer'[r] \in Results
               /\ record' # NoRecord /\ record'.fingerprint = fingerprint[r]
               /\ record'.result = answer'[r]
<1>1. TypeOK /\ RequestInv(r) /\ RecordMeansDone
  BY DEF IInv, RequestsInv
<1>2. CASE Arrive(r) \/ Insert(r) \/ Operate(r) \/ Complete(r)
  BY <1>1, <1>2, GotoEffect DEF Arrive, Insert, Operate, Complete
<1>3. CASE Fail(r) \/ CommitFails(r)
  BY <1>1, <1>3, RespondEffect DEF Fail, CommitFails, RequestInv
<1>4. CASE Commit(r)
  BY <1>1, <1>4, RespondEffect, NoRecordAssumption
  DEF Commit, Publish, RequestInv, Inside, TypeOK
<1>5. CASE Read(r)
  BY <1>1, <1>5, RespondEffect
  DEF Read, Rollback, RequestInv, RecordMeansDone, RecordStays
<1> QED BY <1>2, <1>3, <1>4, <1>5 DEF Proceed

LEMMA AnswersKept ==
  ASSUME IInv, NEW r \in Requests, Arrive(r) \/ Proceed(r) \/ Fail(r)
  PROVE  AnswersAreDurable' /\ ReuseIsReal'
<1>1. \A other \in Requests :
         other = r \/ (answer'[other] = answer[other] /\ draft'[other] = draft[other])
  BY StepEffect
<1>2. fingerprint' = fingerprint
  BY StepEffect
<1>3. record # NoRecord => record' = record
  BY RecordKept
<1>4. AnswersAreDurable'
  BY <1>1, <1>2, <1>3, TellsTruth DEF IInv, AnswersAreDurable, Results
<1>5. ReuseIsReal'
  BY <1>1, <1>2, <1>3, TellsTruth DEF IInv, ReuseIsReal, Results, RecordStays
<1> QED BY <1>4, <1>5

LEMMA NextIInv == IInv /\ [Next]_vars => IInv'
<1> SUFFICES ASSUME IInv, [Next]_vars PROVE IInv'
  OBVIOUS
<1>1. CASE UNCHANGED vars
  BY <1>1 DEF IInv, vars, TypeOK, RequestsInv, RequestInv, OneInserter,
              AnswersAreDurable, ReuseIsReal, RecordMeansDone
<1>2. ASSUME NEW r \in Requests, Arrive(r) \/ Proceed(r) \/ Fail(r)
      PROVE  IInv'
  BY <1>2, TypeKept, RequestsKept, RecordKept, AnswersKept DEF IInv
<1> QED BY <1>1, <1>2 DEF Next

-----------------------------------------------------------------------------
(* The invariant holds in every reachable state.                           *)
THEOREM Invariance == Spec => []IInv
  BY InitIInv, NextIInv, PTL DEF Spec

(* Every variable keeps its type.                                          *)
THEOREM TypeCorrect == Spec => []TypeOK
<1>1. IInv => TypeOK
  BY DEF IInv
<1> QED BY <1>1, Invariance, PTL

(* A definite answer is the decision stored for just this request.         *)
THEOREM DurableAnswers == Spec => []AnswersAreDurable
<1>1. IInv => AnswersAreDurable
  BY DEF IInv
<1> QED BY <1>1, Invariance, PTL

(* A retry of the decided request is never told that the key was reused.   *)
THEOREM RealReuse == Spec => []ReuseIsReal
<1>1. IInv => ReuseIsReal
  BY DEF IInv
<1> QED BY <1>1, Invariance, PTL

(* A visible record is complete, and goes with exactly its business write. *)
THEOREM DoneWhenRecorded == Spec => []RecordMeansDone
<1>1. IInv => RecordMeansDone
  BY DEF IInv
<1> QED BY <1>1, Invariance, PTL

-----------------------------------------------------------------------------
(* The promise to the callers: initial states and steps map to its own.    *)
LEMMA InitPromise == Init => Promise!Init
  BY DEF Init, Promise!Init

LEMMA StepPromise ==
  ASSUME IInv, NEW r \in Requests, Arrive(r) \/ Proceed(r) \/ Fail(r)
  PROVE  [Promise!Next]_(Promise!vars)
<1> DEFINE decision == IF record = NoRecord THEN "unused" ELSE record.result
<1>1. TypeOK /\ TypeOK' /\ RequestInv(r)
  BY TypeKept DEF IInv, RequestsInv, Next
<1>2. CASE Arrive(r) \/ Insert(r) \/ Operate(r) \/ Complete(r)
  BY <1>1, <1>2, GotoEffect DEF Arrive, Insert, Operate, Complete, Promise!vars
<1>3. ASSUME NEW what, Respond(r, what), pc[r] # "ended"
      PROVE  Promise!Tell(r, what)
  BY <1>1, <1>3 DEF Respond, Promise!Tell, RequestInv
<1>4. CASE (Fail(r) \/ CommitFails(r)) /\ Rollback(r)
  <2>1. Promise!Tell(r, "unknown")
    BY <1>3, <1>4 DEF Fail, CommitFails
  <2> QED BY <1>4, <2>1 DEF Rollback, Promise!Shrug, Promise!Next
<1>5. CASE Commit(r) \/ (CommitFails(r) /\ Publish(r))
  <2>1. /\ pc[r] = "commit" /\ record = NoRecord
        /\ record' = draft[r] /\ draft[r] # NoRecord
        /\ draft[r].result \in {"accepted", "rejected"}
        /\ effects' = effects + (IF draft[r].result = "accepted" THEN 1 ELSE 0)
    BY <1>1, <1>5 DEF Commit, CommitFails, Publish, RequestInv, Inside, Results
  <2>2. Promise!Tell(r, draft[r].result) \/ Promise!Tell(r, "unknown")
    BY <1>3, <1>5, <2>1 DEF Commit, CommitFails
  <2>3. Promise!Decide(draft[r].result)
    BY <2>1, <2>2 DEF Promise!Decide
  <2> QED BY <2>1, <2>3 DEF Promise!Next
<1>6. CASE Read(r)
  <2>1. /\ record # NoRecord /\ UNCHANGED <<record, effects>>
        /\ record.status = "completed" /\ record.result \in Results
    BY <1>1, <1>6 DEF IInv, Read, Rollback, RequestInv, RecordMeansDone
  <2>2. Promise!Tell(r, "reused") \/ Promise!Tell(r, record.result)
    <3>1. Respond(r, "reused") \/ Respond(r, record.result)
      BY <1>6, <2>1 DEF Read
    <3> QED BY <1>3, <1>6, <3>1 DEF Read
  <2>3. decision # "unused"
    BY <2>1 DEF Results
  <2> QED BY <2>1, <2>2, <2>3
      DEF Promise!Replay, Promise!Refuse, Promise!Next
<1> QED BY <1>2, <1>4, <1>5, <1>6 DEF Proceed, Fail, CommitFails

(* execute_idempotent_write keeps the promise: one decision per key, made  *)
(* together with its write, and told to everybody who is told anything.    *)
THEOREM PromiseKept == Spec => KeepsPromise
<1>1. IInv /\ [Next]_vars => [Promise!Next]_(Promise!vars)
  <2> SUFFICES ASSUME IInv, [Next]_vars PROVE [Promise!Next]_(Promise!vars)
    OBVIOUS
  <2>1. CASE UNCHANGED vars
    BY <2>1 DEF vars, Promise!vars
  <2> QED BY <2>1, StepPromise DEF Next
<1> QED BY <1>1, InitPromise, Invariance, PTL DEF Spec, KeepsPromise, Promise!Spec
=============================================================================
