------------------------ MODULE CommerceIdempotency ------------------------
(***************************************************************************)
(* One idempotency key of NovaCommerce, and the concurrent requests that   *)
(* carry it: execute_idempotent_write, one step per database statement.    *)
(* The record, the business write and the stored response are published by *)
(* one commit.  Until then the inserted row is invisible, and makes the    *)
(* inserts of the other requests wait (PostgreSQL, READ COMMITTED).        *)
(*                                                                         *)
(* Source: src/novacommerce/idempotency.py and the write routes.           *)
(***************************************************************************)
EXTENDS Naturals

CONSTANTS
    Requests,      \* HTTP requests that carry the key
    Fingerprints,  \* hashes of operation, customer, targets and body
    NoRecord

Results == {"accepted", "rejected"}   \* a 2xx, or a 404 or 409, of the operation

Record == [fingerprint : Fingerprints,
           status      : {"in_progress", "completed"},
           result      : Results \cup {"none"}]

ASSUME NoRecordAssumption == NoRecord \notin Record

VARIABLES
    record,       \* the committed row of idempotency_records
    effects,      \* committed business writes (history)
    draft,        \* the row that each request's open transaction inserted
    pc,           \* where each request stands
    fingerprint,  \* what each request asks for
    answer        \* what each request was told

vars == <<record, effects, draft, pc, fingerprint, answer>>

Inside == {"operate", "complete", "commit"}   \* after a successful insert

TypeOK ==
    /\ record \in Record \cup {NoRecord}
    /\ effects \in Nat
    /\ draft \in [Requests -> Record \cup {NoRecord}]
    /\ pc \in [Requests -> {"arrive", "insert", "read", "ended"} \cup Inside]
    /\ fingerprint \in [Requests -> Fingerprints]
    /\ answer \in [Requests -> Results \cup {"none", "reused", "unknown"}]

-----------------------------------------------------------------------------
Init ==
    /\ record = NoRecord
    /\ effects = 0
    /\ draft = [r \in Requests |-> NoRecord]
    /\ pc = [r \in Requests |-> "arrive"]
    /\ fingerprint \in [Requests -> Fingerprints]
    /\ answer = [r \in Requests |-> "none"]

Goto(r, label) == pc' = [pc EXCEPT ![r] = label] /\ UNCHANGED answer

Respond(r, what) ==
    /\ pc' = [pc EXCEPT ![r] = "ended"]
    /\ answer' = [answer EXCEPT ![r] = what]

Close(r) == draft' = [draft EXCEPT ![r] = NoRecord]

(* A rollback undoes the insert and the business write ...                 *)
Rollback(r) == UNCHANGED <<record, effects>> /\ Close(r)

(* ... which only the commit publishes, and together.                      *)
Publish(r) ==
    /\ record' = draft[r]
    /\ effects' = effects + (IF draft[r].result = "accepted" THEN 1 ELSE 0)
    /\ Close(r)

Arrive(r) ==
    /\ pc[r] = "arrive"
    /\ Goto(r, "insert")
    /\ UNCHANGED <<record, effects, draft, fingerprint>>

(* Faulty variant: look for the record first, and insert if there is none. *)
Insert_CheckThenAct(r) ==
    /\ pc[r] = "insert"
    /\ IF record = NoRecord
       THEN /\ draft' = [draft EXCEPT ![r] =
                  [fingerprint |-> fingerprint[r],
                   status |-> "in_progress", result |-> "none"]]
            /\ Goto(r, "operate")
       ELSE UNCHANGED draft /\ Goto(r, "read")
    /\ UNCHANGED <<record, effects, fingerprint>>

(* INSERT ... ON CONFLICT DO NOTHING: waits for another inserter to end.   *)
Insert(r) ==
    /\ pc[r] = "insert"
    /\ \A other \in Requests : draft[other] = NoRecord
    /\ IF record = NoRecord
       THEN /\ draft' = [draft EXCEPT ![r] =
                  [fingerprint |-> fingerprint[r],
                   status |-> "in_progress", result |-> "none"]]
            /\ Goto(r, "operate")
       ELSE UNCHANGED draft /\ Goto(r, "read")
    /\ UNCHANGED <<record, effects, fingerprint>>

(* Faulty variant: a fingerprint that is not stable, so never found again. *)
Read_Unstable(r) ==
    /\ pc[r] = "read"
    /\ Respond(r, "reused")
    /\ Rollback(r)
    /\ UNCHANGED fingerprint

(* Faulty variant: the stored response answers whoever has the key.        *)
Read_AnyBody(r) ==
    /\ pc[r] = "read"
    /\ Respond(r, IF record.status # "completed" THEN "unknown" ELSE record.result)
    /\ Rollback(r)
    /\ UNCHANGED fingerprint

Read(r) ==
    /\ pc[r] = "read"
    /\ Respond(r, CASE record.fingerprint # fingerprint[r] -> "reused"
                    [] record.fingerprint = fingerprint[r] /\ record.status # "completed" ->
                          "unknown"
                    [] OTHER -> record.result)
    /\ Rollback(r)
    /\ UNCHANGED fingerprint

(* The business operation decides; its writes are in this transaction.     *)
Operate(r) ==
    /\ pc[r] = "operate"
    /\ \E result \in Results : draft' = [draft EXCEPT ![r].result = result]
    /\ Goto(r, "complete")
    /\ UNCHANGED <<record, effects, fingerprint>>

(* Faulty variant: the record is committed by itself, before the write.    *)
Complete_CommitsFirst(r) ==
    /\ pc[r] = "complete"
    /\ record' = draft[r]
    /\ draft' = [draft EXCEPT ![r].status = "completed"]
    /\ Goto(r, "commit")
    /\ UNCHANGED <<effects, fingerprint>>

Complete(r) ==
    /\ pc[r] = "complete"
    /\ draft' = [draft EXCEPT ![r].status = "completed"]
    /\ Goto(r, "commit")
    /\ UNCHANGED <<record, effects, fingerprint>>

Commit(r) ==
    /\ pc[r] = "commit"
    /\ Publish(r)
    /\ Respond(r, draft[r].result)
    /\ UNCHANGED fingerprint

(* Faulty variant: a failed commit is answered with what was to be stored. *)
CommitFails_Optimistic(r) ==
    /\ pc[r] = "commit"
    /\ Publish(r) \/ Rollback(r)
    /\ Respond(r, draft[r].result)
    /\ UNCHANGED fingerprint

(* The connection breaks during the commit: it may have happened or not.   *)
CommitFails(r) ==
    /\ pc[r] = "commit"
    /\ Publish(r) \/ Rollback(r)
    /\ Respond(r, "unknown")
    /\ UNCHANGED fingerprint

(* Faulty variant: the failed transaction is left open.                    *)
Fail_KeepsTransaction(r) ==
    /\ pc[r] \in {"insert", "read", "operate", "complete"}
    /\ Respond(r, "unknown")
    /\ UNCHANGED <<record, effects, draft, fingerprint>>

(* Any statement may fail.  (A service that is killed leaves the same      *)
(* behind: its connection is gone, and with it the transaction.)           *)
Fail(r) ==
    /\ pc[r] \in {"insert", "read", "operate", "complete"}
    /\ Respond(r, "unknown")
    /\ Rollback(r)
    /\ UNCHANGED fingerprint

Proceed(r) ==
    \/ Insert(r) \/ Read(r) \/ Operate(r) \/ Complete(r)
    \/ Commit(r) \/ CommitFails(r)

Next == \E r \in Requests : Arrive(r) \/ Proceed(r) \/ Fail(r)

Spec == Init /\ [][Next]_vars

(* A request that has arrived goes on: statements return, and a waiting    *)
(* insert returns when the transaction it waits for has ended.  No failure *)
(* is relied on to end a wait.                                             *)
FairSpec == Spec /\ \A r \in Requests : WF_vars(Proceed(r))

-----------------------------------------------------------------------------
(* Properties.                                                             *)

(* A definite answer is the decision that is durably stored for just this  *)
(* request, so every other request of the same body gets it as well.       *)
AnswersAreDurable ==
    \A r \in Requests : answer[r] \in Results =>
        /\ record # NoRecord
        /\ record.fingerprint = fingerprint[r]
        /\ record.result = answer[r]

(* "Key reused" is said only to a request that differs from the decided    *)
(* one: a retry of the same request never gets it.                         *)
ReuseIsReal ==
    \A r \in Requests : answer[r] = "reused" =>
        /\ record # NoRecord
        /\ record.fingerprint # fingerprint[r]

(* The write and its record are published together, or neither: a record   *)
(* is complete, and there is one write exactly for an accepted one.        *)
RecordMeansDone ==
    /\ record # NoRecord => record.status = "completed" /\ record.result \in Results
    /\ effects = (IF record # NoRecord /\ record.result = "accepted" THEN 1 ELSE 0)

(* Whatever fails, every request that has arrived gets some answer: none   *)
(* waits for ever for a transaction under the same key.                    *)
EveryRequestEnds ==
    \A r \in Requests : pc[r] = "insert" ~> pc[r] = "ended"

-----------------------------------------------------------------------------
(* The promise to the callers.                                             *)
Promise == INSTANCE IdempotentWrite WITH
    decided <- IF record = NoRecord THEN "unused" ELSE record.result,
    written <- effects,
    answers <- answer

(* The key is decided once, together with the write, and definite answers  *)
(* tell that decision.                                                     *)
KeepsPromise == Promise!Spec
=============================================================================
