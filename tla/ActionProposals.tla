-------------------------- MODULE ActionProposals --------------------------
(***************************************************************************)
(* Proposals of one kind for the same targets in one conversation.  Every  *)
(* handler reads the commerce facts, computes fingerprint and policy from  *)
(* them, and only then takes the conversation's row lock to find, replace  *)
(* or insert the action's row; a second transaction records the policy.    *)
(* What customers, supervisors, executors and reconcilers do to a row is   *)
(* Advance here and is detailed in ActionLifecycle.  A row bears the name  *)
(* of the handler that inserted it.                                        *)
(*                                                                         *)
(* Source: src/verbaops/actions/proposals.py, repository.py, policy.py,    *)
(* fingerprints.py and transitions.py.                                     *)
(***************************************************************************)
EXTENDS Naturals, FiniteSets

CONSTANTS
    Handlers,    \* tool calls that propose the action
    NoHandler,
    Facts,       \* what the commerce facts can be; a fingerprint is one of them
    GateOf       \* the gate that the policy asks for under each, if it allows

Undispatched == {"proposed", "awaiting_approval", "awaiting_confirmation", "ready_to_execute"}
Dispatched == {"executing", "unresolved"}
ActiveStates == Undispatched \cup Dispatched
EndStates == {"policy_denied", "rejected", "succeeded", "failed", "expired"}
Gates == {"awaiting_approval", "awaiting_confirmation"}
Decisions == Gates \cup {"policy_denied"}

ASSUME ProposalsAssumption == GateOf \in [Facts -> Decisions] /\ NoHandler \notin Handlers

VARIABLES
    facts,      \* the commerce facts of the targets now
    row,        \* the action_requests rows
    due,        \* rows past expires_at
    pc,         \* where each handler stands
    read,       \* the facts each handler read, that is its fingerprint
    decision,   \* the policy decision it derived from them
    priors,     \* rows a handler selected FOR UPDATE to replace
    found       \* the row its proposal was resolved to

vars == <<facts, row, due, pc, read, decision, priors, found>>

NoRow == [state |-> "none", fingerprint |-> CHOOSE f \in Facts : TRUE, policy |-> "none"]

Row == [state : ActiveStates \cup EndStates \cup {"none"},
        fingerprint : Facts, policy : Decisions \cup {"none"}]

TypeOK ==
    /\ facts \in Facts
    /\ row \in [Handlers -> Row]
    /\ due \subseteq Handlers
    /\ pc \in [Handlers -> {"idle", "read", "locked", "insert", "record", "told", "failed"}]
    /\ read \in [Handlers -> Facts]
    /\ decision \in [Handlers -> Decisions]
    /\ priors \in [Handlers -> SUBSET Handlers]
    /\ found \in [Handlers -> Handlers \cup {NoHandler}]

Init ==
    /\ facts \in Facts
    /\ row = [h \in Handlers |-> NoRow]
    /\ due = {}
    /\ pc = [h \in Handlers |-> "idle"]
    /\ read = [h \in Handlers |-> facts]
    /\ decision = [h \in Handlers |-> "policy_denied"]
    /\ priors = [h \in Handlers |-> {}]
    /\ found = [h \in Handlers |-> NoHandler]

Goto(h, label) == pc' = [pc EXCEPT ![h] = label]

Active == {q \in Handlers : row[q].state \in ActiveStates}

\* Rows that another transaction has locked.
RowLocked(q) == \E h \in Handlers : q \in priors[h]

-----------------------------------------------------------------------------
\* evaluate_current.  The gate is a function of what the fingerprint covers;
\* that the action is eligible also depends on the clock, which it does not.
Preflight(h) ==
    /\ pc[h] = "idle"
    /\ read' = [read EXCEPT ![h] = facts]
    /\ \E d \in {GateOf[facts], "policy_denied"} : decision' = [decision EXCEPT ![h] = d]
    /\ Goto(h, "read")
    /\ UNCHANGED <<facts, row, due, priors, found>>

\* Faulty variant: the conversation row is read without FOR UPDATE.
Unlocked_Always == TRUE

Unlocked == \A h \in Handlers : pc[h] \notin {"locked", "insert"}

LockConversation(h) ==
    /\ pc[h] = "read"
    /\ Unlocked
    /\ Goto(h, "locked")
    /\ UNCHANGED <<facts, row, due, read, decision, priors, found>>

\* Faulty variant: any live request for the targets is taken for the same one.
SameProposal_Targets(h) == {q \in Active : read[h] \in Facts}

SameProposal(h) == {q \in Active : row[q].fingerprint = read[h]}

\* A live request with this fingerprint is the answer; its policy is recorded
\* if that has not happened yet.
Reuse(h) ==
    /\ pc[h] = "locked"
    /\ \E q \in SameProposal(h) :
          /\ ~RowLocked(q)
          /\ found' = [found EXCEPT ![h] = q]
          /\ Goto(h, IF row[q].state = "proposed" THEN "record" ELSE "told")
    /\ UNCHANGED <<facts, row, due, read, decision, priors>>

\* ActionInFlightError: a dispatched request for the targets is unresolved.
RefuseInFlight(h) ==
    /\ pc[h] = "locked"
    /\ SameProposal(h) = {}
    /\ \E q \in Active : row[q].state \in Dispatched
    /\ Goto(h, "failed")
    /\ UNCHANGED <<facts, row, due, read, decision, priors, found>>

\* The earlier requests are selected FOR UPDATE ...
SelectPriors(h) ==
    /\ pc[h] = "locked"
    /\ SameProposal(h) = {}
    /\ \A q \in Active : row[q].state \in Undispatched /\ ~RowLocked(q)
    /\ priors' = [priors EXCEPT ![h] = Active]
    /\ Goto(h, "insert")
    /\ UNCHANGED <<facts, row, due, read, decision, found>>

Superseded(h, q) == IF q \in priors[h] THEN [row[q] EXCEPT !.state = "expired"] ELSE row[q]

\* ... superseded, and the new one is inserted, all in one commit.  The unique
\* index on live fingerprints would turn a second insert into _load_unique_winner.
Insert(h) ==
    /\ pc[h] = "insert"
    /\ IF SameProposal(h) \subseteq priors[h]
       THEN /\ row' = [q \in Handlers |->
                         IF q = h THEN [state |-> "proposed", fingerprint |-> read[h],
                                        policy |-> "none"]
                         ELSE Superseded(h, q)]
            /\ found' = [found EXCEPT ![h] = h]
            /\ Goto(h, "record")
       ELSE /\ \E q \in SameProposal(h) :
                  /\ found' = [found EXCEPT ![h] = q]
                  /\ Goto(h, IF row[q].state = "proposed" THEN "record" ELSE "told")
            /\ UNCHANGED row
    /\ priors' = [priors EXCEPT ![h] = {}]
    /\ UNCHANGED <<facts, due, read, decision>>

\* Faulty variant: the decision is written whatever became of the row.
RecordPolicy_Blind(h) ==
    LET q == found[h] IN
    /\ pc[h] = "record"
    /\ ~RowLocked(q)
    /\ row' = [row EXCEPT ![q].state = decision[h], ![q].policy = decision[h]]
    /\ Goto(h, "told")
    /\ UNCHANGED <<facts, due, read, decision, priors, found>>

\* The edges of validate_action_transition that lead to a policy decision: a
\* denial still counts on a row that was confirmed since it was read.
Decidable(state, d) ==
    \/ state = "proposed"
    \/ state = "ready_to_execute" /\ d = "policy_denied"

\* The transition under the row's lock: overdue and superseded rows are told
\* as expired, and a row that somebody else has moved on is an error.
RecordPolicy(h) ==
    LET q == found[h] IN
    /\ pc[h] = "record"
    /\ ~RowLocked(q)
    /\ CASE row[q].state = "expired" ->
              Goto(h, "told") /\ UNCHANGED row
         [] row[q].state \in Undispatched /\ q \in due ->
              Goto(h, "told") /\ row' = [row EXCEPT ![q].state = "expired"]
         [] Decidable(row[q].state, decision[h]) /\ q \notin due ->
              /\ row' = [row EXCEPT ![q].state = decision[h], ![q].policy = decision[h]]
              /\ Goto(h, "told")
         [] OTHER -> Goto(h, "failed") /\ UNCHANGED row
    /\ UNCHANGED <<facts, due, read, decision, priors, found>>

\* An unreachable service, a lost connection, a dead process: what was not
\* committed is rolled back and every lock released.
Abandon(h) ==
    /\ pc[h] \notin {"told", "failed"}
    /\ Goto(h, "failed")
    /\ priors' = [priors EXCEPT ![h] = {}]
    /\ UNCHANGED <<facts, row, due, read, decision, found>>

-----------------------------------------------------------------------------
\* What the others may do to a row: the edges of validate_action_transition
\* that decisions, execution and reconciliation use.
Successors ==
    [proposed              |-> {},
     awaiting_approval     |-> {"awaiting_confirmation", "rejected", "expired"},
     awaiting_confirmation |-> {"ready_to_execute", "rejected", "expired"},
     ready_to_execute      |-> {"executing", "policy_denied", "expired"},
     executing             |-> {"succeeded", "failed", "unresolved"},
     unresolved            |-> {"succeeded", "failed"}]

Advance(q) ==
    /\ q \in Active /\ ~RowLocked(q)
    /\ \E s \in IF q \in due /\ row[q].state \in Undispatched THEN {"expired"}
                ELSE Successors[row[q].state] :
          row' = [row EXCEPT ![q].state = s,
                             ![q].policy = IF s = "policy_denied" THEN s ELSE @]
    /\ UNCHANGED <<facts, due, pc, read, decision, priors, found>>

FallDue(q) ==
    /\ row[q].state \in Undispatched /\ q \notin due
    /\ due' = due \cup {q}
    /\ UNCHANGED <<facts, row, pc, read, decision, priors, found>>

ChangeFacts ==
    /\ facts' \in Facts \ {facts}
    /\ UNCHANGED <<row, due, pc, read, decision, priors, found>>

Propose(h) ==
    \/ Preflight(h) \/ LockConversation(h) \/ Reuse(h) \/ RefuseInFlight(h)
    \/ SelectPriors(h) \/ Insert(h) \/ RecordPolicy(h) \/ Abandon(h)

Next ==
    \/ \E h \in Handlers : Propose(h) \/ Advance(h) \/ FallDue(h)
    \/ ChangeFacts

Spec == Init /\ [][Next]_vars

-----------------------------------------------------------------------------
\* However proposals and corrections of them overlap, at most one request for
\* the targets is live, so a customer is never asked about two of them.
OneLiveRequest == Cardinality(Active) <= 1

\* Whoever is told of a request asked for exactly it: it stands for the facts
\* its handler read, and its gate is the one that the policy sets for those
\* facts, whichever handler recorded it and whatever changed in between.
AnsweredAsAsked ==
    /\ \A h \in Handlers : found[h] # NoHandler =>
          row[found[h]].fingerprint = read[h] /\ row[found[h]].state # "none"
    /\ \A q \in Handlers :
          /\ row[q].policy \in {"none", "policy_denied", GateOf[row[q].fingerprint]}
          /\ row[q].state = "awaiting_approval" => row[q].policy = "awaiting_approval"
          /\ row[q].policy = "none" => row[q].state \in {"none", "proposed", "expired"}

\* A correction neither revives a request that has ended nor ends one that
\* was dispatched, and what a request stands for never changes.
CorrectionsSpareTheDispatched ==
    [][\A q \in Handlers : row[q].state # "none" =>
          /\ row'[q].fingerprint = row[q].fingerprint
          /\ row[q].state \in EndStates => row'[q].state = row[q].state
          /\ row[q].state \in Dispatched => row'[q].state # "expired"]_vars
=============================================================================
