------------------------ MODULE ActionProposalsProofs ------------------------
(***************************************************************************)
(* The theorems of ActionProposals: for any number of handlers, any facts  *)
(* and any policy over them; and of the policy of VerbaOps itself, for any *)
(* days, quantities and amounts.                                           *)
(***************************************************************************)
EXTENDS PolicedProposals, TLAPS, FiniteSetTheorems

-----------------------------------------------------------------------------
(* What a handler's place tells of its row, its locks and its decision.  A *)
(* handler that is about to insert holds every live row.                   *)
HandlerInv(h) ==
    /\ pc[h] \in {"idle", "read", "locked", "insert"} =>
          row[h].state = "none" /\ found[h] = NoHandler
    /\ pc[h] # "insert" => priors[h] = {}
    /\ pc[h] = "insert" => Active \subseteq priors[h]
    /\ \A q \in priors[h] : row[q].state \in Undispatched
    /\ pc[h] = "record" => found[h] # NoHandler
    /\ decision[h] \in {GateOf[read[h]], "policy_denied"}

HandlersInv == \A h \in Handlers : HandlerInv(h)

(* The conversation's row lock has one holder.                             *)
OneHolder ==
    \A g, h \in Handlers :
       pc[g] \in {"locked", "insert"} /\ pc[h] \in {"locked", "insert"} => g = h

AtMostOneActive == \A p, q \in Active : p = q

IInv ==
    /\ TypeOK
    /\ HandlersInv
    /\ OneHolder
    /\ AtMostOneActive
    /\ AnsweredAsAsked

-----------------------------------------------------------------------------
(* A step of one handler leaves the entries of the others alone.           *)
OthersKept(h) ==
    \A other \in Handlers \ {h} :
       /\ pc'[other] = pc[other] /\ read'[other] = read[other]
       /\ decision'[other] = decision[other] /\ priors'[other] = priors[other]
       /\ found'[other] = found[other]

(* What a step may do to the rows: supersede the live ones and insert h's, *)
(* or move on one live row that nobody holds.                              *)
Inserted(h) ==
    /\ row'[h] = [state |-> "proposed", fingerprint |-> read[h], policy |-> "none"]
    /\ \A q \in Handlers \ {h} : row'[q] = Superseded(h, q)

Moved(q) ==
    /\ q \in Active /\ ~RowLocked(q)
    /\ \A other \in Handlers \ {q} : row'[other] = row[other]
    /\ row'[q].fingerprint = row[q].fingerprint
    /\ row'[q].state # "none"
    /\ row'[q].state = "expired" => row[q].state \in Undispatched

(* The two updates that a transition makes to a row.                       *)
LEMMA StateIsSet ==
  ASSUME TypeOK, NEW q \in Handlers, NEW s \in ActiveStates \cup EndStates,
         row' = [row EXCEPT ![q].state = s]
  PROVE  /\ row' \in [Handlers -> Row]
         /\ row'[q].state = s
         /\ row'[q].fingerprint = row[q].fingerprint /\ row'[q].policy = row[q].policy
         /\ \A other \in Handlers \ {q} : row'[other] = row[other]
<1>1. row[q] \in Row /\ row \in [Handlers -> Row]
  BY DEF TypeOK
<1>2. row'[q] = [row[q] EXCEPT !.state = s]
  BY <1>1
<1>3. row'[q] \in Row /\ row'[q].state = s
      /\ row'[q].fingerprint = row[q].fingerprint /\ row'[q].policy = row[q].policy
  BY <1>1, <1>2 DEF Row
<1> QED BY <1>1, <1>3

LEMMA PolicyIsSet ==
  ASSUME TypeOK, NEW q \in Handlers, NEW d \in Decisions,
         row' = [row EXCEPT ![q].state = d, ![q].policy = d]
  PROVE  /\ row' \in [Handlers -> Row]
         /\ row'[q].state = d
         /\ row'[q].fingerprint = row[q].fingerprint /\ row'[q].policy = d
         /\ \A other \in Handlers \ {q} : row'[other] = row[other]
<1>1. row[q] \in Row /\ row \in [Handlers -> Row]
  BY DEF TypeOK
<1>2. row'[q] = [row[q] EXCEPT !.state = d, !.policy = d]
  BY <1>1
<1>3. d \in ActiveStates \cup EndStates
  BY DEF Decisions, Gates, ActiveStates, Undispatched, EndStates
<1>4. row'[q] \in Row /\ row'[q].state = d
      /\ row'[q].fingerprint = row[q].fingerprint /\ row'[q].policy = d
  BY <1>1, <1>2, <1>3 DEF Row
<1> QED BY <1>1, <1>4

(* The policy is recorded on a proposed row, a denial also on one that is  *)
(* ready; an overdue one expires.                                          *)
LEMMA RecordEffect ==
  ASSUME IInv, NEW h \in Handlers, RecordPolicy(h)
  PROVE  LET q == found[h] IN
         /\ pc[h] = "record" /\ q \in Handlers /\ ~RowLocked(q)
         /\ \/ row' = row
            \/ /\ row[q].state \in Undispatched
               /\ row' = [row EXCEPT ![q].state = "expired"]
            \/ /\ row[q].state \in {"proposed", "ready_to_execute"}
               /\ row' = [row EXCEPT ![q].state = decision[h], ![q].policy = decision[h]]
  BY DEF IInv, TypeOK, HandlersInv, HandlerInv, RecordPolicy, Decidable

LEMMA ProposeEffect ==
  ASSUME IInv, NEW h \in Handlers, Propose(h)
  PROVE  /\ OthersKept(h) /\ facts' = facts /\ due' = due
         /\ \/ row' = row
            \/ pc[h] = "insert" /\ Inserted(h)
            \/ \E q \in Handlers : Moved(q)
<1>1. TypeOK /\ HandlerInv(h)
  BY DEF IInv, HandlersInv
<1>2. ASSUME NEW label, Goto(h, label)
      PROVE  \A other \in Handlers \ {h} : pc'[other] = pc[other]
  BY <1>1, <1>2 DEF TypeOK, Goto
<1> USE DEF OthersKept
<1>3. CASE Preflight(h)
  BY <1>1, <1>2, <1>3 DEF TypeOK, Preflight
<1>4. CASE LockConversation(h) \/ RefuseInFlight(h)
  BY <1>2, <1>4 DEF LockConversation, RefuseInFlight
<1>5. CASE Reuse(h)
  BY <1>1, <1>2, <1>5 DEF TypeOK, Reuse
<1>6. CASE SelectPriors(h) \/ Abandon(h)
  BY <1>1, <1>2, <1>6 DEF TypeOK, SelectPriors, Abandon
<1>7. CASE Insert(h)
  <2>1. SameProposal(h) \subseteq priors[h]
    BY <1>1, <1>7 DEF Insert, HandlerInv, SameProposal
  <2>2. pc[h] = "insert" /\ Inserted(h)
    BY <1>1, <1>7, <2>1 DEF Insert, Inserted, TypeOK
  <2> QED BY <1>1, <1>2, <1>7, <2>1, <2>2 DEF Insert, TypeOK
<1>8. CASE RecordPolicy(h)
  <2>1. PICK q \in Handlers : q = found[h]
    BY <1>8, RecordEffect
  <2>2. row[q] \in Row /\ decision[h] \in Decisions /\ ~RowLocked(q)
    BY <1>1, <1>8, <2>1, RecordEffect DEF TypeOK
  <2>3. ASSUME row[q].state \in Undispatched, row' = [row EXCEPT ![q].state = "expired"]
        PROVE  Moved(q)
    <3>1. /\ row'[q].state = "expired" /\ row'[q].fingerprint = row[q].fingerprint
          /\ \A other \in Handlers \ {q} : row'[other] = row[other]
      BY <1>1, <2>3, StateIsSet DEF EndStates
    <3> QED BY <2>2, <2>3, <3>1 DEF Moved, Active, ActiveStates
  <2>4. ASSUME row[q].state \in {"proposed", "ready_to_execute"},
               row' = [row EXCEPT ![q].state = decision[h], ![q].policy = decision[h]]
        PROVE  Moved(q)
    <3>1. decision[h] \notin {"none", "expired"}
      BY <2>2 DEF Decisions, Gates
    <3> QED BY <1>1, <2>2, <2>4, <3>1, PolicyIsSet DEF Moved, Active, ActiveStates, Undispatched
  <2>5. row' = row \/ Moved(q)
    BY <1>8, <2>1, <2>3, <2>4, RecordEffect
  <2> QED BY <1>2, <1>8, <2>5 DEF RecordPolicy
<1> QED BY <1>3, <1>4, <1>5, <1>6, <1>7, <1>8 DEF Propose

LEMMA AdvanceEffect ==
  ASSUME TypeOK, NEW q \in Handlers, Advance(q)
  PROVE  /\ Moved(q) /\ row' \in [Handlers -> Row]
         /\ row'[q].policy \in {row[q].policy, "policy_denied"}
         /\ row'[q].state # "awaiting_approval"
         /\ row[q].state = "proposed" => row'[q].state = "expired"
<1>1. /\ row[q] \in Row /\ row[q].state \in ActiveStates /\ row \in [Handlers -> Row]
  BY DEF TypeOK, Advance, Active
<1>2. PICK s \in IF q \in due /\ row[q].state \in Undispatched THEN {"expired"}
                 ELSE Successors[row[q].state] :
             row' = [row EXCEPT ![q].state = s,
                                ![q].policy = IF s = "policy_denied" THEN s ELSE @]
  BY DEF Advance
<1>3. /\ s \in ActiveStates \cup EndStates /\ s \notin {"none", "awaiting_approval"}
      /\ s = "expired" => row[q].state \in Undispatched
      /\ row[q].state = "proposed" => s = "expired"
  BY <1>1, <1>2 DEF Successors, ActiveStates, Undispatched, Dispatched, EndStates
<1>4. /\ row'[q] = [row[q] EXCEPT !.state = s,
                                  !.policy = IF s = "policy_denied" THEN s ELSE row[q].policy]
      /\ \A other \in Handlers \ {q} : row'[other] = row[other]
  BY <1>1, <1>2
<1>5. /\ row'[q].state = s /\ row'[q].fingerprint = row[q].fingerprint
      /\ row'[q].policy = IF s = "policy_denied" THEN s ELSE row[q].policy
      /\ row'[q] \in Row
  BY <1>1, <1>3, <1>4 DEF Row, Decisions
<1> QED BY <1>1, <1>3, <1>4, <1>5 DEF Moved, Advance

-----------------------------------------------------------------------------
LEMMA InitIInv == Init => IInv
  BY ProposalsAssumption
  DEF Init, IInv, TypeOK, NoRow, Row, Decisions, HandlersInv, HandlerInv, Active, ActiveStates,
      Undispatched, Dispatched, OneHolder, AtMostOneActive, AnsweredAsAsked

LEMMA ProposeTypeKept ==
  ASSUME IInv, NEW h \in Handlers, Propose(h)
  PROVE  TypeOK'
<1>1. TypeOK /\ HandlerInv(h)
  BY DEF IInv, HandlersInv
<1> USE DEF TypeOK, Goto
<1>2. CASE Preflight(h)
  BY <1>1, <1>2, ProposalsAssumption DEF Preflight, Decisions
<1>3. CASE LockConversation(h) \/ RefuseInFlight(h) \/ Abandon(h)
  BY <1>1, <1>3 DEF LockConversation, RefuseInFlight, Abandon
<1>4. CASE Reuse(h)
  BY <1>1, <1>4 DEF Reuse, SameProposal, Active
<1>5. CASE SelectPriors(h)
  BY <1>1, <1>5 DEF SelectPriors, Active
<1>6. CASE Insert(h)
  <2>1. SameProposal(h) \subseteq priors[h]
    BY <1>1, <1>6 DEF Insert, HandlerInv, SameProposal
  <2>2. [state |-> "proposed", fingerprint |-> read[h], policy |-> "none"] \in Row
    BY <1>1 DEF Row, ActiveStates, Undispatched
  <2>3. \A q \in Handlers : Superseded(h, q) \in Row
    BY <1>1 DEF Superseded, Row, EndStates
  <2> QED BY <1>1, <1>6, <2>1, <2>2, <2>3 DEF Insert
<1>7. CASE RecordPolicy(h)
  <2>1. PICK q \in Handlers : q = found[h]
    BY <1>7, RecordEffect
  <2>2. ASSUME row' = [row EXCEPT ![q].state = "expired"]
        PROVE  row' \in [Handlers -> Row]
    BY <1>1, <2>2, StateIsSet DEF EndStates
  <2>3. ASSUME row' = [row EXCEPT ![q].state = decision[h], ![q].policy = decision[h]]
        PROVE  row' \in [Handlers -> Row]
    BY <1>1, <2>3, PolicyIsSet
  <2>4. row' \in [Handlers -> Row]
    BY <1>1, <1>7, <2>1, <2>2, <2>3, RecordEffect
  <2> QED BY <1>1, <1>7, <2>4 DEF RecordPolicy
<1> QED BY <1>2, <1>3, <1>4, <1>5, <1>6, <1>7 DEF Propose

LEMMA OtherTypeKept ==
  ASSUME TypeOK, NEW q \in Handlers, Advance(q) \/ FallDue(q) \/ ChangeFacts
  PROVE  TypeOK'
<1> USE DEF TypeOK
<1>1. CASE Advance(q)
  BY <1>1, AdvanceEffect DEF Advance
<1>2. CASE FallDue(q) \/ ChangeFacts
  BY <1>2 DEF FallDue, ChangeFacts
<1> QED BY <1>1, <1>2

-----------------------------------------------------------------------------
(* No step changes what a row stands for or makes it vanish, and none adds *)
(* a live row but Insert, which holds and supersedes all the others.       *)
RowsPersist ==
    \A q \in Handlers : row[q].state # "none" =>
       row'[q].fingerprint = row[q].fingerprint /\ row'[q].state # "none"

LEMMA MovedEffect ==
  ASSUME TypeOK, NEW q \in Handlers, Moved(q)
  PROVE  /\ RowsPersist /\ Active' \subseteq Active
         /\ \A g \in Handlers : row[g].state = "none" => row'[g].state = "none"
         /\ \A g, p \in Handlers : p \in priors[g] => row'[p] = row[p]
<1>1. row[q].state # "none"
  BY DEF Moved, Active, ActiveStates, Undispatched, Dispatched
<1> QED BY <1>1 DEF Moved, RowsPersist, Active, RowLocked

LEMMA InsertedEffect ==
  ASSUME IInv, NEW h \in Handlers, pc[h] = "insert", Inserted(h)
  PROVE  /\ RowsPersist /\ Active' = {h}
         /\ \A g \in Handlers \ {h} : row[g].state = "none" => row'[g].state = "none"
<1>1. /\ TypeOK /\ row[h].state = "none" /\ Active \subseteq priors[h]
      /\ \A q \in priors[h] : row[q].state \in Undispatched
  BY DEF IInv, HandlersInv, HandlerInv
<1>2. ASSUME NEW q \in Handlers \ {h}
      PROVE  /\ row'[q].fingerprint = row[q].fingerprint
             /\ row'[q].state = (IF q \in priors[h] THEN "expired" ELSE row[q].state)
  <2>1. row[q] \in Row /\ row'[q] = Superseded(h, q)
    BY <1>1, <1>2 DEF TypeOK, Inserted
  <2> QED BY <2>1 DEF Superseded, Row
<1>3. RowsPersist
  BY <1>1, <1>2 DEF RowsPersist
<1>4. Active' = {h}
  <2>1. row'[h].state = "proposed"
    BY DEF Inserted
  <2>2. \A q \in Handlers \ {h} : row'[q].state \notin ActiveStates
    BY <1>1, <1>2 DEF Active, ActiveStates, Undispatched, Dispatched
  <2> QED BY <2>1, <2>2 DEF Active, ActiveStates, Undispatched
<1>5. \A q \in priors[h] : row[q].state # "none"
  BY <1>1 DEF Undispatched
<1> QED BY <1>2, <1>3, <1>4, <1>5

(* The handlers that do not move keep their part of the invariant.         *)
LEMMA OtherHandlerKept ==
  ASSUME IInv, NEW h \in Handlers, Propose(h), NEW g \in Handlers \ {h}
  PROVE  HandlerInv(g)'
<1>1. TypeOK /\ HandlerInv(g) /\ OneHolder /\ OthersKept(h)
  BY ProposeEffect DEF IInv, HandlersInv
<1>2. CASE row' = row
  BY <1>1, <1>2 DEF HandlerInv, OthersKept, Active
<1>3. CASE pc[h] = "insert" /\ Inserted(h)
  <2>1. pc[g] # "insert"
    BY <1>1, <1>3 DEF OneHolder
  <2> QED BY <1>1, <1>3, <2>1, InsertedEffect DEF HandlerInv, OthersKept
<1>4. ASSUME NEW q \in Handlers, Moved(q) PROVE HandlerInv(g)'
  <2>1. priors[g] \subseteq Handlers
    BY <1>1 DEF TypeOK
  <2> QED BY <1>1, <1>4, <2>1, MovedEffect DEF HandlerInv, OthersKept
<1> QED BY <1>2, <1>3, <1>4, ProposeEffect

LEMMA MoverKept ==
  ASSUME IInv, NEW h \in Handlers, Propose(h)
  PROVE  HandlerInv(h)'
<1>1. TypeOK /\ HandlerInv(h)
  BY DEF IInv, HandlersInv
<1>2. ASSUME NEW label, Goto(h, label) PROVE pc'[h] = label
  BY <1>1, <1>2 DEF TypeOK, Goto
<1> USE DEF HandlerInv
<1>3. CASE Preflight(h)
  <2>1. decision'[h] \in {GateOf[read'[h]], "policy_denied"}
    BY <1>1, <1>3 DEF Preflight, TypeOK
  <2> QED BY <1>1, <1>2, <1>3, <2>1 DEF Preflight
<1>4. CASE LockConversation(h) \/ RefuseInFlight(h)
  BY <1>1, <1>2, <1>4 DEF LockConversation, RefuseInFlight
<1>5. CASE Abandon(h)
  <2>1. priors'[h] = {} /\ pc'[h] = "failed"
    BY <1>1, <1>2, <1>5 DEF Abandon, TypeOK
  <2> QED BY <1>1, <1>5, <2>1 DEF Abandon
<1>6. CASE Reuse(h)
  <2>1. found'[h] # NoHandler /\ pc'[h] \in {"record", "told"}
    BY <1>1, <1>2, <1>6, ProposalsAssumption DEF Reuse, SameProposal, Active, TypeOK
  <2> QED BY <1>1, <1>6, <2>1 DEF Reuse
<1>7. CASE SelectPriors(h)
  <2>1. priors'[h] = Active /\ Active' = Active
    BY <1>1, <1>7 DEF SelectPriors, TypeOK, Active
  <2> QED BY <1>1, <1>2, <1>7, <2>1 DEF SelectPriors
<1>8. CASE Insert(h)
  <2>1. SameProposal(h) \subseteq priors[h]
    BY <1>1, <1>8 DEF Insert, SameProposal
  <2>2. found'[h] = h /\ priors'[h] = {} /\ pc'[h] = "record"
    BY <1>1, <1>2, <1>8, <2>1 DEF Insert, TypeOK
  <2> QED BY <1>1, <1>8, <2>2, ProposalsAssumption DEF Insert
<1>9. CASE RecordPolicy(h)
  <2>1. pc'[h] \in {"told", "failed"}
    BY <1>2, <1>9 DEF RecordPolicy
  <2> QED BY <1>1, <1>9, <2>1 DEF RecordPolicy
<1> QED BY <1>3, <1>4, <1>5, <1>6, <1>7, <1>8, <1>9 DEF Propose

LEMMA HandlersKept ==
  ASSUME IInv, NEW h \in Handlers, Propose(h)
  PROVE  HandlersInv'
  BY OtherHandlerKept, MoverKept DEF HandlersInv

LEMMA OneHolderKept ==
  ASSUME IInv, NEW h \in Handlers, Propose(h)
  PROVE  OneHolder'
<1>1. TypeOK /\ OneHolder /\ OthersKept(h)
  BY ProposeEffect DEF IInv
<1>2. ASSUME NEW label, Goto(h, label) PROVE pc'[h] = label
  BY <1>1, <1>2 DEF TypeOK, Goto
<1>3. CASE LockConversation(h)
  <2>1. \A g \in Handlers : pc[g] \notin {"locked", "insert"}
    BY <1>3 DEF LockConversation, Unlocked
  <2> QED BY <1>1, <2>1 DEF OneHolder, OthersKept
<1>4. CASE SelectPriors(h)
  <2>1. pc[h] = "locked"
    BY <1>4 DEF SelectPriors
  <2> QED BY <1>1, <2>1 DEF OneHolder, OthersKept
<1>5. CASE Preflight(h) \/ Reuse(h) \/ RefuseInFlight(h) \/ Insert(h) \/ RecordPolicy(h) \/ Abandon(h)
  <2>1. pc'[h] \notin {"locked", "insert"}
    BY <1>2, <1>5 DEF Preflight, Reuse, RefuseInFlight, Insert, RecordPolicy, Abandon
  <2> QED BY <1>1, <2>1 DEF OneHolder, OthersKept
<1> QED BY <1>3, <1>4, <1>5 DEF Propose

LEMMA OneActiveKept ==
  ASSUME IInv, NEW h \in Handlers, Propose(h)
  PROVE  AtMostOneActive'
<1>1. TypeOK /\ AtMostOneActive
  BY DEF IInv
<1>2. CASE row' = row
  BY <1>1, <1>2 DEF AtMostOneActive, Active
<1>3. CASE pc[h] = "insert" /\ Inserted(h)
  BY <1>3, InsertedEffect DEF AtMostOneActive
<1>4. ASSUME NEW q \in Handlers, Moved(q) PROVE AtMostOneActive'
  BY <1>1, <1>4, MovedEffect DEF AtMostOneActive
<1> QED BY <1>2, <1>3, <1>4, ProposeEffect

-----------------------------------------------------------------------------
(* The answers: first whom a handler's proposal was resolved to, then what *)
(* each row says of its policy.                                            *)
FoundMatches(h) ==
    found[h] # NoHandler =>
       row[found[h]].fingerprint = read[h] /\ row[found[h]].state # "none"

PolicyMatches(q) ==
    /\ row[q].policy \in {"none", "policy_denied", GateOf[row[q].fingerprint]}
    /\ row[q].state = "awaiting_approval" => row[q].policy = "awaiting_approval"
    /\ row[q].policy = "none" => row[q].state \in {"none", "proposed", "expired"}

LEMMA AnswersSplit ==
  AnsweredAsAsked <=> \A h \in Handlers : FoundMatches(h) /\ PolicyMatches(h)
  BY DEF AnsweredAsAsked, FoundMatches, PolicyMatches

LEMMA RowsPersistHere ==
  ASSUME IInv, NEW h \in Handlers, Propose(h)
  PROVE  RowsPersist
<1>1. row' = row => RowsPersist
  BY DEF RowsPersist
<1>2. \A q \in Handlers : Moved(q) => RowsPersist
  BY MovedEffect DEF IInv
<1> QED BY <1>1, <1>2, ProposeEffect, InsertedEffect

LEMMA FoundKept ==
  ASSUME IInv, NEW h \in Handlers, Propose(h), NEW g \in Handlers
  PROVE  FoundMatches(g)'
<1>1. /\ TypeOK /\ FoundMatches(g) /\ HandlerInv(h) /\ RowsPersist /\ OthersKept(h)
  BY AnswersSplit, RowsPersistHere, ProposeEffect DEF IInv, HandlersInv
<1>2. ASSUME found'[g] = found[g], read'[g] = read[g] PROVE FoundMatches(g)'
  <2>1. found[g] \in Handlers \cup {NoHandler}
    BY <1>1 DEF TypeOK
  <2> QED BY <1>1, <1>2, <2>1 DEF FoundMatches, RowsPersist
<1>3. CASE g # h
  BY <1>1, <1>2, <1>3 DEF OthersKept
<1>4. CASE g = h
  <2>1. CASE Preflight(h)
    BY <1>1, <1>4, <2>1 DEF Preflight, HandlerInv, FoundMatches
  <2>2. CASE LockConversation(h) \/ RefuseInFlight(h) \/ SelectPriors(h) \/ RecordPolicy(h) \/ Abandon(h)
    BY <1>2, <1>4, <2>2
    DEF LockConversation, RefuseInFlight, SelectPriors, RecordPolicy, Abandon
  <2>3. CASE Reuse(h)
    <3>1. PICK q \in SameProposal(h) : found' = [found EXCEPT ![h] = q]
      BY <2>3 DEF Reuse
    <3>2. found'[h] = q /\ row'[q] = row[q] /\ read'[h] = read[h]
      BY <1>1, <2>3, <3>1 DEF Reuse, TypeOK
    <3>3. row[q].fingerprint = read[h] /\ row[q].state # "none"
      BY <3>1 DEF SameProposal, Active, ActiveStates, Undispatched, Dispatched
    <3> QED BY <1>4, <3>2, <3>3 DEF FoundMatches
  <2>4. CASE Insert(h)
    <3>1. SameProposal(h) \subseteq priors[h]
      BY <1>1, <2>4 DEF Insert, SameProposal, HandlerInv
    <3>2. /\ found'[h] = h /\ read'[h] = read[h]
          /\ row'[h] = [state |-> "proposed", fingerprint |-> read[h], policy |-> "none"]
      BY <1>1, <2>4, <3>1 DEF Insert, TypeOK
    <3> QED BY <1>4, <3>2 DEF FoundMatches
  <2> QED BY <2>1, <2>2, <2>3, <2>4 DEF Propose
<1> QED BY <1>3, <1>4

LEMMA PolicyKept ==
  ASSUME IInv, NEW h \in Handlers, Propose(h), NEW p \in Handlers
  PROVE  PolicyMatches(p)'
<1>1. TypeOK /\ PolicyMatches(p) /\ HandlerInv(h) /\ FoundMatches(h)
  BY AnswersSplit DEF IInv, HandlersInv
<1>2. CASE row' = row
  BY <1>1, <1>2 DEF PolicyMatches
<1>3. CASE Insert(h)
  <2>1. SameProposal(h) \subseteq priors[h]
    BY <1>1, <1>3 DEF Insert, SameProposal, HandlerInv
  <2>2. row'[p] = IF p = h THEN [state |-> "proposed", fingerprint |-> read[h], policy |-> "none"]
                  ELSE Superseded(h, p)
    BY <1>1, <1>3, <2>1 DEF Insert, TypeOK
  <2>3. row[p] \in Row
    BY <1>1 DEF TypeOK
  <2> QED BY <1>1, <2>2, <2>3 DEF PolicyMatches, Superseded, Row
<1>4. CASE RecordPolicy(h)
  <2>1. PICK q \in Handlers : q = found[h]
    BY <1>4, RecordEffect
  <2>2. ASSUME row' = [row EXCEPT ![q].state = "expired"] PROVE PolicyMatches(p)'
    <3>1. /\ row'[q].state = "expired" /\ row'[q].fingerprint = row[q].fingerprint
          /\ row'[q].policy = row[q].policy
          /\ \A other \in Handlers \ {q} : row'[other] = row[other]
      BY <1>1, <2>2, StateIsSet DEF EndStates
    <3> QED BY <1>1, <3>1 DEF PolicyMatches
  <2>3. ASSUME row' = [row EXCEPT ![q].state = decision[h], ![q].policy = decision[h]]
        PROVE  PolicyMatches(p)'
    <3>1. decision[h] \in Decisions /\ row[q].fingerprint = read[h]
      BY <1>1, <1>4, <2>1, ProposalsAssumption DEF TypeOK, FoundMatches, RecordPolicy
    <3>2. /\ row'[q].state = decision[h] /\ row'[q].policy = decision[h]
          /\ row'[q].fingerprint = read[h]
          /\ \A other \in Handlers \ {q} : row'[other] = row[other]
      BY <1>1, <2>3, <3>1, PolicyIsSet
    <3> QED BY <1>1, <3>1, <3>2 DEF PolicyMatches, HandlerInv, Decisions, Gates
  <2> QED BY <1>2, <1>4, <2>1, <2>2, <2>3, RecordEffect
<1>5. CASE Preflight(h) \/ LockConversation(h) \/ Reuse(h) \/ RefuseInFlight(h)
           \/ SelectPriors(h) \/ Abandon(h)
  BY <1>2, <1>5
  DEF Preflight, LockConversation, Reuse, RefuseInFlight, SelectPriors, Abandon
<1> QED BY <1>3, <1>4, <1>5 DEF Propose

LEMMA ProposeKeeps ==
  ASSUME IInv, NEW h \in Handlers, Propose(h)
  PROVE  IInv'
<1>1. AnsweredAsAsked'
  BY FoundKept, PolicyKept DEF AnsweredAsAsked, FoundMatches, PolicyMatches
<1> QED BY <1>1, ProposeTypeKept, HandlersKept, OneHolderKept, OneActiveKept DEF IInv

-----------------------------------------------------------------------------
(* The other users of a row, the deadline and the changing facts.          *)
LEMMA AdvanceKeeps ==
  ASSUME IInv, NEW q \in Handlers, Advance(q)
  PROVE  IInv'
<1>1. /\ TypeOK /\ Moved(q) /\ row'[q].policy \in {row[q].policy, "policy_denied"}
      /\ row'[q].state # "awaiting_approval"
      /\ row[q].state = "proposed" => row'[q].state = "expired"
  BY AdvanceEffect DEF IInv
<1>2. /\ pc' = pc /\ read' = read /\ decision' = decision /\ priors' = priors /\ found' = found
  BY DEF Advance
<1>3. /\ RowsPersist /\ Active' \subseteq Active
      /\ \A g \in Handlers : row[g].state = "none" => row'[g].state = "none"
      /\ \A g, p \in Handlers : p \in priors[g] => row'[p] = row[p]
  BY <1>1, MovedEffect
<1>4. TypeOK'
  BY <1>1, OtherTypeKept
<1>5. HandlersInv'
  <2>1. \A g \in Handlers : priors[g] \subseteq Handlers
    BY <1>1 DEF TypeOK
  <2> QED BY <1>2, <1>3, <2>1 DEF IInv, HandlersInv, HandlerInv
<1>6. OneHolder' /\ AtMostOneActive'
  BY <1>2, <1>3 DEF IInv, OneHolder, AtMostOneActive
<1>7. \A g \in Handlers : FoundMatches(g)'
  <2>1. \A g \in Handlers : found[g] \in Handlers \cup {NoHandler}
    BY <1>1 DEF TypeOK
  <2> QED BY <1>2, <1>3, <2>1, AnswersSplit DEF IInv, FoundMatches, RowsPersist
<1>8. ASSUME NEW p \in Handlers PROVE PolicyMatches(p)'
  <2>1. PolicyMatches(p)
    BY AnswersSplit DEF IInv
  <2>2. CASE p # q
    BY <1>1, <2>1, <2>2 DEF Moved, PolicyMatches
  <2>3. CASE p = q
    <3>1. row[q].state \in ActiveStates
      BY DEF Advance, Active
    <3>2. row[q].policy = "none" => row[q].state = "proposed"
      BY <2>1, <2>3, <3>1 DEF PolicyMatches, ActiveStates, Undispatched, Dispatched
    <3> QED BY <1>1, <2>1, <2>3, <3>2 DEF Moved, PolicyMatches
  <2> QED BY <2>2, <2>3
<1> QED BY <1>4, <1>5, <1>6, <1>7, <1>8
        DEF IInv, AnsweredAsAsked, FoundMatches, PolicyMatches

LEMMA StepKeeps == IInv /\ [Next]_vars => IInv'
<1> SUFFICES ASSUME IInv, [Next]_vars PROVE IInv'
  OBVIOUS
<1>1. CASE UNCHANGED vars
  BY <1>1 DEF vars, IInv, TypeOK, HandlersInv, HandlerInv, Active, OneHolder,
              AtMostOneActive, AnsweredAsAsked
<1>2. CASE \E q \in Handlers : FallDue(q)
  <2>1. TypeOK'
    BY <1>2, OtherTypeKept DEF IInv
  <2> QED BY <1>2, <2>1 DEF FallDue, IInv, HandlersInv, HandlerInv, Active, OneHolder,
                            AtMostOneActive, AnsweredAsAsked
<1>3. CASE ChangeFacts
  <2>1. TypeOK'
    BY <1>3 DEF IInv, TypeOK, ChangeFacts
  <2> QED BY <1>3, <2>1 DEF ChangeFacts, IInv, HandlersInv, HandlerInv, Active, OneHolder,
                            AtMostOneActive, AnsweredAsAsked
<1> QED BY <1>1, <1>2, <1>3, ProposeKeeps, AdvanceKeeps DEF Next

(* The invariant holds of every reachable state.                           *)
THEOREM InvariantHolds == Spec => []IInv
  BY InitIInv, StepKeeps, PTL DEF Spec

(* Every variable keeps its type.                                          *)
THEOREM TypesHold == Spec => []TypeOK
<1>1. IInv => TypeOK
  BY DEF IInv
<1> QED BY <1>1, InvariantHolds, PTL

(* A set whose elements are all equal has one at most.                     *)
LEMMA InvOneLive == IInv => OneLiveRequest
<1> SUFFICES ASSUME IInv PROVE OneLiveRequest
  OBVIOUS
<1>1. Active = {} \/ \E q : Active = {q}
  BY DEF IInv, AtMostOneActive
<1>2. Cardinality(Active) \in {0, 1}
  BY <1>1, FS_EmptySet, FS_Singleton
<1> QED BY <1>2 DEF OneLiveRequest

(* At most one request for the same targets is live, however proposals and *)
(* corrections of them overlap.                                            *)
THEOREM AtMostOneRequestIsLive == Spec => []OneLiveRequest
  BY InvariantHolds, InvOneLive, PTL

(* Whoever is told of a request asked for exactly it, behind the gate that *)
(* the policy sets for the facts it stands for.                            *)
THEOREM AnswersMatchTheAsked == Spec => []AnsweredAsAsked
<1>1. IInv => AnsweredAsAsked
  BY DEF IInv
<1> QED BY <1>1, InvariantHolds, PTL

(* What a step may not do to a row that stands for a request.              *)
SparesDispatched(q) ==
    row[q].state # "none" =>
       /\ row'[q].fingerprint = row[q].fingerprint
       /\ row[q].state \in EndStates => row'[q].state = row[q].state
       /\ row[q].state \in Dispatched => row'[q].state # "expired"

LEMMA MovedSpares ==
  ASSUME TypeOK, NEW p \in Handlers, Moved(p), NEW q \in Handlers
  PROVE  SparesDispatched(q)
<1>1. row[p].state \notin EndStates /\ (row'[p].state = "expired" => row[p].state \notin Dispatched)
  BY DEF Moved, Active, ActiveStates, Undispatched, Dispatched, EndStates
<1> QED BY <1>1 DEF Moved, SparesDispatched, Dispatched

LEMMA InsertedSpares ==
  ASSUME IInv, NEW h \in Handlers, pc[h] = "insert", Inserted(h), NEW q \in Handlers
  PROVE  SparesDispatched(q)
<1>1. /\ row[h].state = "none" /\ TypeOK
      /\ \A p \in priors[h] : row[p].state \in Undispatched
  BY DEF IInv, HandlersInv, HandlerInv
<1>2. CASE q \in priors[h]
  BY <1>1, <1>2, InsertedEffect
  DEF SparesDispatched, RowsPersist, Undispatched, EndStates, Dispatched
<1>3. CASE q \notin priors[h] /\ q # h
  <2>1. row'[q] = row[q]
    BY <1>3 DEF Inserted, Superseded
  <2> QED BY <2>1 DEF SparesDispatched, Dispatched
<1>4. CASE q = h
  BY <1>1, <1>4 DEF SparesDispatched
<1> QED BY <1>2, <1>3, <1>4

LEMMA StepSpares ==
  ASSUME IInv, [Next]_vars, NEW q \in Handlers
  PROVE  SparesDispatched(q)
<1>1. TypeOK
  BY DEF IInv
<1>2. CASE row' = row
  BY <1>2 DEF SparesDispatched, Dispatched
<1>3. ASSUME NEW h \in Handlers, Propose(h) PROVE SparesDispatched(q)
  BY <1>1, <1>2, <1>3, ProposeEffect, MovedSpares, InsertedSpares
<1>4. ASSUME NEW p \in Handlers, Advance(p) PROVE SparesDispatched(q)
  BY <1>1, <1>4, AdvanceEffect, MovedSpares
<1> QED BY <1>2, <1>3, <1>4 DEF Next, FallDue, ChangeFacts, vars

(* A correction neither revives a request that has ended nor ends one that *)
(* was dispatched, and what a request stands for never changes.            *)
THEOREM DispatchedAreSpared == Spec => CorrectionsSpareTheDispatched
<1>1. IInv /\ [Next]_vars =>
        [\A q \in Handlers : row[q].state # "none" =>
           /\ row'[q].fingerprint = row[q].fingerprint
           /\ row[q].state \in EndStates => row'[q].state = row[q].state
           /\ row[q].state \in Dispatched => row'[q].state # "expired"]_vars
  BY StepSpares DEF SparesDispatched
<1> QED BY <1>1, InvariantHolds, PTL DEF Spec, CorrectionsSpareTheDispatched

-----------------------------------------------------------------------------
(* What the situations of each kind are made of.                           *)
LEMMA CancellationTyped ==
    ASSUME NEW s \in Cancellations
    PROVE  /\ s.kind = "cancel" /\ s.order \in OrderStatus \cup {"missing"}
           /\ s.shipment \in ShipmentStatus \cup {"none"}
  BY DEF Cancellations, Orders, Situation

LEMMA ReschedulingTyped ==
    ASSUME NEW s \in Reschedulings
    PROVE  /\ s.kind = "reschedule" /\ s.today \in Days
           /\ s.order \in OrderStatus \cup {"missing"}
           /\ s.shipment \in ShipmentStatus \cup {"none"}
           /\ s.booked \in {"asked", "other", "none"}
           /\ s.slot.day \in SlotDays \cup {Missing} /\ s.slot.room \in BOOLEAN
<1>1. PICK r \in Orders("reschedule"), b \in {"asked", "other", "none"}, t \in Slot :
          s = ForSlot(r, b, t)
  BY DEF Reschedulings
<1>2. /\ r = [kind |-> r.kind, today |-> r.today, order |-> r.order,
              shipment |-> r.shipment, booked |-> r.booked, slot |-> r.slot,
              delivered |-> r.delivered, item |-> r.item, money |-> r.money,
              currency |-> r.currency]
      /\ r.kind = "reschedule" /\ r.today \in Days
      /\ r.order \in OrderStatus \cup {"missing"}
      /\ r.shipment \in ShipmentStatus \cup {"none"}
  BY DEF Orders, Situation
<1>3. /\ s.kind = r.kind /\ s.today = r.today /\ s.order = r.order
      /\ s.shipment = r.shipment /\ s.booked = b /\ s.slot = t
  BY <1>1, <1>2 DEF ForSlot
<1> QED BY <1>2, <1>3 DEF Slot

LEMMA ReturnTyped ==
    ASSUME NEW s \in Returns
    PROVE  /\ s.kind = "return" /\ s.today \in Days
           /\ s.order \in OrderStatus \cup {"missing"}
           /\ s.shipment \in ShipmentStatus \cup {"none"}
           /\ s.delivered \in DeliveryDays \cup {Missing}
           /\ s.item.bought \in Quantities \cup {0} /\ s.item.asked \in Quantities
           /\ s.item.returned \in Quantities \cup {0}
<1>1. PICK r \in Orders("return"), d \in DeliveryDays \cup {Missing}, i \in Item :
          s = ForItem(r, d, i)
  BY DEF Returns
<1>2. /\ r = [kind |-> r.kind, today |-> r.today, order |-> r.order,
              shipment |-> r.shipment, booked |-> r.booked, slot |-> r.slot,
              delivered |-> r.delivered, item |-> r.item, money |-> r.money,
              currency |-> r.currency]
      /\ r.kind = "return" /\ r.today \in Days
      /\ r.order \in OrderStatus \cup {"missing"}
      /\ r.shipment \in ShipmentStatus \cup {"none"}
  BY DEF Orders, Situation
<1>3. /\ s.kind = r.kind /\ s.today = r.today /\ s.order = r.order
      /\ s.shipment = r.shipment /\ s.delivered = d /\ s.item = i
  BY <1>1, <1>2 DEF ForItem
<1> QED BY <1>2, <1>3 DEF Item

LEMMA RefundTyped ==
    ASSUME NEW s \in Refunds
    PROVE  /\ s.kind = "refund" /\ s.order \in OrderStatus \cup {"missing"}
           /\ s.currency \in BOOLEAN
           /\ s.money.total \in Amounts /\ s.money.asked \in Amounts
           /\ s.money.refunded \in Amounts \cup {0}
<1>1. PICK r \in Orders("refund"), c \in BOOLEAN, m \in Money :
          s = ForMoney(r, m, c)
  BY DEF Refunds
<1>2. /\ r = [kind |-> r.kind, today |-> r.today, order |-> r.order,
              shipment |-> r.shipment, booked |-> r.booked, slot |-> r.slot,
              delivered |-> r.delivered, item |-> r.item, money |-> r.money,
              currency |-> r.currency]
      /\ r.kind = "refund" /\ r.order \in OrderStatus \cup {"missing"}
  BY DEF Orders, Situation
<1>3. /\ s.kind = r.kind /\ s.order = r.order /\ s.money = m /\ s.currency = c
  BY <1>1, <1>2 DEF ForMoney
<1> QED BY <1>2, <1>3 DEF Money

LEMMA TicketTyped ==
    ASSUME NEW s \in Tickets
    PROVE  /\ s.kind = "ticket" /\ s.order \in OrderStatus \cup {"missing"}
           /\ s.booked \in {"other", "none"}
<1>1. PICK r \in Orders("ticket"), b \in {"other", "none"} : s = [r EXCEPT !.booked = b]
  BY DEF Tickets
<1>2. /\ r = [kind |-> r.kind, today |-> r.today, order |-> r.order,
              shipment |-> r.shipment, booked |-> r.booked, slot |-> r.slot,
              delivered |-> r.delivered, item |-> r.item, money |-> r.money,
              currency |-> r.currency]
      /\ r.kind = "ticket" /\ r.order \in OrderStatus \cup {"missing"}
  BY DEF Orders, Situation
<1>3. s.kind = r.kind /\ s.order = r.order /\ s.booked = b
  BY <1>1, <1>2
<1> QED BY <1>2, <1>3

-----------------------------------------------------------------------------
(* The gates of each kind: only cancellations and refunds need approval.   *)
LEMMA DecisionByKind ==
    ASSUME NEW s
    PROVE  /\ s.kind = "cancel" =>
                  Decision(s) = IF ~PreflightCancellation(s) THEN "policy_denied"
                                ELSE IF s.order = "processing" \/ s.shipment = "label_created"
                                     THEN "awaiting_approval" ELSE "awaiting_confirmation"
           /\ s.kind = "reschedule" =>
                  Decision(s) = IF ~PreflightReschedule(s) THEN "policy_denied"
                                ELSE "awaiting_confirmation"
           /\ s.kind = "return" =>
                  Decision(s) = IF ~PreflightReturn(s) THEN "policy_denied"
                                ELSE "awaiting_confirmation"
           /\ s.kind = "refund" =>
                  Decision(s) = IF ~PreflightRefund(s) \/ ~s.currency THEN "policy_denied"
                                ELSE IF s.money.asked > 500
                                     THEN "awaiting_approval" ELSE "awaiting_confirmation"
           /\ s.kind = "ticket" =>
                  Decision(s) = IF ~PreflightTicket(s) THEN "policy_denied"
                                ELSE "awaiting_confirmation"
<1>1. CASE s.kind = "cancel"
  BY <1>1 DEF Decision, ApprovalRequired, Eligible
<1>2. CASE s.kind = "reschedule"
  BY <1>2 DEF Decision, ApprovalRequired, Eligible
<1>3. CASE s.kind = "return"
  BY <1>3 DEF Decision, ApprovalRequired, Eligible
<1>4. CASE s.kind = "refund"
  BY <1>4 DEF Decision, ApprovalRequired, Eligible
<1>5. CASE s.kind = "ticket"
  BY <1>5 DEF Decision, ApprovalRequired, Eligible
<1> QED BY <1>1, <1>2, <1>3, <1>4, <1>5

(* A write that leaves a resource behind leaves the order as it was.       *)
LEMMA MadeVerifies ==
    \A s :
        /\ s.kind \in {"return", "refund", "ticket"}
        /\ s.kind = "refund" => (s.money.asked > 500 <=> Decision(s) = "awaiting_approval")
        => VerifyPostcondition(s.kind, After(s), TRUE, Decision(s)) = "verified"
<1> TAKE s
<1> HAVE /\ s.kind \in {"return", "refund", "ticket"}
         /\ s.kind = "refund" =>
                (s.money.asked > 500 <=> Decision(s) = "awaiting_approval")
<1> DEFINE gate == Decision(s)
           w == After(s)
           before == Before(s)
<1>1. w = [before EXCEPT !.made = Resource(s)]
  BY DEF After
<1>2. before = [order |-> s.order, shipment |-> s.shipment, booked |-> s.booked,
                made |-> NoResource]
  BY DEF Before
<1> HIDE DEF before, w
<1>3. w.made = Resource(s)
  BY <1>1, <1>2
<1>4. CASE s.kind = "return"
  <2>1. Resource(s) = [status |-> "requested", manual |-> FALSE]
    BY <1>4 DEF Resource
  <2>2. VerifyReturn(w, TRUE) = "verified"
    BY <1>3, <2>1 DEF VerifyReturn, NoResource
  <2> QED BY <1>4, <2>2 DEF VerifyPostcondition, w
<1>5. CASE s.kind = "ticket"
  <2>1. Resource(s) = [status |-> "open", manual |-> FALSE]
    BY <1>5 DEF Resource
  <2>2. VerifyTicket(w, TRUE) = "verified"
    BY <1>3, <2>1 DEF VerifyTicket, NoResource
  <2> QED BY <1>5, <2>2 DEF VerifyPostcondition, w
<1>6. CASE s.kind = "refund"
  <2>1. Resource(s) = [status |-> "approved", manual |-> NeedsApproval(s.money.asked)]
    BY <1>6 DEF Resource
  <2>2. /\ w.made # NoResource /\ w.made.status = "approved"
        /\ w.made.manual <=> gate = "awaiting_approval"
    <3>1. NeedsApproval(s.money.asked) <=> gate = "awaiting_approval"
      BY <1>6 DEF NeedsApproval
    <3> QED BY <1>3, <2>1, <3>1 DEF NoResource
  <2>3. VerifyRefund(w, TRUE, gate) = "verified"
    BY <2>2 DEF VerifyRefund
  <2> QED BY <1>6, <2>3 DEF VerifyPostcondition, w
<1> QED BY <1>4, <1>5, <1>6

-----------------------------------------------------------------------------
(* What VerbaOps allows NovaCommerce carries out, what it denies it would  *)
(* refuse, kind by kind.                                                   *)
LEMMA CancellationFits ==
    ASSUME NEW s \in Cancellations
    PROVE  Fits(s)
<1> DEFINE gate == Decision(s)
           w == After(s)
           before == Before(s)
<1>1. /\ s.kind = "cancel"
      /\ gate = IF ~PreflightCancellation(s) THEN "policy_denied"
                ELSE IF s.order = "processing" \/ s.shipment = "label_created"
                     THEN "awaiting_approval" ELSE "awaiting_confirmation"
  BY CancellationTyped, DecisionByKind
<1>2. Accepts(s, TRUE) = CancellationAllowed(s)
      /\ Accepts(s, ApprovalReference(gate)) = CancellationAllowed(s)
  BY <1>1 DEF Accepts
<1>3. CancellationAllowed(s) <=> PreflightCancellation(s)
  BY DEF CancellationAllowed, PreflightCancellation, CancellableOrders, CancellableShipments
<1>4. Allowed(s) <=> PreflightCancellation(s)
  BY <1>1 DEF Allowed
<1> HIDE DEF gate
<1>5. \A answered : VerifyPostcondition(s.kind, After(s), answered, gate) = "verified"
  <2>1. w = [before EXCEPT !.order = "cancelled",
                           !.shipment = IF @ = "none" THEN "none" ELSE "cancelled"]
    BY <1>1 DEF After
  <2>2. before = [order |-> s.order, shipment |-> s.shipment, booked |-> s.booked,
                  made |-> NoResource]
    BY DEF Before
  <2> HIDE DEF before, w
  <2>3. w.order = "cancelled" /\ w.shipment \in {"none", "cancelled"}
    BY <2>1, <2>2
  <2>4. VerifyCancel(w) = "verified"
    BY <2>3 DEF VerifyCancel
  <2> QED BY <1>1, <2>4 DEF VerifyPostcondition, w
<1>6. CASE Allowed(s)
  <2>1. CarriedOut(s)
    BY <1>1, <1>2, <1>3, <1>4, <1>5, <1>6 DEF CarriedOut, gate
  <2> QED BY <1>6, <2>1 DEF Fits
<1>7. CASE ~Allowed(s)
  BY <1>2, <1>3, <1>4, <1>7 DEF Fits, Impossible
<1> QED BY <1>6, <1>7

LEMMA ReschedulingFits ==
    ASSUME NEW s \in Reschedulings
    PROVE  Fits(s)
<1> DEFINE gate == Decision(s)
           w == After(s)
           before == Before(s)
<1>1. /\ s.kind = "reschedule"
      /\ gate = IF ~PreflightReschedule(s) THEN "policy_denied" ELSE "awaiting_confirmation"
  BY ReschedulingTyped, DecisionByKind
<1>2. Accepts(s, TRUE) = RescheduleAllowed(s)
      /\ Accepts(s, ApprovalReference(gate)) = RescheduleAllowed(s)
  BY <1>1 DEF Accepts
<1>3. Listed(s) => s.slot.day # Missing /\ s.slot.day >= s.today /\ s.slot.room
  <2>1. s.today \in Nat
    BY ReschedulingTyped, FactsAssumption
  <2>2. s.slot.day \in Nat \cup {-1}
    BY ReschedulingTyped, FactsAssumption DEF Missing
  <2> QED BY <2>1, <2>2 DEF Listed, DeliveryDateRange, Missing
<1>4. PreflightReschedule(s) => RescheduleAllowed(s)
  BY <1>3 DEF PreflightReschedule, RescheduleAllowed, ReschedulableOrders,
              ReschedulableShipments
<1>5. ~PreflightReschedule(s) => ~RescheduleAllowed(s) \/ ~Listed(s)
  BY DEF PreflightReschedule, RescheduleAllowed, ReschedulableOrders,
         ReschedulableShipments, Shipped, Found
<1>6. Allowed(s) <=> PreflightReschedule(s)
  BY <1>1 DEF Allowed
<1> HIDE DEF gate
<1>7. PreflightReschedule(s) =>
         \A answered : VerifyPostcondition(s.kind, After(s), answered, gate) = "verified"
  <2>1. w = [before EXCEPT !.booked = "asked"]
    BY <1>1 DEF After
  <2>2. before = [order |-> s.order, shipment |-> s.shipment, booked |-> s.booked,
                  made |-> NoResource]
    BY DEF Before
  <2> HIDE DEF before, w
  <2>3. w.order = s.order /\ w.shipment = s.shipment /\ w.booked = "asked"
    BY <2>1, <2>2
  <2>4. PreflightReschedule(s) => VerifyReschedule(w) = "verified"
    BY <2>3 DEF VerifyReschedule, PreflightReschedule, Shipped, Found
  <2> QED BY <1>1, <2>4 DEF VerifyPostcondition, w
<1>8. CASE Allowed(s)
  <2>1. CarriedOut(s)
    BY <1>1, <1>2, <1>4, <1>6, <1>7, <1>8 DEF CarriedOut, gate
  <2> QED BY <1>8, <2>1 DEF Fits
<1>9. CASE ~Allowed(s)
  BY <1>1, <1>2, <1>5, <1>6, <1>9 DEF Fits, Impossible
<1> QED BY <1>8, <1>9

LEMMA ReturnFits ==
    ASSUME NEW s \in Returns, Possible(s)
    PROVE  Fits(s)
<1> DEFINE gate == Decision(s)
<1>1. /\ s.kind = "return"
      /\ gate = IF ~PreflightReturn(s) THEN "policy_denied" ELSE "awaiting_confirmation"
  BY ReturnTyped, DecisionByKind
<1>2. Accepts(s, TRUE) = ReturnAllowed(s)
      /\ Accepts(s, ApprovalReference(gate)) = ReturnAllowed(s)
  BY <1>1 DEF Accepts
<1>3. /\ s.today \in Nat /\ s.delivered \in Int /\ s.delivered <= s.today
      /\ s.item.bought \in Nat /\ s.item.returned \in Nat
      /\ s.item.asked \in Nat /\ s.item.asked > 0
  <2>1. s.today \in Nat /\ s.delivered \in Nat \cup {-1}
    BY ReturnTyped, FactsAssumption DEF Missing
  <2>2. s.item.bought \in Nat /\ s.item.returned \in Nat /\ s.item.asked \in Nat \ {0}
    <3>1. /\ s.item.bought \in Quantities \cup {0}
          /\ s.item.returned \in Quantities \cup {0} /\ s.item.asked \in Quantities
      BY ReturnTyped
    <3>2. \A q \in Quantities : q \in Nat /\ q \in Nat \ {0}
      BY FactsAssumption
    <3> QED BY <3>1, <3>2
  <2> QED BY <2>1, <2>2 DEF Possible
<1>4. PreflightReturn(s) /\ ~(s.item.returned > 0) => ReturnAllowed(s)
  BY <1>3 DEF PreflightReturn, ReturnAllowed
<1>5. ReturnAllowed(s) => PreflightReturn(s)
  BY <1>3 DEF PreflightReturn, ReturnAllowed, Shipped, Found
<1>6. Allowed(s) <=> PreflightReturn(s)
  BY <1>1 DEF Allowed
<1>7. VerifyPostcondition(s.kind, After(s), TRUE, gate) = "verified"
  <2>1. s.kind \in {"return", "refund", "ticket"} /\ s.kind # "refund"
    BY <1>1
  <2> QED BY <2>1, MadeVerifies, Zenon
<1> HIDE DEF gate
<1>8. CASE Allowed(s)
  <2>1. CarriedOut(s)
    BY <1>1, <1>2, <1>4, <1>6, <1>7, <1>8 DEF CarriedOut, gate
  <2> QED BY <1>8, <2>1 DEF Fits
<1>9. CASE ~Allowed(s)
  BY <1>2, <1>5, <1>6, <1>9 DEF Fits, Impossible
<1> QED BY <1>8, <1>9

LEMMA RefundFits ==
    ASSUME NEW s \in Refunds
    PROVE  Fits(s)
<1> DEFINE gate == Decision(s)
<1>1. /\ s.kind = "refund"
      /\ gate = IF ~PreflightRefund(s) \/ ~s.currency THEN "policy_denied"
                ELSE IF s.money.asked > 500
                     THEN "awaiting_approval" ELSE "awaiting_confirmation"
  BY RefundTyped, DecisionByKind
<1>2. /\ Accepts(s, TRUE) = RefundAllowed(s, TRUE)
      /\ Accepts(s, ApprovalReference(gate)) = RefundAllowed(s, ApprovalReference(gate))
  BY <1>1 DEF Accepts
<1>3. Allowed(s) <=> PreflightRefund(s) /\ s.currency
  BY <1>1, RefundTyped DEF Allowed
<1>4. Allowed(s) => (NeedsApproval(s.money.asked) <=> gate = "awaiting_approval")
  BY <1>1, <1>3 DEF NeedsApproval
<1>5. Allowed(s) => RefundAllowed(s, ApprovalReference(gate))
  BY <1>3, <1>4 DEF RefundAllowed, PreflightRefund, ApprovalReference
<1>6. RefundAllowed(s, TRUE) => Allowed(s)
  BY <1>3 DEF RefundAllowed, PreflightRefund
<1>7. Allowed(s) => VerifyPostcondition(s.kind, After(s), TRUE, gate) = "verified"
  <2>1. s.kind \in {"return", "refund", "ticket"}
    BY <1>1
  <2>2. Allowed(s) => (s.money.asked > 500 <=> Decision(s) = "awaiting_approval")
    BY <1>4 DEF NeedsApproval
  <2> QED BY <2>1, <2>2, MadeVerifies, Zenon
<1> HIDE DEF gate
<1>8. CASE Allowed(s)
  <2>1. CarriedOut(s)
    BY <1>1, <1>2, <1>5, <1>7, <1>8 DEF CarriedOut, gate
  <2> QED BY <1>8, <2>1 DEF Fits
<1>9. CASE ~Allowed(s)
  BY <1>2, <1>6, <1>9 DEF Fits, Impossible
<1> QED BY <1>8, <1>9

LEMMA TicketFits ==
    ASSUME NEW s \in Tickets
    PROVE  Fits(s)
<1> DEFINE gate == Decision(s)
<1>1. /\ s.kind = "ticket"
      /\ gate = IF ~PreflightTicket(s) THEN "policy_denied" ELSE "awaiting_confirmation"
  BY TicketTyped, DecisionByKind
<1>2. Accepts(s, TRUE) = TicketAllowed(s)
      /\ Accepts(s, ApprovalReference(gate)) = TicketAllowed(s)
  BY <1>1 DEF Accepts
<1>3. TicketAllowed(s) <=> PreflightTicket(s)
  BY DEF TicketAllowed, PreflightTicket
<1>4. Allowed(s) <=> PreflightTicket(s)
  BY <1>1 DEF Allowed
<1>5. VerifyPostcondition(s.kind, After(s), TRUE, gate) = "verified"
  <2>1. s.kind \in {"return", "refund", "ticket"} /\ s.kind # "refund"
    BY <1>1
  <2> QED BY <2>1, MadeVerifies, Zenon
<1> HIDE DEF gate
<1>6. CASE Allowed(s)
  <2>1. CarriedOut(s)
    BY <1>1, <1>2, <1>3, <1>4, <1>5, <1>6 DEF CarriedOut, gate
  <2> QED BY <1>6, <2>1 DEF Fits
<1>7. CASE ~Allowed(s)
  BY <1>2, <1>3, <1>4, <1>7 DEF Fits, Impossible
<1> QED BY <1>6, <1>7

LEMMA NoDecisionIsUnfit == UnfitDecisions = {}
  BY CancellationFits, ReschedulingFits, ReturnFits, RefundFits, TicketFits
     DEF UnfitDecisions, Situations

(* The policy of VerbaOps and the rules of NovaCommerce agree on every     *)
(* situation, whatever the days, the quantities and the amounts are: what  *)
(* the policy allows is carried out behind exactly the gates that it asks  *)
(* for, and what it denies would have been refused.                        *)
THEOREM PolicyAlwaysFits == Spec => []PolicyFitsCommerce
<1>1. PolicyFitsCommerce
  BY NoDecisionIsUnfit DEF PolicyFitsCommerce
<1> QED BY <1>1, PTL

-----------------------------------------------------------------------------
(* What the decision on an allowed action looks at is in its fingerprint.  *)
LEMMA FingerprintFixesGate ==
    ASSUME NEW s \in Situations, NEW t \in Situations, Allowed(s), Allowed(t),
           Fingerprint(s) = Fingerprint(t)
    PROVE  Decision(s) = Decision(t)
<1>1. ASSUME NEW u \in Situations
      PROVE  /\ u \in Cancellations \cup Reschedulings \cup Returns \cup Refunds \cup Tickets
             /\ u.kind = "cancel" => u \in Cancellations
             /\ u.kind = "refund" => u \in Refunds
             /\ u.kind \in {"cancel", "reschedule", "return", "refund", "ticket"}
  BY CancellationTyped, ReschedulingTyped, ReturnTyped, RefundTyped, TicketTyped
     DEF Situations
<1>2. /\ Fingerprint(s).kind = s.kind /\ Fingerprint(t).kind = t.kind
      /\ Fingerprint(s).amount = s.money.asked /\ Fingerprint(t).amount = t.money.asked
      /\ Fingerprint(s).material = Material(s) /\ Fingerprint(t).material = Material(t)
  BY DEF Fingerprint
<1>3. /\ s.kind = t.kind /\ s.money.asked = t.money.asked /\ Material(s) = Material(t)
  BY <1>2
<1>4. CASE s.kind = "cancel"
  <2>1. ASSUME NEW u \in Situations, u.kind = "cancel", Allowed(u)
        PROVE  Material(u) = [order |-> u.order, shipment |-> u.shipment]
    <3>1. PreflightCancellation(u)
      BY <2>1, DecisionByKind DEF Allowed
    <3>2. Found(u)
      BY <3>1 DEF Found, PreflightCancellation, CancellableOrders
    <3> QED BY <2>1, <3>2 DEF Material
  <2>2. s.order = t.order /\ s.shipment = t.shipment
    <3>1. [order |-> s.order, shipment |-> s.shipment]
              = [order |-> t.order, shipment |-> t.shipment]
      BY <1>3, <1>4, <2>1
    <3> QED BY <3>1
  <2>3. ASSUME NEW u \in Situations, u.kind = "cancel", Allowed(u)
        PROVE  Decision(u) = IF u.order = "processing" \/ u.shipment = "label_created"
                             THEN "awaiting_approval" ELSE "awaiting_confirmation"
    BY <2>3, DecisionByKind DEF Allowed
  <2>4. /\ Decision(s) = IF s.order = "processing" \/ s.shipment = "label_created"
                         THEN "awaiting_approval" ELSE "awaiting_confirmation"
        /\ Decision(t) = IF t.order = "processing" \/ t.shipment = "label_created"
                         THEN "awaiting_approval" ELSE "awaiting_confirmation"
    BY <1>3, <1>4, <2>3
  <2> QED BY <2>2, <2>4
<1>5. CASE s.kind = "refund"
  <2>1. ASSUME NEW u \in Situations, u.kind = "refund", Allowed(u)
        PROVE  Decision(u) = IF u.money.asked > 500
                             THEN "awaiting_approval" ELSE "awaiting_confirmation"
    BY <2>1, DecisionByKind DEF Allowed
  <2>2. /\ Decision(s) = IF s.money.asked > 500
                         THEN "awaiting_approval" ELSE "awaiting_confirmation"
        /\ Decision(t) = IF t.money.asked > 500
                         THEN "awaiting_approval" ELSE "awaiting_confirmation"
    BY <1>3, <1>5, <2>1
  <2> QED BY <1>3, <2>2
<1>6. CASE s.kind \in {"reschedule", "return", "ticket"}
  <2>1. ASSUME NEW u \in Situations, Allowed(u),
               u.kind \in {"reschedule", "return", "ticket"}
        PROVE  Decision(u) = "awaiting_confirmation"
    BY <2>1, DecisionByKind DEF Allowed
  <2> QED BY <1>3, <1>6, <2>1
<1>7. s.kind \in {"cancel", "reschedule", "return", "refund", "ticket"}
  BY <1>1
<1> QED BY <1>4, <1>5, <1>6, <1>7

LEMMA NoDecisionIsAmbiguous == AmbiguousDecisions = {}
<1> SUFFICES ASSUME NEW g \in Gated, <<g[1], OtherGate(g[2])>> \in Gated
             PROVE  FALSE
  BY DEF AmbiguousDecisions
<1>1. PICK s \in Situations : Allowed(s) /\ g = <<Fingerprint(s), Decision(s)>>
  BY DEF Gated
<1>2. PICK t \in Situations :
          Allowed(t) /\ <<g[1], OtherGate(g[2])>> = <<Fingerprint(t), Decision(t)>>
  BY DEF Gated
<1>3. Fingerprint(s) = Fingerprint(t) /\ OtherGate(Decision(s)) = Decision(t)
  BY <1>1, <1>2
<1>4. Decision(s) = Decision(t)
  BY <1>1, <1>2, <1>3, FingerprintFixesGate
<1> QED BY <1>3, <1>4 DEF OtherGate

(* Situations with one fingerprint never ask for different gates, whatever *)
(* day each proposal was made on: handlers that are answered with the same *)
(* row need the same human decisions.                                      *)
THEOREM FingerprintsTellGates == Spec => []FingerprintTellsGate
<1>1. FingerprintTellsGate
  BY NoDecisionIsAmbiguous DEF FingerprintTellsGate
<1> QED BY <1>1, PTL
=============================================================================
