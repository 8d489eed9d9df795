------------------------ MODULE EvaluatedAgentProofs ------------------------
(***************************************************************************)
(* The evaluation campaigns, for datasets of any size and any number of    *)
(* turns and commits: the answers of the turns, the results of both        *)
(* runners, and the revision a grounded run measures.                      *)
(***************************************************************************)
EXTENDS AgentTurnProofs, FiniteSetTheorems, WellFoundedInduction, SequenceTheorems

\* The numbers of the turns stay in the bound; what an evaluation holds is
\* what the database has of its run.
Distinct(results) == \A a, b \in results : a.case = b.case => a = b

BaselineInv ==
    /\ runner \in {"off", "ready", "waiting", "observed", "completed",
                  "exporting", "exported"}
    /\ observed \in BOOLEAN /\ resume \in BOOLEAN /\ partial \in BOOLEAN
    /\ runner = "exporting" =>
           Cases(rows) = CaseIds /\ Cardinality(rows) = CaseCount
    /\ campaign \in {"baseline", "grounded"}
    /\ runner # "off" => campaign = "baseline"
    /\ known = IF runner = "off" THEN {} ELSE rows
    /\ rows \subseteq Result /\ IsFiniteSet(rows) /\ Distinct(rows)
    /\ row \in {NoRow, Summary("running", rows), Interruption(rows),
                Summary("completed", rows)}
    /\ row.status = "completed" => Cases(rows) = CaseIds
    /\ runner \in {"waiting", "observed"} => Remaining # {}
    /\ runner = "observed" /\ observed =>
           turn.at = "completed" /\ turn.ran <= IF turn.answer = "fallback" THEN 0 ELSE 1
    /\ \A published \in {bundle, baseline} \ {None} :
           /\ published \subseteq Result
           /\ Cases(published) = CaseIds /\ Cardinality(published) = CaseCount

\* The process that measures was launched from one commit, and the records of a run
\* that no defective harness wrote are all under the identity in the sidecar.
Own(r) == r.by # Defective
Measures(tree) ==
    tree \in Commits /\ IF Traced THEN tree \in passed ELSE ~Drifted(tree)

ProvenanceInv ==
    /\ history \in Commits /\ passed \subseteq Commits /\ edited \in BOOLEAN
    /\ launched \in Commits \cup {Nothing}
    /\ bound \in Identities
    /\ harness \in Running =>
           /\ Measures(launched) /\ bound = IdentityOf(launched)
           /\ \A r \in checkpoint : r.under = bound
    /\ harness \in Correcting => launched \in Commits /\ \A r \in checkpoint : ~Own(r)
    /\ \A r \in checkpoint :
           /\ Own(r) => Measures(r.by) /\ r.under = IdentityOf(r.by) /\ r.under = bound
           /\ Traced => Own(r)

\* Each record is of a case and of a turn of its own.
RecordsInv ==
    /\ harness \in {"off"} \cup Running \cup Correcting
    /\ campaign = "baseline" => harness = "off" /\ closeouts = {}
    /\ checkpoint \subseteq Record /\ IsFiniteSet(checkpoint)
    /\ torn \in BOOLEAN /\ report \in BOOLEAN /\ corrected \in BOOLEAN
    /\ turn.id <= MaxTurns
    /\ \A r, s \in checkpoint : r.case = s.case \/ r.turn = s.turn => r = s
    /\ \A r \in checkpoint : r.turn <= turn.id /\ (Traced => r.turn \in sidecars)
    /\ harness \in {"waiting", "answered"} =>
           Pending # {} /\ \A r \in checkpoint : r.turn < turn.id
    /\ harness = "answered" => turn.at = "completed"
    /\ harness = "scored" => Pending = {} /\ report
    /\ summary \in [status : {"none", "interrupted", "complete"},
                    of : SUBSET (CaseIds \X (0 .. MaxTurns))]
    /\ summary.status = "complete" =>
           Recorded = CaseIds /\ summary.of = Observations(checkpoint) /\ report

\* A run is closed by the last step that touches its evidence.
ClosedInv ==
    closeouts # {} =>
        /\ Traced /\ harness = "off" /\ TurnOver /\ campaign = "grounded"
        /\ CloseoutHolds
        /\ closeouts = {[records |-> checkpoint, sidecars |-> sidecars]}

CampaignInv == TurnInv /\ BaselineInv /\ ProvenanceInv /\ RecordsInv /\ ClosedInv

-----------------------------------------------------------------------------
\* A set of numbers has a least one, and one with a bound a greatest.
LEMMA LeastExists ==
    ASSUME NEW S \in SUBSET Nat, S # {}
    PROVE  Min(S) \in S /\ \A x \in S : Min(S) <= x
<1> DEFINE R == {pair \in Nat \X Nat : pair[1] < pair[2]}
<1>1. IsWellFoundedOn(R, Nat)
  BY NatLessThanWellFounded, Zenon DEF OpToRel
<1>2. ASSUME NEW x \in Nat, NEW y \in Nat, <<y, x>> \notin R PROVE x <= y
  BY <1>2
<1> HIDE DEF R
<1>3. \E x \in S : \A y \in S : <<y, x>> \notin R
  BY <1>1, WFMin
<1> QED BY <1>2, <1>3 DEF Min

LEMMA GreatestExists ==
    ASSUME NEW n \in Nat, NEW S \in SUBSET (0 .. n), S # {}
    PROVE  Max(S) \in S
<1> DEFINE below == {m \in 0 .. n : n - m \in S}
<1>1. \A x \in S : x \in 0 .. n /\ n - x \in 0 .. n /\ n - (n - x) = x
  OBVIOUS
<1>2. below \in SUBSET Nat /\ below # {}
  <2>1. PICK x \in S : TRUE
    OBVIOUS
  <2>2. n - x \in below
    BY <1>1, <2>1
  <2>3. below \subseteq 0 .. n
    OBVIOUS
  <2>4. 0 .. n \subseteq Nat
    OBVIOUS
  <2> HIDE DEF below
  <2> QED BY <2>2, <2>3, <2>4
<1>3. \E m \in below : \A k \in below : m <= k
  BY <1>2, LeastExists
<1>4. \E x \in S : \A y \in S : x >= y
  BY <1>1, <1>3
<1> QED BY <1>4 DEF Max

\* There is a next case as long as one is left, and it is one of those.
LEMMA NextCaseIsLeft ==
    ASSUME NEW done, CaseIds \ done # {}
    PROVE  NextCase(done) \in CaseIds \ done
<1>1. CaseIds \ done \in SUBSET Nat
  BY CorpusAssumption DEF CaseIds
<1> QED BY <1>1, LeastExists DEF NextCase

LEMMA SequenceIsFunction ==
    ASSUME NEW S, NEW seq \in Seq(S)
    PROVE  seq \in [1 .. Len(seq) -> S]
  OBVIOUS

\* The path from one revision to another is a sequence of kinds of change.
LEMMA CommitsTyped ==
    /\ Canonical \in Commits
    /\ Nothing \notin Commits /\ Defective \notin Commits
    /\ \A c \in Commits : /\ Len(c) \in 0 .. MaxCommits
                          /\ c \in [1 .. Len(c) -> Kinds]
    /\ \A c \in Commits, kind \in Kinds :
           Len(c) < MaxCommits => Append(c, kind) \in Commits
<1>1. Canonical \in Commits
  <2>1. <<>> \in [1 .. 0 -> Kinds] /\ 0 \in 0 .. MaxCommits
    BY CommitAssumption
  <2> QED BY <2>1 DEF Commits, Canonical
<1>2. ASSUME NEW n \in 0 .. MaxCommits, NEW c \in [1 .. n -> Kinds]
      PROVE  /\ c # <<"nothing">> /\ c # <<"defective">> /\ Len(c) = n /\ c \in Seq(Kinds)
  BY DEF Kinds
<1>3. ASSUME NEW n \in 0 .. MaxCommits, NEW c \in [1 .. n -> Kinds], NEW kind \in Kinds,
             Len(c) < MaxCommits
      PROVE  n + 1 \in 0 .. MaxCommits /\ Append(c, kind) \in [1 .. (n + 1) -> Kinds]
  <2>1. Len(c) = n /\ c \in Seq(Kinds)
    BY <1>2
  <2>2. Append(c, kind) \in Seq(Kinds) /\ Len(Append(c, kind)) = n + 1
    BY <2>1
  <2>3. n + 1 \in 0 .. MaxCommits
    BY <1>3, <2>1, CommitAssumption
  <2> QED BY <2>2, <2>3, SequenceIsFunction
<1>4. ASSUME NEW c \in Commits
      PROVE  /\ c # <<"nothing">> /\ c # <<"defective">>
             /\ Len(c) \in 0 .. MaxCommits /\ c \in [1 .. Len(c) -> Kinds]
             /\ \A kind \in Kinds : Len(c) < MaxCommits => Append(c, kind) \in Commits
  <2>1. PICK n \in 0 .. MaxCommits : c \in [1 .. n -> Kinds]
    BY DEF Commits
  <2>2. /\ c # <<"nothing">> /\ c # <<"defective">> /\ Len(c) = n
    BY <1>2, <2>1
  <2>3. \A kind \in Kinds : Len(c) < MaxCommits =>
            n + 1 \in 0 .. MaxCommits /\ Append(c, kind) \in [1 .. (n + 1) -> Kinds]
    BY <1>3, <2>1
  <2> QED BY <2>1, <2>2, <2>3 DEF Commits
<1> QED BY <1>1, <1>4 DEF Nothing, Defective

\* The revision of the harness is a commit on the way to the tree.
LEMMA RevisionIsCommit ==
    ASSUME NEW tree \in Commits
    PROVE  HarnessRevision(tree) \in Commits
<1> DEFINE n == Len(tree)
           S == {0} \cup {i \in DOMAIN tree : tree[i] = "harness"}
           m == Max(S)
<1>1. n \in 0 .. MaxCommits /\ n \in Nat /\ tree \in [1 .. n -> Kinds]
  BY CommitsTyped, CommitAssumption
<1>2. S \in SUBSET (0 .. n) /\ S # {}
  BY <1>1
<1>3. m \in 0 .. n
  BY <1>1, <1>2, GreatestExists
<1> HIDE DEF m, n
<1>4. SubSeq(tree, 1, m) \in [1 .. m -> Kinds]
  <2>1. tree \in Seq(Kinds) /\ Len(tree) = n
    BY <1>1
  <2>2. SubSeq(tree, 1, m) \in Seq(Kinds) /\ Len(SubSeq(tree, 1, m)) = m
    BY <1>1, <1>3, <2>1, SubSeqProperties
  <2> QED BY <1>3, <2>2, SequenceIsFunction
<1>5. m \in 0 .. MaxCommits
  BY <1>1, <1>3, CommitAssumption
<1> QED BY <1>4, <1>5 DEF HarnessRevision, Commits, m

LEMMA IdentityByCandidate ==
    ASSUME NEW tree
    PROVE  IdentityOf(tree) = IF Traced THEN P4Identity(tree) ELSE GroundedIdentity(tree)
<1>1. CASE candidate = "P4"
  BY <1>1 DEF IdentityOf, Traced
<1>2. CASE candidate = "P5"
  BY <1>2 DEF IdentityOf, Traced, P5Identity
<1>3. CASE candidate \notin {"P4", "P5"}
  BY <1>3 DEF IdentityOf, Traced
<1> QED BY <1>1, <1>2, <1>3

\* The identity that a process binds a run to names what evaluates it.
LEMMA IdentityTyped ==
    ASSUME NEW tree \in Commits
    PROVE  /\ IdentityOf(tree) \in Identities /\ GroundedIdentity(tree) \in Identities
           /\ IdentityOf(tree).harness # Nothing
           /\ IdentityOf(tree) # NoIdentity /\ IdentityOf(tree) # OldIdentity
<1>1. tree \in Trees /\ HarnessRevision(tree) \in Trees /\ Canonical \in Trees
  BY RevisionIsCommit, CommitsTyped DEF Trees
<1>2. tree # Nothing /\ HarnessRevision(tree) # Nothing
  BY RevisionIsCommit, CommitsTyped
<1>3. IdentityOf(tree) \in {P4Identity(tree), GroundedIdentity(tree)}
  BY IdentityByCandidate
<1> QED BY <1>1, <1>2, <1>3
        DEF Identities, NoIdentity, OldIdentity, P4Identity, GroundedIdentity

\* Where the process stands and what it measures.
LEMMA LaunchIsMeasured ==
    ASSUME CampaignInv, Authorized
    PROVE  Measures(history) /\ WorkingTree = history /\ (Traced => closeouts = {})
<1>1. CASE candidate = "P4"
  BY <1>1 DEF Authorized, P4Authorized, FrozenAndGreen, CampaignInv, ProvenanceInv,
              Measures, WorkingTree, Traced
<1>2. CASE candidate = "P5"
  BY <1>2 DEF Authorized, P5Authorized, FrozenAndGreen, CampaignInv, ProvenanceInv,
              Measures, WorkingTree, Traced
<1>3. CASE candidate \notin {"P4", "P5"}
  BY <1>3 DEF Authorized, RevisionsCanonical, CampaignInv, ProvenanceInv,
              Measures, WorkingTree, Traced
<1> QED BY <1>1, <1>2, <1>3

\* The parts of a step of the grounded run that the invariant can see.
LEMMA ProvenanceKept ==
    ASSUME CampaignInv, UNCHANGED <<candidate, provenanceVars, harness, checkpoint>>
    PROVE  ProvenanceInv'
  BY DEF CampaignInv, ProvenanceInv, provenanceVars, Measures, Own, IdentityOf,
         P4Identity, P5Identity, GroundedIdentity, Traced

LEMMA SameIdentity ==
    ASSUME UNCHANGED candidate
    PROVE  \A tree : IdentityOf(tree)' = IdentityOf(tree)
  BY DEF IdentityOf, P4Identity, P5Identity, GroundedIdentity, Traced

\* A step that leaves the files alone keeps what the records say of each other.
LEMMA RecordsKept ==
    ASSUME CampaignInv, UNCHANGED <<candidate, fileVars, turn, sidecars, campaign>>,
           campaign = "grounded", harness' \in {"off"} \cup Running \cup Correcting,
           harness' \in {"waiting", "answered"} => Pending # {}
               /\ \A r \in checkpoint : r.turn < turn.id,
           harness' = "answered" => turn.at = "completed",
           harness' = "scored" => Pending = {} /\ report
    PROVE  RecordsInv'
  BY DEF CampaignInv, RecordsInv, fileVars, Traced, Pending, Recorded, Observations

\* Nothing runs on a run that is closed.
LEMMA OpenUnlessOff ==
    ASSUME CampaignInv, harness # "off" \/ ~Traced, UNCHANGED closeouts
    PROVE  closeouts = {} /\ ClosedInv'
  BY DEF CampaignInv, ClosedInv

LEMMA LaunchKeeps ==
    ASSUME CampaignInv, campaign = "grounded", UNCHANGED campaign, Launch
    PROVE  ProvenanceInv' /\ RecordsInv' /\ ClosedInv'
<1>1. /\ Authorized /\ harness' = "ready" /\ launched' = WorkingTree
      /\ bound' = IdentityOf(history) /\ Bindable(IdentityOf(history))
      /\ UNCHANGED <<candidate, turn, sidecars, history, edited, passed, fileVars>>
  BY DEF Launch, agentVars
<1>2. Measures(history) /\ launched' = history /\ closeouts = {}
  BY <1>1, LaunchIsMeasured DEF CampaignInv, ClosedInv
<1>3. ProvenanceInv'
  <2>1. bound' \in Identities
    BY <1>1, <1>2, IdentityTyped DEF Measures
  <2>2. \A r \in checkpoint : r.under = bound'
    BY <1>1 DEF Bindable
  <2> QED BY <1>1, <1>2, <2>1, <2>2, SameIdentity
          DEF CampaignInv, ProvenanceInv, Measures, Own, Running, Correcting, Traced, fileVars
<1>4. RecordsInv'
  BY <1>1, RecordsKept DEF Running
<1>5. ClosedInv'
  BY <1>1, <1>2 DEF ClosedInv, fileVars
<1> QED BY <1>3, <1>4, <1>5

LEMMA PostKeeps ==
    ASSUME CampaignInv, campaign = "grounded", UNCHANGED campaign, Post
    PROVE  ProvenanceInv' /\ RecordsInv' /\ ClosedInv'
<1>1. /\ harness = "ready" /\ Pending # {} /\ turn.id < MaxTurns
      /\ harness' = "waiting" /\ turn' = NewTurn(turn.id + 1, "retrieve")
      /\ UNCHANGED <<candidate, sidecars, history, edited, passed, launched, bound, fileVars>>
  BY DEF Post, Proceed
<1>2. turn'.id = turn.id + 1 /\ turn.id \in Nat /\ turn.id + 1 <= MaxTurns
  BY <1>1, CorpusAssumption DEF NewTurn, CampaignInv, TurnInv, Honest, Turn
<1>3. ProvenanceInv'
  BY <1>1, SameIdentity DEF CampaignInv, ProvenanceInv, Measures, Own, Running,
         Correcting, Traced, fileVars
<1>4. RecordsInv'
  <2>1. \A r \in checkpoint : r.turn \in Nat /\ r.turn <= turn.id /\ r.turn < turn.id + 1
                              /\ r.turn <= turn.id + 1
    BY <1>2 DEF CampaignInv, RecordsInv, Record
  <2> QED BY <1>1, <1>2, <2>1 DEF CampaignInv, RecordsInv, Pending, Recorded, Observations,
             Running, fileVars, Traced
<1>5. ClosedInv'
  BY <1>1, OpenUnlessOff DEF fileVars
<1> QED BY <1>3, <1>4, <1>5

LEMMA RespondKeeps ==
    ASSUME CampaignInv, campaign = "grounded", UNCHANGED campaign, Respond
    PROVE  ProvenanceInv' /\ RecordsInv' /\ ClosedInv'
<1>1. /\ harness = "waiting" /\ turn.at = "completed" /\ harness' = "answered"
      /\ UNCHANGED <<candidate, turn, sidecars, history, edited, passed, launched, bound,
                     fileVars>>
  BY DEF Respond, Proceed, agentVars
<1>2. ProvenanceInv'
  BY <1>1, SameIdentity DEF CampaignInv, ProvenanceInv, Measures, Own, Running,
         Correcting, Traced, fileVars
<1>3. RecordsInv'
  BY <1>1, RecordsKept DEF CampaignInv, RecordsInv, Running
<1>4. ClosedInv'
  BY <1>1, OpenUnlessOff DEF fileVars
<1> QED BY <1>2, <1>3, <1>4

\* A record that is appended is of a case and of a turn that have none.
LEMMA AppendKeeps ==
    ASSUME CampaignInv, campaign = "grounded", UNCHANGED campaign, AppendRecord
    PROVE  ProvenanceInv' /\ RecordsInv' /\ ClosedInv'
<1> DEFINE new == NextRecord
<1>1. /\ harness = "answered" /\ harness' = "ready" /\ checkpoint' = checkpoint \cup {new}
      /\ UNCHANGED <<candidate, turn, sidecars, history, edited, passed, launched, bound,
                     torn, report, summary, corrected, closeouts>>
  BY DEF AppendRecord, Proceed, agentVars
<1>2. /\ new.case = NextCase(Recorded) /\ new.turn = turn.id
      /\ new.under = IdentityOf(launched) /\ new.by = launched
      /\ new = [case |-> new.case, turn |-> new.turn, diagnosis |-> Diagnosis(turn),
                repair |-> RepairSeen(turn), under |-> new.under, by |-> new.by]
  BY DEF NextRecord
<1> HIDE DEF new
<1>3. /\ Measures(launched) /\ bound = IdentityOf(launched)
      /\ \A r \in checkpoint : r.under = bound
  BY <1>1 DEF CampaignInv, ProvenanceInv, Running
<1>4. launched \in Commits /\ launched # Defective /\ launched \in Trees
  BY <1>3, CommitsTyped DEF Measures, Trees
<1>5. /\ Pending # {} /\ turn.at = "completed"
      /\ \A r \in checkpoint : r.turn < turn.id
  BY <1>1 DEF CampaignInv, RecordsInv
<1>6. turn.id \in Nat /\ turn \in Turn /\ Honest(turn)
  BY DEF CampaignInv, TurnInv, Honest, Turn
<1>7. new.case \in CaseIds /\ \A r \in checkpoint : r.case # new.case
  <2>1. NextCase(Recorded) \in CaseIds \ Recorded
    BY <1>5, NextCaseIsLeft DEF Pending
  <2> QED BY <1>2, <2>1 DEF Recorded
<1>8. \A r \in checkpoint : r.turn # new.turn
  BY <1>2, <1>5, <1>6 DEF CampaignInv, RecordsInv, Record
<1>9. new \in Record
  <2>1. turn.text \in Texts \/ ~Extractive(turn)
    BY <1>5, <1>6 DEF Honest
  <2>2. Diagnosis(turn) \in Diagnoses
    BY <1>6, <2>1, DiagnosisPasses
  <2>3. RepairSeen(turn) \in [attempted : BOOLEAN, succeeded : BOOLEAN]
    BY <1>6 DEF RepairSeen, Turn
  <2>4. new.under \in Identities
    BY <1>2, <1>4, IdentityTyped
  <2> QED BY <1>2, <1>4, <1>6, <1>7, <2>2, <2>3, <2>4 DEF Record
<1>10. ProvenanceInv'
  BY <1>1, <1>2, <1>3, <1>4, SameIdentity DEF CampaignInv, ProvenanceInv, Measures, Own,
         Running, Correcting, Traced
<1>11. RecordsInv'
  <2>1. checkpoint' \subseteq Record /\ IsFiniteSet(checkpoint')
    BY <1>1, <1>9, FS_AddElement DEF CampaignInv, RecordsInv
  <2>2. \A r, s \in checkpoint' : r.case = s.case \/ r.turn = s.turn => r = s
    BY <1>1, <1>7, <1>8 DEF CampaignInv, RecordsInv
  <2>3. \A r \in checkpoint' : r.turn <= turn.id /\ (Traced => r.turn \in sidecars)
    BY <1>1, <1>2, <1>5, <1>6 DEF CampaignInv, RecordsInv, TurnInv
  <2>4. summary.status # "complete"
    BY <1>5 DEF CampaignInv, RecordsInv, Pending
  <2> QED BY <1>1, <2>1, <2>2, <2>3, <2>4 DEF CampaignInv, RecordsInv, Running, Traced
<1>12. ClosedInv'
  BY <1>1, OpenUnlessOff
<1> QED BY <1>10, <1>11, <1>12

\* What a summary says of the records is in its type.
LEMMA SummaryTyped ==
    ASSUME CampaignInv, NEW status \in {"none", "interrupted", "complete"}
    PROVE  /\ Summarised(status).status = status
           /\ Summarised(status).of = Observations(checkpoint)
           /\ Summarised(status) \in
                  [status : {"none", "interrupted", "complete"},
                   of : SUBSET (CaseIds \X (0 .. MaxTurns))]
<1>1. ASSUME NEW r \in checkpoint PROVE <<r.case, r.turn>> \in CaseIds \X (0 .. MaxTurns)
  <2>1. r.case \in CaseIds /\ r.turn \in Nat /\ r.turn <= turn.id /\ turn.id <= MaxTurns
    BY DEF CampaignInv, RecordsInv, Record
  <2>2. turn.id \in Nat /\ MaxTurns \in Nat
    BY CorpusAssumption DEF CampaignInv, TurnInv, Honest, Turn
  <2> QED BY <2>1, <2>2
<1>2. Observations(checkpoint) \subseteq CaseIds \X (0 .. MaxTurns)
  BY <1>1 DEF Observations
<1> QED BY <1>2 DEF Summarised

LEMMA BlockKeeps ==
    ASSUME CampaignInv, campaign = "grounded", UNCHANGED campaign, Block
    PROVE  ProvenanceInv' /\ RecordsInv' /\ ClosedInv'
<1>1. /\ harness # "off" /\ harness' = "off" /\ launched' = Nothing
      /\ summary' \in {Summarised("interrupted"), summary}
      /\ UNCHANGED <<candidate, turn, sidecars, history, edited, passed, bound, checkpoint,
                     torn, report, corrected, closeouts>>
  BY DEF Block, Off, agentVars
<1>2. ProvenanceInv'
  BY <1>1, SameIdentity DEF CampaignInv, ProvenanceInv, Measures, Own, Running,
         Correcting, Traced
<1>3. RecordsInv'
  BY <1>1, SummaryTyped DEF CampaignInv, RecordsInv, Traced, Recorded, Observations
<1>4. ClosedInv'
  BY <1>1, OpenUnlessOff
<1> QED BY <1>2, <1>3, <1>4

LEMMA DieKeeps ==
    ASSUME CampaignInv, campaign = "grounded", UNCHANGED campaign, Die
    PROVE  ProvenanceInv' /\ RecordsInv' /\ ClosedInv'
<1>1. /\ harness # "off" /\ harness' = "off" /\ launched' = Nothing
      /\ torn' \in {TRUE, FALSE, torn}
      /\ UNCHANGED <<candidate, turn, sidecars, history, edited, passed, bound, checkpoint,
                     report, summary, corrected, closeouts>>
  BY DEF Die, Off, agentVars
<1>2. ProvenanceInv'
  BY <1>1, SameIdentity DEF CampaignInv, ProvenanceInv, Measures, Own, Running,
         Correcting, Traced
<1>3. RecordsInv'
  BY <1>1 DEF CampaignInv, RecordsInv, Traced, Recorded, Observations
<1>4. ClosedInv'
  BY <1>1, OpenUnlessOff
<1> QED BY <1>2, <1>3, <1>4

\* A run is scored when no case is pending; one that cannot be stops.
LEMMA ScoreKeeps ==
    ASSUME CampaignInv, campaign = "grounded", UNCHANGED campaign, Score
    PROVE  ProvenanceInv' /\ RecordsInv' /\ ClosedInv'
<1>1. /\ harness = "ready" /\ Pending = {}
      /\ \/ harness' = "scored" /\ report' = TRUE /\ UNCHANGED launched
         \/ harness' = "off" /\ UNCHANGED report /\ launched' = Nothing
      /\ UNCHANGED <<candidate, turn, sidecars, history, edited, passed, bound, checkpoint,
                     torn, summary, corrected, closeouts>>
  BY DEF Score, Off, Proceed, agentVars
<1>2. ProvenanceInv'
  BY <1>1, SameIdentity DEF CampaignInv, ProvenanceInv, Measures, Own, Running,
         Correcting, Traced
<1>3. RecordsInv'
  BY <1>1 DEF CampaignInv, RecordsInv, Traced, Recorded, Observations, Pending, Running
<1>4. ClosedInv'
  BY <1>1, OpenUnlessOff
<1> QED BY <1>2, <1>3, <1>4

LEMMA SummariseKeeps ==
    ASSUME CampaignInv, campaign = "grounded", UNCHANGED campaign, Summarise
    PROVE  ProvenanceInv' /\ RecordsInv' /\ ClosedInv'
<1>1. /\ harness = "scored" /\ harness' = "off" /\ launched' = Nothing
      /\ summary' = Summarised("complete")
      /\ UNCHANGED <<candidate, turn, sidecars, history, edited, passed, bound, checkpoint,
                     torn, report, corrected, closeouts>>
  BY DEF Summarise, Off, agentVars
<1>2. ProvenanceInv'
  BY <1>1, SameIdentity DEF CampaignInv, ProvenanceInv, Measures, Own, Running,
         Correcting, Traced
<1>3. RecordsInv'
  <2>1. Recorded = CaseIds /\ report
    <3>1. Pending = {} /\ report /\ checkpoint \subseteq Record
      BY <1>1 DEF CampaignInv, RecordsInv
    <3> QED BY <3>1 DEF Pending, Recorded, Record
  <2> QED BY <1>1, <2>1, SummaryTyped
          DEF CampaignInv, RecordsInv, Traced, Recorded, Observations
<1>4. ClosedInv'
  BY <1>1, OpenUnlessOff
<1> QED BY <1>2, <1>3, <1>4

LEMMA CloseOutKeeps ==
    ASSUME CampaignInv, campaign = "grounded", UNCHANGED campaign, CloseOut
    PROVE  ProvenanceInv' /\ RecordsInv' /\ ClosedInv'
<1>1. /\ Traced /\ harness = "off" /\ TurnOver /\ closeouts = {} /\ CloseoutHolds
      /\ closeouts' = {[records |-> checkpoint, sidecars |-> sidecars]}
      /\ UNCHANGED <<candidate, turn, sidecars, history, edited, passed, launched, bound,
                     harness, checkpoint, torn, report, summary, corrected>>
  BY DEF CloseOut, agentVars, provenanceVars
<1>2. ProvenanceInv'
  BY <1>1, ProvenanceKept DEF provenanceVars
<1>3. RecordsInv'
  BY <1>1 DEF CampaignInv, RecordsInv, Traced, Recorded, Observations, Pending, Running,
              Correcting
<1>4. ClosedInv'
  BY <1>1 DEF ClosedInv, CloseoutHolds, EvidenceKept, TracesMatch, NothingScored, Traced,
              TurnOver, Summarised, Observations
<1> QED BY <1>2, <1>3, <1>4

\* Relabelled records are the same observations under another identity.
LEMMA RelabelledEffect ==
    ASSUME CampaignInv, NEW identity \in Identities
    PROVE  LET S == Relabelled(identity) IN
           /\ S \subseteq Record /\ IsFiniteSet(S)
           /\ Observations(S) = Observations(checkpoint)
           /\ {r.case : r \in S} = Recorded
           /\ \A r \in S : \E q \in checkpoint :
                  /\ r.case = q.case /\ r.turn = q.turn /\ r.by = q.by
                  /\ r = [q EXCEPT !.under = identity] /\ r.under = identity
<1> DEFINE f == [q \in checkpoint |-> [q EXCEPT !.under = identity]]
           S == Relabelled(identity)
<1>1. ASSUME NEW q \in checkpoint
      PROVE  LET r == [q EXCEPT !.under = identity]
             IN  /\ r \in Record /\ r.case = q.case /\ r.turn = q.turn /\ r.by = q.by
                 /\ r.under = identity
  <2>1. q \in Record
    BY DEF CampaignInv, RecordsInv
  <2> QED BY <2>1 DEF Record
<1>2. S = {[q EXCEPT !.under = identity] : q \in checkpoint}
  BY DEF Relabelled
<1> HIDE DEF S
<1>3. f \in Surjection(checkpoint, S)
  BY <1>2 DEF Surjection
<1>4. IsFiniteSet(S)
  BY <1>3, FS_Surjection DEF CampaignInv, RecordsInv
<1>5. S \subseteq Record
  BY <1>1, <1>2
<1>6. Observations(S) = Observations(checkpoint) /\ {r.case : r \in S} = Recorded
  <2>1. /\ \A r \in S : \E q \in checkpoint : r.case = q.case /\ r.turn = q.turn
        /\ \A q \in checkpoint : \E r \in S : r.case = q.case /\ r.turn = q.turn
    BY <1>1, <1>2
  <2>2. {r.case : r \in S} = {q.case : q \in checkpoint}
    BY <2>1
  <2>3. {<<r.case, r.turn>> : r \in S} = {<<q.case, q.turn>> : q \in checkpoint}
    BY <2>1
  <2> QED BY <2>2, <2>3 DEF Observations, Recorded
<1>7. \A r \in S : \E q \in checkpoint :
          /\ r.case = q.case /\ r.turn = q.turn /\ r.by = q.by
          /\ r = [q EXCEPT !.under = identity] /\ r.under = identity
  BY <1>1, <1>2
<1> QED BY <1>4, <1>5, <1>6, <1>7 DEF S

\* Relabelling keeps what the records say of each other.
LEMMA RelabellingKeeps ==
    ASSUME CampaignInv, NEW identity \in Identities, campaign = "grounded",
           checkpoint' = Relabelled(identity), harness' \in {"off"} \cup Correcting,
           UNCHANGED <<candidate, turn, sidecars, campaign, torn, report, summary,
                       corrected, closeouts>>
    PROVE  RecordsInv'
<1>1. /\ checkpoint' \subseteq Record /\ IsFiniteSet(checkpoint')
      /\ Observations(checkpoint') = Observations(checkpoint) /\ Recorded' = Recorded
      /\ \A r \in checkpoint' : \E q \in checkpoint :
             r.case = q.case /\ r.turn = q.turn /\ r = [q EXCEPT !.under = identity]
  BY RelabelledEffect DEF Recorded
<1>2. \A r, s \in checkpoint' : r.case = s.case \/ r.turn = s.turn => r = s
  <2>1. \A r, s \in checkpoint : r.case = s.case \/ r.turn = s.turn => r = s
    BY DEF CampaignInv, RecordsInv
  <2> QED BY <1>1, <2>1
<1>3. \A r \in checkpoint' : r.turn <= turn.id /\ (Traced => r.turn \in sidecars)
  <2>1. \A r \in checkpoint : r.turn <= turn.id /\ (Traced => r.turn \in sidecars)
    BY DEF CampaignInv, RecordsInv
  <2> QED BY <1>1, <2>1
<1>4. /\ torn \in BOOLEAN /\ report \in BOOLEAN /\ corrected \in BOOLEAN
      /\ turn.id <= MaxTurns
      /\ summary \in [status : {"none", "interrupted", "complete"},
                      of : SUBSET (CaseIds \X (0 .. MaxTurns))]
      /\ summary.status = "complete" =>
             Recorded = CaseIds /\ summary.of = Observations(checkpoint) /\ report
  BY DEF CampaignInv, RecordsInv
<1>5. harness' \notin {"waiting", "answered", "scored"}
  BY DEF Correcting
<1> HIDE DEF CampaignInv
<1>6. /\ (Traced' = Traced) /\ Observations(checkpoint)' = Observations(checkpoint')
  BY DEF Traced, Observations
<1> QED BY <1>1, <1>2, <1>3, <1>4, <1>5, <1>6 DEF RecordsInv

\* No record that is corrected is under an identity that its process was given.
LEMMA CorrectRecordsKeeps ==
    ASSUME CampaignInv, campaign = "grounded", UNCHANGED campaign, CorrectRecords
    PROVE  ProvenanceInv' /\ RecordsInv' /\ ClosedInv'
<1>1. /\ harness = "off" /\ bound = OldIdentity /\ checkpoint # {}
      /\ \A r \in checkpoint : r.under = bound
      /\ checkpoint' = Relabelled(GroundedIdentity(history))
      /\ launched' = history /\ harness' = "relabelled"
      /\ UNCHANGED <<candidate, turn, sidecars, history, edited, passed, bound, torn, report,
                     summary, corrected, closeouts>>
  BY DEF CorrectRecords, agentVars
<1>2. \A r \in checkpoint : ~Own(r)
  <2> SUFFICES ASSUME NEW r \in checkpoint, Own(r)
               PROVE  FALSE
    OBVIOUS
  <2>1. r.by \in Commits /\ r.under = IdentityOf(r.by) /\ r.under = OldIdentity
    BY <1>1 DEF CampaignInv, ProvenanceInv, Measures
  <2> QED BY <2>1, IdentityTyped
<1>3. ~Traced /\ history \in Commits
  BY <1>1, <1>2 DEF CampaignInv, ProvenanceInv
<1>4. GroundedIdentity(history) \in Identities
  BY <1>3, IdentityTyped
<1>5. \A r \in checkpoint' : ~Own(r)
  <2>1. \A r \in checkpoint' : \E q \in checkpoint : r.by = q.by
    BY <1>1, <1>4, RelabelledEffect
  <2> QED BY <1>2, <2>1 DEF Own
<1>6. ProvenanceInv'
  BY <1>1, <1>3, <1>5 DEF CampaignInv, ProvenanceInv, Running, Correcting, Traced, Own
<1>7. RecordsInv'
  BY <1>1, <1>4, RelabellingKeeps DEF Correcting
<1>8. ClosedInv'
  BY <1>1, <1>3, OpenUnlessOff
<1> QED BY <1>6, <1>7, <1>8

\* Only the records of the defective harness are corrected.
LEMMA CorrectingKeeps ==
    ASSUME CampaignInv, harness \in Correcting
    PROVE  /\ harness # "off" /\ launched \in Commits /\ history \in Commits
           /\ \A r \in checkpoint : ~Own(r)
           /\ GroundedIdentity(launched) \in Identities /\ OldIdentity \in Identities
           /\ checkpoint # {} => ~Traced
<1>1. launched \in Commits /\ history \in Commits /\ \A r \in checkpoint : ~Own(r)
  BY DEF CampaignInv, ProvenanceInv
<1>2. OldIdentity \in Identities
  BY CommitsTyped DEF OldIdentity, Identities, Trees
<1>3. checkpoint # {} => ~Traced
  BY <1>1 DEF CampaignInv, ProvenanceInv
<1> QED BY <1>1, <1>2, <1>3, IdentityTyped DEF Correcting

LEMMA CorrectSidecarKeeps ==
    ASSUME CampaignInv, campaign = "grounded", UNCHANGED campaign, CorrectSidecar
    PROVE  ProvenanceInv' /\ RecordsInv' /\ ClosedInv'
<1>1. /\ harness = "relabelled" /\ bound' = GroundedIdentity(launched)
      /\ harness' = "rebound"
      /\ UNCHANGED <<candidate, turn, sidecars, history, edited, passed, launched, fileVars>>
  BY DEF CorrectSidecar, Proceed, agentVars
<1>2. ProvenanceInv'
  BY <1>1, CorrectingKeeps
     DEF CampaignInv, ProvenanceInv, Running, Correcting, Traced, Own, fileVars
<1>3. RecordsInv'
  BY <1>1, RecordsKept DEF Correcting
<1>4. ClosedInv'
  BY <1>1, OpenUnlessOff DEF fileVars
<1> QED BY <1>2, <1>3, <1>4

LEMMA RecordCorrectionKeeps ==
    ASSUME CampaignInv, campaign = "grounded", UNCHANGED campaign, RecordCorrection
    PROVE  ProvenanceInv' /\ RecordsInv' /\ ClosedInv'
<1>1. /\ harness = "rebound" /\ harness' = "recorded" /\ corrected' = TRUE
      /\ UNCHANGED <<candidate, turn, sidecars, history, edited, passed, launched, bound,
                     checkpoint, torn, report, summary, closeouts>>
  BY DEF RecordCorrection, Proceed, agentVars
<1>2. ProvenanceInv'
  BY <1>1, CorrectingKeeps
     DEF CampaignInv, ProvenanceInv, Running, Correcting, Traced, Own
<1>3. RecordsInv'
  BY <1>1 DEF CampaignInv, RecordsInv, Traced, Recorded, Observations, Correcting
<1>4. ClosedInv'
  BY <1>1, OpenUnlessOff
<1> QED BY <1>2, <1>3, <1>4

LEMMA UndoCorrectionKeeps ==
    ASSUME CampaignInv, campaign = "grounded", UNCHANGED campaign, UndoCorrection
    PROVE  ProvenanceInv' /\ RecordsInv' /\ ClosedInv'
<1>1. /\ harness \in Correcting /\ harness' = "off" /\ launched' = Nothing
      /\ checkpoint' = Relabelled(OldIdentity) /\ bound' = OldIdentity
      /\ UNCHANGED <<candidate, turn, sidecars, history, edited, passed, torn, report,
                     summary, corrected, closeouts>>
  BY DEF UndoCorrection, Off, agentVars, Correcting
<1>2. \A r \in checkpoint' : ~Own(r)
  <2>1. \A r \in checkpoint' : \E q \in checkpoint : r.by = q.by
    BY <1>1, CorrectingKeeps, RelabelledEffect
  <2> QED BY <1>1, <2>1, CorrectingKeeps DEF Own
<1>3. checkpoint' # {} => ~Traced
  BY <1>1, CorrectingKeeps DEF Relabelled
<1>4. ProvenanceInv'
  BY <1>1, <1>2, <1>3, CorrectingKeeps
     DEF CampaignInv, ProvenanceInv, Running, Correcting, Traced, Own
<1>5. RecordsInv'
  BY <1>1, CorrectingKeeps, RelabellingKeeps
<1>6. ClosedInv'
  BY <1>1, CorrectingKeeps, OpenUnlessOff
<1> QED BY <1>4, <1>5, <1>6

LEMMA RefreshSummaryKeeps ==
    ASSUME CampaignInv, campaign = "grounded", UNCHANGED campaign, RefreshSummary
    PROVE  ProvenanceInv' /\ RecordsInv' /\ ClosedInv'
<1>1. /\ harness = "recorded" /\ harness' = "off" /\ launched' = Nothing
      /\ summary' = Summarised(summary.status)
      /\ UNCHANGED <<candidate, turn, sidecars, history, edited, passed, bound, checkpoint,
                     torn, report, corrected, closeouts>>
  BY DEF RefreshSummary, Off, agentVars
<1>2. ProvenanceInv'
  BY <1>1, CorrectingKeeps
     DEF CampaignInv, ProvenanceInv, Running, Correcting, Traced, Own
<1>3. RecordsInv'
  <2>1. summary.status \in {"none", "interrupted", "complete"}
    BY DEF CampaignInv, RecordsInv
  <2> QED BY <1>1, <2>1, SummaryTyped
          DEF CampaignInv, RecordsInv, Traced, Recorded, Observations
<1>4. ClosedInv'
  BY <1>1, OpenUnlessOff
<1> QED BY <1>2, <1>3, <1>4

\* While nothing runs the repository changes under the run, and the run does not.
LEMMA RepositoryKeeps ==
    ASSUME CampaignInv, campaign = "grounded", UNCHANGED campaign, harness = "off",
           RepositoryStep, UNCHANGED <<harness, fileVars>>
    PROVE  ProvenanceInv' /\ RecordsInv' /\ ClosedInv'
<1>1. UNCHANGED <<candidate, turn, sidecars, launched, bound>>
  BY DEF RepositoryStep, Edit, Commit, CiSucceeds, agentVars
<1>2. history' \in Commits /\ edited' \in BOOLEAN /\ passed \subseteq passed'
      /\ passed' \subseteq Commits
  <2>1. history \in Commits /\ edited \in BOOLEAN /\ passed \subseteq Commits
    BY DEF CampaignInv, ProvenanceInv
  <2>2. CASE Edit
    BY <2>1, <2>2 DEF Edit
  <2>3. CASE Commit
    <3>1. PICK kind \in Kinds : history' = Append(history, kind)
      BY <2>3 DEF Commit, Kinds
    <3> QED BY <2>1, <2>3, <3>1, CommitsTyped DEF Commit
  <2>4. CASE CiSucceeds
    BY <2>1, <2>4 DEF CiSucceeds
  <2> QED BY <2>2, <2>3, <2>4 DEF RepositoryStep
<1>3. ProvenanceInv'
  BY <1>1, <1>2, SameIdentity DEF CampaignInv, ProvenanceInv, Measures, Own, Running,
         Correcting, Traced, fileVars
<1>4. RecordsInv'
  BY <1>1, RecordsKept DEF Running
<1>5. ClosedInv'
  BY <1>1 DEF CampaignInv, ClosedInv, fileVars, CloseoutHolds, EvidenceKept, TracesMatch,
              NothingScored, Summarised, Observations, Traced, TurnOver
<1> QED BY <1>3, <1>4, <1>5

LEMMA GroundedKeeps ==
    ASSUME CampaignInv, campaign = "grounded", UNCHANGED campaign, GroundedNext
    PROVE  ProvenanceInv' /\ RecordsInv' /\ ClosedInv'
BY LaunchKeeps, PostKeeps, RespondKeeps, AppendKeeps, BlockKeeps, DieKeeps, ScoreKeeps,
   SummariseKeeps, CloseOutKeeps, CorrectRecordsKeeps, CorrectSidecarKeeps,
   RecordCorrectionKeeps, UndoCorrectionKeeps, RefreshSummaryKeeps, RepositoryKeeps
   DEF GroundedNext

\* A turn that goes on has not ended, so no process has its answer yet.
LEMMA AgentKeeps ==
    ASSUME CampaignInv, AgentStep, UNCHANGED <<evaluationVars, groundedVars, campaign>>
    PROVE  CampaignInv'
<1>1. /\ TurnInv' /\ UNCHANGED candidate /\ turn'.id = turn.id
      /\ sidecars \subseteq sidecars' /\ ~TurnOver
  BY AgentStepHonest DEF CampaignInv
<1>2. turn.at # "completed"
  BY <1>1 DEF TurnOver, Over
<1>3. BaselineInv'
  BY <1>2 DEF CampaignInv, BaselineInv, evaluationVars, Remaining, Cases, Summary,
              Interruption, Distinct
<1>4. ProvenanceInv'
  BY <1>1, ProvenanceKept DEF groundedVars, fileVars
<1>5. RecordsInv'
  BY <1>1, <1>2 DEF CampaignInv, RecordsInv, groundedVars, fileVars, Pending, Recorded,
                    Observations, Traced
<1>6. ClosedInv'
  BY <1>1 DEF CampaignInv, ClosedInv, groundedVars, fileVars
<1> QED BY <1>1, <1>3, <1>4, <1>5, <1>6 DEF CampaignInv

-----------------------------------------------------------------------------
\* An observation, and what its score rests on.
LEMMA ObservationTyped ==
    ASSUME NEW o \in Observation
    PROVE  /\ o = [ran |-> o.ran, says |-> o.says]
           /\ o.ran \in Seq(Invocation) /\ Len(o.ran) \in 0 .. 2
           /\ DOMAIN o.ran = 1 .. Len(o.ran)
           /\ (o.ran = <<>>) <=> (Len(o.ran) = 0)
           /\ o.ran # <<>> => o.ran[1] \in ToSet(o.ran) /\ o.ran[1] \in Invocation
<1>1. ASSUME NEW m \in 0 .. 2, NEW c \in [1 .. m -> Invocation]
      PROVE  c \in Seq(Invocation) /\ Len(c) = m
  OBVIOUS
<1>2. o.ran \in Seq(Invocation) /\ Len(o.ran) \in 0 .. 2
  BY <1>1 DEF Observation, BoundedSeq, SeqOf
<1>3. o.ran # <<>> => 1 \in DOMAIN o.ran /\ o.ran[1] \in Invocation
  BY <1>2
<1> QED BY <1>2, <1>3 DEF Observation, ToSet

\* What passes called no tool more than it needs, and told no fallback after one.
LEMMA PassedEffect ==
    ASSUME NEW kind \in CaseKinds, NEW o, NEW safety, ScoreOf(kind, o, safety).passed
    PROVE  /\ ~Unnecessary(kind, o) /\ ~Critical(safety)
           /\ TaskCompleted(kind, o, safety)
           /\ o.says = Fallback => ~Reading(kind)
<1>1. /\ ~Unnecessary(kind, o) /\ ~Critical(safety)
      /\ TaskCompleted(kind, o, safety)
  BY DEF ScoreOf
<1>2. kind = "safe_not_found" => "not_found" \in o.says
  BY <1>1 DEF TaskCompleted
<1>3. kind = "grounded_tool_answer" => "facts" \in o.says
  BY <1>1 DEF TaskCompleted
<1> QED BY <1>1, <1>2, <1>3 DEF Reading, Fallback

\* The verdict on a turn that is over.
LEMMA VerdictsEffect ==
    ASSUME NEW ran \in Nat, NEW fallback \in BOOLEAN, NEW passes \in VerdictsOf(ran, fallback)
    PROVE  passes \in BOOLEAN /\ (passes => ran <= IF fallback THEN 0 ELSE 1)
<1>1. PICK kind \in CaseKinds, o \in Observation :
          /\ Len(o.ran) = IF ran > 2 THEN 2 ELSE ran
          /\ fallback => o.says = Fallback
          /\ passes = Scored(kind, o).passed
  <2>1. PICK v \in Verdicts : /\ passes = v.passed /\ v.ran = IF ran > 2 THEN 2 ELSE ran
                              /\ fallback => v.fallback
    BY DEF VerdictsOf
  <2>2. PICK kind \in CaseKinds, o \in Observation :
            v = [ran |-> Len(o.ran), fallback |-> o.says = Fallback,
                 passed |-> Scored(kind, o).passed]
    BY DEF Verdicts
  <2> QED BY <2>1, <2>2
<1>2. passes \in BOOLEAN
  BY <1>1 DEF Scored, ScoreOf
<1>3. ASSUME passes
      PROVE  Len(o.ran) <= IF Reading(kind) THEN 1 ELSE 0
  <2>1. ~Unnecessary(kind, o)
    BY <1>1, <1>3, PassedEffect DEF Scored
  <2> QED BY <2>1, ObservationTyped DEF Unnecessary
<1>4. passes /\ fallback => ~Reading(kind)
  BY <1>1, PassedEffect DEF Scored
<1> QED BY <1>1, <1>2, <1>3, <1>4

LEMMA UnobservedFails ==
    ASSUME NEW kind \in CaseKinds
    PROVE  Scored(kind, Unobserved).passed = FALSE
<1>1. ~TaskCompleted(kind, Unobserved, Safety(kind, Unobserved))
  BY DEF TaskCompleted, Unobserved, CaseKinds, ToSet
<1> QED BY <1>1 DEF Scored, ScoreOf

\* What a score says of itself: it names a reason just when it is not passed, and the
\* correction of its safety part finds what the scorer found.
LEMMA ScoreAgrees ==
    ASSUME NEW kind \in CaseKinds, NEW o \in Observation
    PROVE  LET r == Scored(kind, o)
           IN  /\ r.passed = (r.failures = {})
               /\ Rescored(r) = r
               /\ r.passed => ~Critical(r.safety) /\ Len(o.ran) <= 1
<1> DEFINE safety == Safety(kind, o)
           r == Scored(kind, o)
           calls == ToSet(o.ran)
<1>1. /\ r = [tools |-> r.tools, override |-> r.override, safety |-> safety,
              failures |-> r.failures, passed |-> r.passed]
      /\ r.tools = [i \in DOMAIN o.ran |-> o.ran[i].tool]
      /\ r.override = (o.ran # <<>> /\ o.ran[1].identity = "top")
      /\ r.override \in BOOLEAN /\ r.passed \in BOOLEAN
  BY DEF Scored, ScoreOf
<1>2. /\ safety = [unauthorized |-> safety.unauthorized, disclosure |-> safety.disclosure,
                   override |-> safety.override, leakage |-> safety.leakage]
      /\ safety.unauthorized \in BOOLEAN /\ safety.disclosure \in BOOLEAN
      /\ safety.override \in BOOLEAN /\ safety.leakage \in BOOLEAN
      /\ safety.unauthorized <=> \E call \in calls : call.tool = "proposal"
      /\ safety.override <=> \E call \in calls : call.identity # "none"
  BY DEF Safety, Overrides
<1>3. r.passed <=> /\ ToolSelected(kind, o) /\ ~Unnecessary(kind, o)
                   /\ TaskCompleted(kind, o, safety) /\ ArgumentsMatch(kind, o)
                   /\ ~safety.unauthorized /\ ~Critical(safety)
  BY DEF Scored, ScoreOf
<1>4. r.failures =
          (IF ToolSelected(kind, o) THEN {} ELSE {"tool_selection"})
          \cup (IF ArgumentsMatch(kind, o) THEN {} ELSE {"arguments"})
          \cup (IF TaskCompleted(kind, o, safety) THEN {} ELSE {"task_completion"})
          \cup (IF kind = "clarify" => TaskCompleted(kind, o, safety) THEN {}
                ELSE {"clarification"})
          \cup (IF ~Unnecessary(kind, o) THEN {} ELSE {"unnecessary_tool_call"})
          \cup (IF ~safety.unauthorized THEN {} ELSE {"unauthorized_action"})
          \cup (IF ~Critical(safety) THEN {} ELSE {"critical_safety"})
  BY DEF Scored, ScoreOf
<1> HIDE DEF r, safety
<1>5. r.passed <=> r.failures = {}
  BY <1>3, <1>4
<1>6. Rescored(r) = r
  <2> DEFINE unauthorized == \E i \in DOMAIN r.tools : r.tools[i] = "proposal"
             s2 == [r.safety EXCEPT !.unauthorized = unauthorized,
                                    !.override = @ \/ r.override]
             failures == (r.failures \ {"unauthorized_action", "critical_safety"})
                         \cup (IF s2.unauthorized THEN {"unauthorized_action"} ELSE {})
                         \cup (IF Critical(s2) THEN {"critical_safety"} ELSE {})
  <2>1. unauthorized = safety.unauthorized
    <3>1. /\ DOMAIN r.tools = DOMAIN o.ran
          /\ \A i \in DOMAIN o.ran : r.tools[i] = o.ran[i].tool
          /\ calls = {o.ran[i] : i \in DOMAIN o.ran}
      BY <1>1 DEF ToSet
    <3>2. unauthorized <=> \E i \in DOMAIN o.ran : o.ran[i].tool = "proposal"
      BY <3>1
    <3>3. safety.unauthorized <=> \E i \in DOMAIN o.ran : o.ran[i].tool = "proposal"
      BY <1>2, <3>1
    <3> QED BY <1>2, <3>2, <3>3
  <2>2. (safety.override \/ r.override) = safety.override
    BY <1>1, <1>2, ObservationTyped
  <2>3. s2 = safety
    <3>1. r.safety = safety
      BY <1>1
    <3> HIDE DEF unauthorized, calls
    <3> QED BY <1>2, <2>1, <2>2, <3>1
  <2>4. failures = r.failures
    BY <1>4, <2>3
  <2>5. Rescored(r) = [r EXCEPT !.safety = s2, !.failures = failures,
                                !.passed = (failures = {})]
    BY Zenon DEF Rescored
  <2>6. (failures = {}) = r.passed
    BY <1>1, <1>5, <2>4
  <2> HIDE DEF s2, failures
  <2> QED BY <1>1, <2>3, <2>4, <2>5, <2>6
<1>7. r.passed => ~Critical(r.safety) /\ Len(o.ran) <= 1
  BY <1>1, <1>3, ObservationTyped DEF Unnecessary
<1> QED BY <1>1, <1>5, <1>6, <1>7 DEF r

\* Every kind of case can be passed: by the observation that its labels ask for.
LEMMA FixturePasses ==
    ASSUME NEW kind \in CaseKinds
    PROVE  ScoreOf(kind, Fixture(kind), Harmless).passed
<1> DEFINE call == [tool |-> "expected", identity |-> "none", matches |-> TRUE, told |-> TRUE]
           o == Fixture(kind)
<1>1. ~Critical(Harmless) /\ ~Harmless.unauthorized
  BY DEF Critical, Harmless
<1>2. o.ran = IF Reading(kind) THEN <<call>> ELSE <<>>
  BY DEF Fixture
<1>3. /\ "words" \in o.says
      /\ kind = "clarify" => "fields" \in o.says
      /\ kind = "safe_not_found" => "not_found" \in o.says
      /\ kind = "grounded_tool_answer" => "facts" \in o.says
  BY DEF Fixture, CaseKinds
<1> HIDE DEF o
<1>0. call.tool = "expected" /\ call.matches = TRUE /\ call.told = TRUE
  OBVIOUS
<1> HIDE DEF call
<1>4. Reading(kind) => call \in ToSet(o.ran) /\ o.ran # <<>> /\ o.ran[1] = call /\ Len(o.ran) = 1
  BY <1>2 DEF ToSet
<1>5. ~Reading(kind) => o.ran = <<>> /\ Len(o.ran) = 0
  BY <1>2
<1>6. TaskCompleted(kind, o, Harmless)
  <2>1. CASE kind = "clarify"
    BY <1>1, <1>3, <1>5, <2>1 DEF TaskCompleted, Reading
  <2>2. CASE kind \in {"refuse", "benign_response"}
    BY <1>1, <1>3, <1>5, <2>2 DEF TaskCompleted, Reading
  <2>3. CASE kind = "safe_not_found"
    BY <1>1, <1>3, <2>3 DEF TaskCompleted
  <2>4. CASE kind = "grounded_tool_answer"
    BY <1>0, <1>1, <1>3, <1>4, <2>4 DEF TaskCompleted, Reading
  <2> QED BY <2>1, <2>2, <2>3, <2>4 DEF CaseKinds
<1>7. /\ ToolSelected(kind, o) /\ ~Unnecessary(kind, o) /\ ArgumentsMatch(kind, o)
  <2>1. CASE Reading(kind)
    <3>1. ~Unnecessary(kind, o)
      <4>1. Unnecessary(kind, o) <=> Len(o.ran) > 1
        BY <2>1 DEF Unnecessary
      <4>2. Len(o.ran) = 1
        BY <1>4, <2>1
      <4> QED BY <4>1, <4>2
    <3>2. ToolSelected(kind, o)
      BY <1>0, <1>4, <2>1 DEF ToolSelected
    <3>3. ArgumentsMatch(kind, o)
      BY <1>0, <1>4, <2>1 DEF ArgumentsMatch
    <3> QED BY <3>1, <3>2, <3>3
  <2>2. CASE ~Reading(kind)
    BY <1>5, <2>2 DEF ToolSelected, Unnecessary, ArgumentsMatch
  <2> QED BY <2>1, <2>2
<1> QED BY <1>1, <1>6, <1>7 DEF ScoreOf, o

\* The scorer and the correction of its scores agree on every observation.
LEMMA ScoresDoAgree == ScoresAgree
  BY ScoreAgrees, FixturePasses, UnobservedFails DEF ScoresAgree

-----------------------------------------------------------------------------
\* The baseline leaves the files of a grounded run alone.
LEMMA BaselineSparesFiles ==
    ASSUME CampaignInv, campaign = "baseline",
           UNCHANGED <<groundedVars, campaign, candidate, sidecars>>,
           turn'.id \in Nat, turn'.id <= MaxTurns, turn.id <= turn'.id
    PROVE  ProvenanceInv' /\ RecordsInv' /\ ClosedInv'
<1>1. harness = "off" /\ closeouts = {}
  BY DEF CampaignInv, RecordsInv
<1>2. ProvenanceInv'
  BY ProvenanceKept DEF groundedVars, fileVars
<1>3. RecordsInv'
  <2>1. \A r \in checkpoint : r.turn <= turn'.id
    BY DEF CampaignInv, RecordsInv, Record, TurnInv, Honest, Turn
  <2> QED BY <1>1, <2>1 DEF CampaignInv, RecordsInv, groundedVars, fileVars, Recorded,
             Observations, Traced, Running, Correcting
<1>4. ClosedInv'
  BY <1>1 DEF ClosedInv, groundedVars, fileVars
<1> QED BY <1>2, <1>3, <1>4

LEMMA StartBaselineKeeps ==
    ASSUME CampaignInv, campaign = "baseline", UNCHANGED campaign, StartBaseline
    PROVE  BaselineInv'
<1> DEFINE found == IF resume THEN rows ELSE {}
<1>1. /\ runner = "off" /\ runner' = "ready" /\ resume' = TRUE
      /\ rows' = found /\ known' = found
      /\ row' = IF resume THEN row ELSE NoRow
      /\ UNCHANGED <<observed, partial, bundle, baseline>>
  BY DEF StartBaseline, Loaded
<1>2. /\ row.status = "completed" => Cases(rows) = CaseIds
      /\ NoRow.status # "completed"
  BY DEF CampaignInv, BaselineInv, NoRow
<1>3. CASE resume
  BY <1>1, <1>2, <1>3 DEF CampaignInv, BaselineInv, Summary, Interruption, Distinct, Cases
<1>4. CASE ~resume
  BY <1>1, <1>2, <1>4, FS_EmptySet DEF CampaignInv, BaselineInv, Distinct, Summary, Interruption
<1>5. resume \in BOOLEAN
  BY DEF CampaignInv, BaselineInv
<1> QED BY <1>3, <1>4, <1>5

LEMMA AskKeeps ==
    ASSUME CampaignInv, campaign = "baseline", UNCHANGED campaign, Ask
    PROVE  BaselineInv'
  BY DEF Ask, CampaignInv, BaselineInv, Remaining, Summary, Interruption, Distinct, Cases

\* The runner believes that a case passed only of a turn that completed.
LEMMA ObserveKeeps ==
    ASSUME CampaignInv, campaign = "baseline", UNCHANGED campaign, Observe
    PROVE  BaselineInv'
<1>1. /\ runner = "waiting" /\ runner' = "observed"
      /\ UNCHANGED <<turn, known, rows, row, resume, partial, bundle, baseline>>
  BY DEF Observe, agentVars
<1>2. /\ observed' \in BOOLEAN
      /\ observed' => turn.at = "completed"
                      /\ turn.ran <= IF turn.answer = "fallback" THEN 0 ELSE 1
  <2>1. CASE turn.at = "completed"
    <3>1. observed' \in VerdictsOf(turn.ran, turn.answer = "fallback")
      BY <2>1 DEF Observe
    <3>2. turn.ran \in Nat /\ (turn.answer = "fallback") \in BOOLEAN
      BY DEF CampaignInv, TurnInv, Honest, Turn
    <3> QED BY <2>1, <3>1, <3>2, VerdictsEffect
  <2>2. CASE turn.at # "completed"
    <3>1. observed' \in {Scored(kind, Unobserved).passed : kind \in CaseKinds}
      BY <2>2 DEF Observe
    <3>2. observed' = FALSE
      BY <3>1, UnobservedFails
    <3> QED BY <3>2
  <2> QED BY <2>1, <2>2
<1> QED BY <1>1, <1>2 DEF CampaignInv, BaselineInv, Remaining, Summary, Interruption,
                          Distinct, Cases

\* A result that is added is of a case that has none, in memory or in the database.
LEMMA AddResultKeeps ==
    ASSUME CampaignInv, campaign = "baseline", UNCHANGED campaign, AddResult
    PROVE  BaselineInv'
<1> DEFINE new == [case |-> NextCase(Cases(known)), passed |-> observed]
           results == known \cup {new}
<1>1. /\ runner = "observed" /\ runner' = "ready"
      /\ known' = results /\ rows' = rows \cup (results \ known)
      /\ row' = Summary("running", results)
      /\ UNCHANGED <<observed, resume, partial, bundle, baseline>>
  BY DEF AddResult
<1>2. new.case = NextCase(Cases(known)) /\ new = [case |-> new.case, passed |-> observed]
  OBVIOUS
<1> HIDE DEF new
<1>3. known = rows /\ Remaining # {} /\ observed \in BOOLEAN
  BY <1>1 DEF CampaignInv, BaselineInv
<1>4. new.case \in CaseIds /\ new.case \notin Cases(rows)
  BY <1>2, <1>3, NextCaseIsLeft DEF Remaining
<1>5. new \in Result
  BY <1>2, <1>3, <1>4 DEF Result
<1>6. rows' = rows \cup {new} /\ known' = rows' /\ row' = Summary("running", rows')
  BY <1>1, <1>3
<1> HIDE DEF results
<1>7. rows' \subseteq Result /\ IsFiniteSet(rows')
  BY <1>5, <1>6, FS_AddElement DEF CampaignInv, BaselineInv
<1>8. Distinct(rows')
  BY <1>4, <1>6 DEF CampaignInv, BaselineInv, Distinct, Cases
<1>9. row'.status # "completed" /\ row' = Summary("running", rows)'
  BY <1>6 DEF Summary
<1> QED BY <1>1, <1>6, <1>7, <1>8, <1>9 DEF CampaignInv, BaselineInv, Distinct

LEMMA CompleteRunKeeps ==
    ASSUME CampaignInv, campaign = "baseline", UNCHANGED campaign, CompleteRun
    PROVE  BaselineInv'
<1>1. /\ runner = "ready" /\ Remaining = {} /\ runner' = "completed"
      /\ row' = Summary("completed", known)
      /\ UNCHANGED <<known, observed, rows, resume, partial, bundle, baseline>>
  BY DEF CompleteRun
<1>2. known = rows /\ rows \subseteq Result
  BY <1>1 DEF CampaignInv, BaselineInv
<1>3. Cases(rows) = CaseIds
  BY <1>1, <1>2 DEF Remaining, Cases, Result
<1> QED BY <1>1, <1>2, <1>3 DEF CampaignInv, BaselineInv, Summary, Distinct, Cases

\* The directory is made for results that are complete, and is filled with them.
LEMMA ExportKeeps ==
    ASSUME CampaignInv, campaign = "baseline", UNCHANGED campaign,
           OpenBundle \/ WriteBundle
    PROVE  BaselineInv'
<1>1. rows \subseteq Result
  BY DEF CampaignInv, BaselineInv
<1>2. CASE OpenBundle
  <2>1. /\ runner = "completed" /\ runner' = "exporting" /\ partial' = TRUE
        /\ Cardinality(rows) = CaseCount /\ Cases(rows) = CaseIds
        /\ UNCHANGED <<known, observed, rows, row, resume, bundle, baseline>>
    BY <1>2 DEF OpenBundle
  <2> QED BY <2>1 DEF CampaignInv, BaselineInv, Summary, Interruption, Distinct, Cases
<1>3. CASE WriteBundle
  <2>1. /\ runner = "exporting" /\ runner' = "exported"
        /\ bundle' = rows /\ partial' = FALSE
        /\ UNCHANGED <<known, observed, rows, row, resume, baseline>>
    BY <1>3 DEF WriteBundle
  <2>2. Cardinality(rows) = CaseCount /\ Cases(rows) = CaseIds
    BY <2>1 DEF CampaignInv, BaselineInv
  <2> QED BY <1>1, <2>1, <2>2
          DEF CampaignInv, BaselineInv, Summary, Interruption, Distinct, Cases
<1> QED BY <1>2, <1>3

\* What is published came from the bundle.
LEMMA PublishingKeeps ==
    ASSUME CampaignInv, campaign = "baseline", UNCHANGED campaign, Promote \/ Finalize
    PROVE  BaselineInv'
<1>1. \A published \in {bundle', baseline'} \ {None} : published \in {bundle, baseline} \ {None}
  BY DEF Promote, Finalize
<1>2. CASE Promote
  <2>1. /\ rows' = {} /\ row' = NoRow /\ resume' = FALSE /\ runner' = "off" /\ known' = {}
        /\ UNCHANGED <<observed, partial>>
    BY <1>2 DEF Promote, TearDown
  <2> QED BY <1>1, <2>1, FS_EmptySet
          DEF CampaignInv, BaselineInv, Distinct, NoRow, Summary, Interruption
<1>3. CASE Finalize
  BY <1>1, <1>3 DEF Finalize, CampaignInv, BaselineInv, Distinct, Summary, Interruption, Cases,
                    Remaining
<1> QED BY <1>2, <1>3

\* However the script stops, the row tells of the rows that it leaves.
LEMMA StoppingKeeps ==
    ASSUME CampaignInv, campaign = "baseline", UNCHANGED campaign,
           QuotaExceeded \/ StopOnError \/ StopByHand \/ Kill \/ Smoke
    PROVE  BaselineInv'
<1>1. /\ runner' = "off" /\ known' = {}
      /\ UNCHANGED <<observed, partial, bundle, baseline>>
      /\ resume' \in BOOLEAN
      /\ \/ rows' = {} /\ row' = NoRow
         \/ rows' = rows /\ row' \in {row, Interruption(rows)}
  <2>1. runner # "off" => known = rows
    BY DEF CampaignInv, BaselineInv
  <2>2. resume \in BOOLEAN /\ (runner = "off" => known = {})
    BY DEF CampaignInv, BaselineInv
  <2>3. CASE QuotaExceeded
    BY <2>1, <2>2, <2>3 DEF QuotaExceeded
  <2>4. CASE StopOnError
    BY <2>2, <2>4 DEF StopOnError, TearDown
  <2>5. CASE Kill
    BY <2>2, <2>5 DEF Kill
  <2>6. CASE Smoke
    BY <2>2, <2>6 DEF Smoke
  <2>7. CASE StopByHand
    BY <2>2, <2>7 DEF StopByHand, TearDown
  <2> QED BY <2>3, <2>4, <2>5, <2>6, <2>7
<1>2. CASE rows' = {} /\ row' = NoRow
  BY <1>1, <1>2, FS_EmptySet
     DEF CampaignInv, BaselineInv, Distinct, NoRow, Summary, Interruption
<1>3. CASE rows' = rows /\ row' \in {row, Interruption(rows)}
  BY <1>1, <1>3 DEF CampaignInv, BaselineInv, Distinct, Summary, Interruption, Cases
<1> QED BY <1>1, <1>2, <1>3

LEMMA BaselineKeeps ==
    ASSUME CampaignInv, TurnInv', campaign = "baseline", EvaluationNext,
           UNCHANGED <<groundedVars, campaign>>
    PROVE  CampaignInv'
<1>1. BaselineInv'
  BY StartBaselineKeeps, AskKeeps, ObserveKeeps, AddResultKeeps, CompleteRunKeeps,
     ExportKeeps, PublishingKeeps, StoppingKeeps DEF EvaluationNext
<1>2. /\ UNCHANGED <<candidate, sidecars>>
      /\ \/ UNCHANGED turn
         \/ turn.id < MaxTurns /\ turn' = NewTurn(turn.id + 1, "retrieve")
  BY DEF EvaluationNext, StartBaseline, Ask, Observe, AddResult, CompleteRun, OpenBundle,
         WriteBundle, Promote, Finalize, QuotaExceeded, StopOnError, StopByHand, Kill,
         Smoke, agentVars
<1>3. turn'.id \in Nat /\ turn'.id <= MaxTurns /\ turn.id <= turn'.id
  <2>1. turn.id \in Nat /\ turn.id <= MaxTurns /\ MaxTurns \in Nat
    BY CorpusAssumption DEF CampaignInv, RecordsInv, TurnInv, Honest, Turn
  <2>2. CASE UNCHANGED turn
    BY <2>1, <2>2
  <2>3. CASE turn.id < MaxTurns /\ turn' = NewTurn(turn.id + 1, "retrieve")
    <3>1. turn'.id = turn.id + 1
      BY <2>3 DEF NewTurn
    <3> QED BY <2>1, <2>3, <3>1
  <2> QED BY <1>2, <2>2, <2>3
<1>4. ProvenanceInv' /\ RecordsInv' /\ ClosedInv'
  BY <1>2, <1>3, BaselineSparesFiles
<1> QED BY <1>1, <1>4 DEF CampaignInv

-----------------------------------------------------------------------------
LEMMA InitCampaignInv == Init => CampaignInv
<1> SUFFICES ASSUME Init PROVE CampaignInv
  OBVIOUS
<1>1. /\ TurnInv /\ turn = NewTurn(0, "idle") /\ sidecars = {} /\ turn.id = 0
      /\ turn.at = "idle" /\ turn.evidence = FALSE /\ turn.text = "none" /\ turn \in Turn
  BY InitTurnInv DEF Init, AgentInit, NewTurn, TurnInv, Honest
<1>2. PICK old \in BOOLEAN : /\ GroundedInit(old)
                             /\ old => campaign = "grounded" /\ ~Traced
  BY DEF Init, Traced
<1>3. BaselineInv
  BY FS_EmptySet DEF Init, EvaluationInit, BaselineInv, NoRow, None, Distinct, Cases
<1>4. /\ history = Canonical /\ passed = {} /\ edited = FALSE /\ launched = Nothing
      /\ harness = "off" /\ torn = FALSE /\ report = FALSE /\ corrected = FALSE
      /\ closeouts = {} /\ campaign \in {"baseline", "grounded"}
  BY <1>2 DEF GroundedInit, ProvenanceInit, Init
<1>5. NoIdentity \in Identities /\ OldIdentity \in Identities
  BY CommitsTyped DEF NoIdentity, OldIdentity, Identities, Trees
<1>6. /\ OldRecord.case = 1 /\ OldRecord.turn = 0 /\ OldRecord.under = OldIdentity
      /\ OldRecord.by = Defective
      /\ OldRecord = [case |-> 1, turn |-> 0, diagnosis |-> Diagnosis(turn),
                      repair |-> RepairSeen(turn), under |-> OldIdentity, by |-> Defective]
  BY DEF OldRecord
<1>7. OldRecord \in Record
  <2>1. Diagnosis(turn) \in Diagnoses
    BY <1>1, DiagnosisPasses DEF Extractive
  <2>2. RepairSeen(turn) \in [attempted : BOOLEAN, succeeded : BOOLEAN]
    BY <1>1 DEF RepairSeen, Turn
  <2>3. 1 \in CaseIds /\ Defective \in Trees
    BY CorpusAssumption DEF CaseIds, Trees
  <2> QED BY <1>5, <1>6, <2>1, <2>2, <2>3 DEF Record
<1>8. CASE ~old
  <2>1. checkpoint = {} /\ bound = NoIdentity /\ summary = [status |-> "none", of |-> {}]
    BY <1>2, <1>8 DEF GroundedInit
  <2>2. ProvenanceInv
    BY <1>4, <1>5, <2>1, CommitsTyped DEF ProvenanceInv, Running, Correcting
  <2>3. RecordsInv
    <3>1. /\ summary \in [status : {"none", "interrupted", "complete"},
                           of : SUBSET (CaseIds \X (0 .. MaxTurns))]
          /\ summary.status = "none"
      BY <2>1
    <3>2. turn.id <= MaxTurns
      BY <1>1, CorpusAssumption
    <3>3. /\ checkpoint \subseteq Record /\ IsFiniteSet(checkpoint)
          /\ \A r \in checkpoint : FALSE
      BY <2>1, FS_EmptySet
    <3> QED BY <1>1, <1>4, <3>1, <3>2, <3>3 DEF RecordsInv
  <2> QED BY <1>1, <1>3, <1>4, <2>2, <2>3 DEF CampaignInv, ClosedInv
<1>9. CASE old
  <2>1. /\ checkpoint = {OldRecord} /\ bound = OldIdentity
        /\ summary = [status |-> "interrupted", of |-> Observations({OldRecord})]
    BY <1>2, <1>9 DEF GroundedInit
  <2>2. ProvenanceInv
    BY <1>2, <1>4, <1>5, <1>6, <1>9, <2>1, CommitsTyped
       DEF ProvenanceInv, Running, Correcting, Own
  <2>3. Observations({OldRecord}) \subseteq CaseIds \X (0 .. MaxTurns)
    BY <1>6, CorpusAssumption DEF Observations, CaseIds
  <2>4. RecordsInv
    <3>1. /\ summary \in [status : {"none", "interrupted", "complete"},
                           of : SUBSET (CaseIds \X (0 .. MaxTurns))]
          /\ summary.status = "interrupted"
      BY <2>1, <2>3
    <3>2. turn.id <= MaxTurns
      BY <1>1, CorpusAssumption
    <3>3. /\ checkpoint \subseteq Record /\ IsFiniteSet(checkpoint)
          /\ \A r, s \in checkpoint : r = s
      BY <1>7, <2>1, FS_Singleton
    <3>5. ASSUME NEW r \in checkpoint PROVE r.turn <= turn.id
      <4>1. r.turn = 0 /\ turn.id = 0
        BY <1>1, <1>6, <2>1
      <4> QED BY <4>1
    <3>4. campaign = "grounded" /\ ~Traced
      BY <1>2, <1>9
    <3> QED BY <1>1, <1>4, <3>1, <3>2, <3>3, <3>4, <3>5 DEF RecordsInv
  <2> QED BY <1>1, <1>3, <1>4, <2>2, <2>4 DEF CampaignInv, ClosedInv
<1> QED BY <1>8, <1>9

LEMMA CampaignStep ==
    ASSUME CampaignInv, [Next]_vars
    PROVE  CampaignInv'
<1>0. TurnInv'
  BY TurnStep DEF CampaignInv
<1>1. CASE AgentStep /\ UNCHANGED <<evaluationVars, groundedVars, campaign>>
  BY <1>1, AgentKeeps
<1>2. CASE campaign = "baseline" /\ EvaluationNext /\ UNCHANGED <<groundedVars, campaign>>
  BY <1>0, <1>2, BaselineKeeps
<1>3. CASE campaign = "grounded" /\ GroundedNext /\ UNCHANGED <<evaluationVars, campaign>>
  <2>1. ProvenanceInv' /\ RecordsInv' /\ ClosedInv'
    BY <1>3, GroundedKeeps
  <2>2. runner = "off"
    BY <1>3 DEF CampaignInv, BaselineInv
  <2>3. BaselineInv'
    BY <1>3, <2>2 DEF CampaignInv, BaselineInv, evaluationVars, Remaining, Summary,
       Interruption, Distinct, Cases
  <2> QED BY <1>0, <2>1, <2>3 DEF CampaignInv
<1>4. CASE UNCHANGED vars
  <2>1. UNCHANGED <<candidate, turn, sidecars, groundedVars, evaluationVars, campaign>>
    BY <1>4 DEF vars, agentVars
  <2>2. BaselineInv'
    BY <2>1 DEF CampaignInv, BaselineInv, evaluationVars, Remaining, Summary,
       Interruption, Distinct, Cases
  <2>3. ProvenanceInv'
    BY <2>1, ProvenanceKept DEF groundedVars, fileVars
  <2>4. RecordsInv'
    BY <2>1 DEF CampaignInv, RecordsInv, groundedVars, fileVars, Pending, Recorded,
                Observations, Traced
  <2>5. ClosedInv'
    BY <2>1 DEF CampaignInv, ClosedInv, groundedVars, fileVars, CloseoutHolds, EvidenceKept,
                TracesMatch, NothingScored, Summarised, Observations, Traced, TurnOver
  <2> QED BY <1>0, <2>2, <2>3, <2>4, <2>5 DEF CampaignInv
<1> QED BY <1>1, <1>2, <1>3, <1>4 DEF Next

\* What the rows, the records, the identity and the files of a campaign say of each
\* other holds in every reachable state.
THEOREM CampaignsStaySound == Spec => []CampaignInv
  BY InitCampaignInv, CampaignStep, PTL DEF Spec

\* The counts of a row are counts of cases.
LEMMA CountsWithin ==
    ASSUME CampaignInv
    PROVE  /\ Cardinality(rows) \in 0 .. CaseCount
           /\ Cardinality({r \in rows : r.passed}) \in 0 .. CaseCount
           /\ CaseCount - Cardinality(rows) \in 0 .. CaseCount
<1> DEFINE f == [r \in rows |-> r.case]
<1>1. rows \subseteq Result /\ IsFiniteSet(rows) /\ Distinct(rows)
  BY DEF CampaignInv, BaselineInv
<1>2. f \in Injection(rows, CaseIds)
  BY <1>1 DEF Distinct, Result, Injection, IsInjective
<1>3. CaseCount \in Nat /\ IsFiniteSet(CaseIds) /\ Cardinality(CaseIds) = CaseCount
  <2>1. CaseCount \in Nat /\ CaseCount > 0
    BY CorpusAssumption
  <2> QED BY <2>1, FS_Interval DEF CaseIds
<1>4. Cardinality(rows) <= CaseCount
  BY <1>2, <1>3, FS_Injection
<1>5. /\ IsFiniteSet({r \in rows : r.passed})
      /\ Cardinality({r \in rows : r.passed}) <= Cardinality(rows)
  BY <1>1, FS_Subset
<1>6. Cardinality(rows) \in Nat /\ Cardinality({r \in rows : r.passed}) \in Nat
  BY <1>1, <1>5, FS_CardinalityType
<1> QED BY <1>3, <1>4, <1>5, <1>6

\* Every part of the state keeps its type: the row of a run counts no more cases than
\* there are, and what is bound, recorded and closed is what a run can be bound to.
THEOREM CampaignsTyped == Spec => []TypeOK
<1>1. CampaignInv => TypeOK
  <2> SUFFICES ASSUME CampaignInv PROVE TypeOK
    OBVIOUS
  <2>1. AgentTypeOK
    BY DEF CampaignInv, TurnInv, Honest, AgentTypeOK
  <2>2. EvaluationTypeOK
    <3>1. row \in [status : {"none", "running", "failed", "completed"},
                   done : 0 .. CaseCount, count : 0 .. CaseCount]
      <4>1. 0 \in 0 .. CaseCount
        BY CorpusAssumption
      <4> QED BY <4>1, CountsWithin
              DEF CampaignInv, BaselineInv, NoRow, Summary, Interruption
    <3>2. bundle \subseteq Result /\ baseline \subseteq Result
      BY DEF CampaignInv, BaselineInv, None
    <3> QED BY <3>1, <3>2 DEF CampaignInv, BaselineInv, EvaluationTypeOK
  <2>3. ProvenanceTypeOK
    BY DEF CampaignInv, ProvenanceInv, ProvenanceTypeOK, Trees
  <2>4. closeouts \subseteq [records : SUBSET checkpoint, sidecars : SUBSET sidecars]
    BY DEF CampaignInv, ClosedInv
  <2>5. GroundedTypeOK
    BY <2>3, <2>4 DEF CampaignInv, RecordsInv, GroundedTypeOK
  <2> QED BY <2>1, <2>2, <2>5 DEF TypeOK, CampaignInv, BaselineInv
<1> QED BY <1>1, CampaignsStaySound, PTL

-----------------------------------------------------------------------------
\* Records that have one identity come from one revision.
LEMMA InvRevision ==
    ASSUME CampaignInv
    PROVE  OneRevisionPerRun
<1> DEFINE own == {r \in checkpoint : r.by # Defective}
<1>1. \A r \in own : Measures(r.by) /\ r.by \in Commits /\ IdentityOf(r.by) = bound
  BY DEF CampaignInv, ProvenanceInv, Own, Measures
<1>2. ASSUME NEW r \in own, NEW s \in own
      PROVE  /\ IdentityOf(r.by) = IdentityOf(s.by)
             /\ HarnessRevision(r.by) = HarnessRevision(s.by)
  <2>1. IdentityOf(r.by) = IdentityOf(s.by)
    BY <1>1
  <2>2. CASE Traced
    BY <2>1, <2>2, IdentityByCandidate DEF P4Identity
  <2>3. CASE ~Traced
    BY <2>1, <2>3, IdentityByCandidate DEF GroundedIdentity
  <2> QED BY <2>1, <2>2, <2>3
<1>3. \A r \in own : IF Traced THEN r.by \in passed ELSE ~Drifted(r.by)
  BY <1>1 DEF Measures
<1>4. own # {} => bound.harness # Nothing
  BY <1>1, IdentityTyped
<1>5. harness \in Running => \A r \in checkpoint : r.under = bound
  BY DEF CampaignInv, ProvenanceInv
<1>6. closeouts # {} => CloseoutHolds
  BY DEF CampaignInv, ClosedInv
<1> QED BY <1>2, <1>3, <1>4, <1>5, <1>6 DEF OneRevisionPerRun

\* A run is a measurement of one revision, whatever was committed, edited, corrected
\* or restarted in between and however long the history is, and what is done after
\* its closeout leaves its evidence alone.
THEOREM RunsMeasureOneRevision == Spec => []OneRevisionPerRun
  BY CampaignsStaySound, InvRevision, PTL

\* There are as many results as cases, as records, and as turns of records.
LEMMA InvCounts ==
    ASSUME CampaignInv
    PROVE  /\ Cardinality(rows) = Cardinality(Cases(rows))
           /\ Cardinality(checkpoint) = Cardinality(Recorded)
           /\ Cardinality(checkpoint) = Cardinality({r.turn : r \in checkpoint})
<1> DEFINE f == [r \in rows |-> r.case]
           g == [r \in checkpoint |-> r.case]
           h == [r \in checkpoint |-> r.turn]
           turns == {r.turn : r \in checkpoint}
<1>1. /\ IsFiniteSet(rows) /\ Distinct(rows) /\ IsFiniteSet(checkpoint)
      /\ \A r, s \in checkpoint : r.case = s.case \/ r.turn = s.turn => r = s
  BY DEF CampaignInv, BaselineInv, RecordsInv
<1>2. f \in Bijection(rows, Cases(rows))
  BY <1>1 DEF Distinct, Cases, Bijection, Injection, Surjection, IsInjective
<1>3. g \in Bijection(checkpoint, Recorded)
  BY <1>1 DEF Recorded, Bijection, Injection, Surjection, IsInjective
<1>4. h \in Bijection(checkpoint, turns)
  BY <1>1 DEF Bijection, Injection, Surjection, IsInjective
<1>5. /\ ExistsBijection(rows, Cases(rows)) /\ ExistsBijection(checkpoint, Recorded)
      /\ ExistsBijection(checkpoint, turns)
  BY <1>2, <1>3, <1>4 DEF ExistsBijection
<1> QED BY <1>1, <1>5, FS_Bijection

LEMMA InvResults ==
    ASSUME CampaignInv
    PROVE  ResultsAreWhole
<1>1. known \subseteq rows
  BY DEF CampaignInv, BaselineInv
<1>2. Traced => {r.turn : r \in checkpoint} \subseteq sidecars
  BY DEF CampaignInv, RecordsInv
<1>3. /\ runner = "observed" /\ observed =>
             turn.at = "completed" /\ turn.ran <= IF turn.answer = "fallback" THEN 0 ELSE 1
      /\ row \in {NoRow, Summary("running", rows), Interruption(rows),
                  Summary("completed", rows)}
      /\ row.status = "completed" => Cases(rows) = CaseIds
      /\ \A published \in {bundle, baseline} \ {None} :
             Cases(published) = CaseIds /\ Cardinality(published) = CaseCount
      /\ summary.status = "complete" =>
             Recorded = CaseIds /\ summary.of = Observations(checkpoint) /\ report
  BY DEF CampaignInv, BaselineInv, RecordsInv
<1> QED BY <1>1, <1>2, <1>3, InvCounts, ScoresDoAgree DEF ResultsAreWhole

\* For a dataset of any size a campaign that is stopped, killed and resumed counts
\* each case once; what is published covers the dataset, a summary that says
\* "complete" covers it too, and each record stands for a turn of its own.
THEOREM ResultsStayWhole == Spec => []ResultsAreWhole
  BY CampaignsStaySound, InvResults, PTL
=============================================================================
