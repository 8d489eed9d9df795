--------------------------- MODULE RunProvenance ---------------------------
(***************************************************************************)
(* What a canonical run of the grounded evaluation is bound to: the state  *)
(* of the repository when its process is launched, and the identity in the *)
(* sidecar of its checkpoint (evaluation/m5d_run_identity.py).  A commit   *)
(* is the sequence of the kinds of change that led to it from the commit   *)
(* the experiment was registered with.                                     *)
(***************************************************************************)
EXTENDS AgentTurn, Sequences, FiniteSetsExt

CONSTANT MaxCommits   \* bound on the commits made during a campaign

ASSUME CommitAssumption == MaxCommits \in Nat

VARIABLES
    history,    \* HEAD
    edited,     \* the working tree differs from it outside the generated files
    passed,     \* the commits on which every job of the hosted CI succeeded
    launched,   \* what the evaluation process was launched from
    bound       \* the identity in the sidecar of the checkpoint

provenanceVars == <<history, edited, passed, launched, bound>>

Kinds == {"application", "harness", "evidence"}
Commits == UNION {[1 .. n -> Kinds] : n \in 0 .. MaxCommits}
Canonical == <<>>
Defective == <<"defective">>    \* the harness that named the wrong versions
Nothing == <<"nothing">>
Trees == Commits \cup {Defective, Nothing} \cup {Append(c, "edit") : c \in Commits}
Identities == [evaluated : Trees, harness : Trees]
NoIdentity == [evaluated |-> Nothing, harness |-> Nothing]
OldIdentity == [evaluated |-> Canonical, harness |-> Nothing]

ProvenanceTypeOK ==
    /\ history \in Commits /\ passed \subseteq Commits
    /\ edited \in BOOLEAN
    /\ launched \in Trees
    /\ bound \in Identities

ProvenanceInit ==
    /\ history = Canonical /\ passed = {}
    /\ edited = FALSE
    /\ launched = Nothing

\* What a process launched now runs.
WorkingTree == IF edited THEN Append(history, "edit") ELSE history

Drifted(tree) == \E i \in DOMAIN tree : tree[i] \in {"application", "edit"}

\* git log -1 over the files of the harness
HarnessRevision(tree) ==
    SubSeq(tree, 1, Max({0} \cup {i \in DOMAIN tree : tree[i] = "harness"}))

\* require_canonical_revisions
RevisionsCanonical == ~edited /\ ~Drifted(history)

\* require_committed_behavior, and a freeze that is HEAD and green
FrozenAndGreen == ~edited /\ history \in passed

\* build_p4_run_identity: the freeze is what is evaluated, HEAD what evaluates it;
\* build_p5_run_identity, where both are HEAD as well.
P4Identity(tree) == [evaluated |-> tree, harness |-> tree]
P5Identity(tree) == P4Identity(tree)
GroundedIdentity(tree) == [evaluated |-> Canonical, harness |-> HarnessRevision(tree)]

\* An identity that names the application and forgets what measures it.
IdentityOf_Application(tree) ==
    IF Traced THEN P4Identity(tree)
    ELSE [evaluated |-> Canonical, harness |-> Canonical]

IdentityOf(tree) ==
    CASE candidate = "P4" -> P4Identity(tree)
      [] candidate = "P5" -> P5Identity(tree)
      [] OTHER            -> GroundedIdentity(tree)

-----------------------------------------------------------------------------
Edit ==
    /\ edited' = ~edited
    /\ UNCHANGED <<agentVars, history, passed, launched, bound>>

\* A run bound to one commit does not care which files the next one changes.
Commit ==
    /\ Len(history) < MaxCommits
    /\ history' \in {Append(history, kind) :
                         kind \in IF Traced THEN {"application"} ELSE Kinds}
    /\ edited' = FALSE
    /\ UNCHANGED <<agentVars, passed, launched, bound>>

CiSucceeds ==
    /\ Traced /\ history \notin passed
    /\ passed' = passed \cup {history}
    /\ UNCHANGED <<agentVars, history, edited, launched, bound>>

RepositoryStep == Edit \/ Commit \/ CiSucceeds
=============================================================================
