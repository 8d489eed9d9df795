------------------------- MODULE KnowledgeRetrieval -------------------------
(***************************************************************************)
(* One query at a time against the document while its versions are         *)
(* ingested and activated.  The two searches run in one READ COMMITTED     *)
(* transaction, so each has its own snapshot; fusion, the gate and the     *)
(* trace come after it.                                                    *)
(*                                                                         *)
(* Source: src/verbaops/retrieval/service.py and repository.py.            *)
(***************************************************************************)
EXTENDS KnowledgeIngestion, RankFusion

CONSTANTS
    Chunks,       \* chunk ids in the order of their text: a set of numbers
    VersionOf,    \* the version each chunk belongs to
    DenseLimit,   \* profile.dense_limit
    LexicalLimit, \* profile.lexical_limit
    FusedLimit,   \* profile.fused_limit
    FinalLimit    \* profile.final_limit

ASSUME RetrievalAssumption ==
    /\ Chunks \subseteq Nat /\ IsFiniteSet(Chunks)
    /\ DenseLimit \in Nat \ {0} /\ LexicalLimit \in Nat \ {0}
    /\ VersionOf \in [Chunks -> Versions]
    /\ FusedLimit \in Nat \ {0} /\ FinalLimit \in 1 .. FusedLimit

VARIABLES
    query,      \* where RetrievalService.retrieve stands
    dense,      \* result of search_dense
    lexical,    \* result of search_lexical
    evidence,   \* the evidence of the trace written last
    served      \* history: versions active at some time during the query

retrievalVars == <<query, dense, lexical, evidence, served>>
vars == <<ingestionVars, retrievalVars>>

TypeOK ==
    /\ IngestionTypeOK
    /\ query \in {"idle", "dense", "lexical", "fused"}
    /\ ToSet(dense) \cup ToSet(lexical) \cup ToSet(evidence) \subseteq Chunks
    /\ served \subseteq Versions

Init ==
    /\ IngestionInit
    /\ query = "idle"
    /\ dense = <<>> /\ lexical = <<>> /\ evidence = <<>>
    /\ served = {}

\* Faulty variant: the searches see whatever is stored.
Searchable_Stored == {c \in Chunks : VersionOf[c] \in chunked}

\* _base_statement: the chunks a search may return.
Searchable == {c \in Chunks : VersionOf[c] \in Active /\ VersionOf[c] \in chunked}

\* What a search may return of the chunks that match it: the first ones of
\* any order.
Rankings(found, limit) ==
    UNION {SetToSeqs(S) : S \in {T \in SUBSET found :
        Cardinality(T) = IF Cardinality(found) < limit THEN Cardinality(found) ELSE limit}}

-----------------------------------------------------------------------------
\* The query is embedded; that failing is a trace without candidates.
StartQuery ==
    /\ query = "idle"
    /\ evidence' = <<>>
    /\ \/ query' = "dense" /\ served' = Active
       \/ UNCHANGED <<query, served>>
    /\ UNCHANGED <<dense, lexical>>

\* Every searchable chunk has a distance to the query.
SearchDense ==
    /\ query = "dense"
    /\ dense' \in Rankings(Searchable, DenseLimit)
    /\ query' = "lexical"
    /\ UNCHANGED <<lexical, evidence, served>>

\* Any of the chunks may hold the words of the query.
SearchLexical ==
    /\ query = "lexical"
    /\ \E S \in SUBSET Searchable : lexical' \in Rankings(S, LexicalLimit)
    /\ query' = "fused"
    /\ UNCHANGED <<dense, evidence, served>>

\* Fusion, gate and persist_trace, whose rows refer to the chunks' rows.
Conclude ==
    /\ query = "fused"
    /\ evidence' = Select(dense, lexical, FusedLimit, FinalLimit)
    /\ query' = "idle"
    /\ dense' = <<>> /\ lexical' = <<>>
    /\ UNCHANGED served

\* Losing the database in the middle of a query is an error of the whole turn.
QueryFails ==
    /\ query # "idle"
    /\ query' = "idle"
    /\ evidence' = <<>> /\ dense' = <<>> /\ lexical' = <<>>
    /\ UNCHANGED served

RetrievalNext == StartQuery \/ SearchDense \/ SearchLexical \/ Conclude \/ QueryFails

\* History: what becomes active while a query is under way.
Witness == served' = served \cup (IF query = "idle" THEN {} ELSE Active')

Next ==
    \/ RetrievalNext /\ UNCHANGED ingestionVars
    \/ IngestionNext /\ Witness /\ UNCHANGED <<query, dense, lexical, evidence>>

Spec == Init /\ [][Next]_vars

-----------------------------------------------------------------------------
\* What a query finds was active while it ran, wherever an activation came
\* in between its steps, and the rows its trace refers to are still there.
EvidenceWasServed ==
    \A c \in ToSet(dense) \cup ToSet(lexical) \cup ToSet(evidence) :
        VersionOf[c] \in served /\ VersionOf[c] \in chunked

\* The fused order contradicts neither search, and there is evidence exactly
\* when both agree on the best candidate.
FusionIsFair ==
    query = "fused" =>
        LET ranked == Fuse(dense, lexical, FusedLimit)
            chosen == Select(dense, lexical, FusedLimit, FinalLimit)
        IN  /\ \A i, j \in DOMAIN ranked :
                  Dominates(dense, lexical, ranked[i], ranked[j]) => i < j
            /\ \A c \in Candidates(dense, lexical), d \in ToSet(ranked) :
                  Dominates(dense, lexical, c, d) => Contains(ranked, c)
            /\ chosen # <<>> <=> (ranked # <<>> /\ Agreed(dense, lexical, Head(ranked)))
            /\ IsPrefix(chosen, ranked)
=============================================================================
