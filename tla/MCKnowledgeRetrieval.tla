------------------------ MODULE MCKnowledgeRetrieval ------------------------
(* A small instance of KnowledgeRetrieval for TLC: two versions of three   *)
(* chunks and of one, two workers, two upload handlers, two activations.    *)
EXTENDS KnowledgeRetrieval

\* Processes of one kind are interchangeable.
Symmetry ==
    Permutations(Workers) \cup Permutations(Uploaders) \cup Permutations(Activators)

ChunkVersions == (1 :> 1) @@ (2 :> 2) @@ (3 :> 1) @@ (4 :> 1)
=============================================================================
