------------------------- MODULE MCActionProposals -------------------------
(* A small instance of PolicedProposals for TLC: three handlers, and facts  *)
(* under which the policy asks for confirmation, approval or nothing.       *)
EXTENDS PolicedProposals, TLC

CONSTANTS plain, guarded, barred

FactGates ==
    (plain :> "awaiting_confirmation") @@ (guarded :> "awaiting_approval")
        @@ (barred :> "policy_denied")

Symmetry == Permutations(Handlers)
=============================================================================
