-------------------------- MODULE MCEvaluatedAgent --------------------------
EXTENDS EvaluatedAgent

Batch(valid, invalid, shared) == [valid |-> valid, invalid |-> invalid, shared |-> shared]

MCBatches == {Batch(1, 0, 0), Batch(4, 0, 0), Batch(1, 1, 1), Batch(0, 1, 0)}
=============================================================================
