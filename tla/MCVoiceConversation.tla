------------------------ MODULE MCVoiceConversation ------------------------
(* A small instance of VoiceConversation for TLC: one text request and two *)
(* deliveries of final transcripts, of one turn or of two.                 *)
EXTENDS VoiceConversation, TLC

CONSTANTS text, first, second

AllRequests == {text, first, second}
Deliveries == {first, second}

\* Deliveries and turn ids are interchangeable.
Symmetry == Permutations(Deliveries) \cup Permutations(Turns)
=============================================================================
