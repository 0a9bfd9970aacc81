--------------------------- MODULE MCSafetyPolicy ---------------------------
EXTENDS SafetyPolicy, TLC

\* Two configurations, a second grant after a revocation, two turns of the switch;
\* one activation more than there are versions to activate.
RowBounds == [versions |-> 2, activations |-> 3, promotions |-> 3, kills |-> 3]

RequestAndContentSymmetry ==
  {p @@ q : p \in Permutations(Requests), q \in Permutations(LiveContents)}
=============================================================================
