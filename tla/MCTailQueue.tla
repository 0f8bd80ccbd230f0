----------------------------- MODULE MCTailQueue -----------------------------
EXTENDS TailQueue, TLC

QueueSymmetry == Permutations(Nodes) \cup Permutations(Heads)
=============================================================================
