-------------------------- MODULE MCFeedTransport --------------------------
EXTENDS FeedTransport, TLC

CONSTANTS c1, c2, f1, f2, f3, n1, n2

MCConn == {c1, c2}
MCOneConn == {c1}
MCFile == {f1, f2, f3}
MCNode == {n1, n2}
MCNodeOf == [m \in Msg |-> IF m % 2 = 1 THEN n1 ELSE n2]
MCOneNodeOf == [m \in Msg |-> n1]
MCOneNode == {n1}
MCTwoFiles == {f1, f2}
MCEmpty == {2}
Symm == Permutations(MCConn) \cup Permutations(MCFile)
SymmBatches == Permutations(MCTwoFiles)
============================================================================
