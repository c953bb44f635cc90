------------------------- MODULE MCPlatformCommands -------------------------
EXTENDS PlatformCommands, TLC

CONSTANTS j1, j2, c1, c2, p1, p2, i1

MCTwoJobs == {j1, j2}
MCContents == {c1, c2}
MCTitles == [c \in {c1, c2} |-> c]
MCApprovals == {p1, p2}
MCSymmetry == Permutations({j1, j2}) \cup Permutations({c1, c2}) \cup Permutations({p1, p2})
=============================================================================
