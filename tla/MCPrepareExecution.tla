------------------------- MODULE MCPrepareExecution -------------------------
EXTENDS PrepareExecution, TLC

CONSTANTS r1, r2, r3, q1, key

MCRequests == {r1, r2, r3}
MCTwoRequests == {r1, r2}
MCQuotes == {q1}
MCKeys == {key}
NoPermitKeys == {}
NoExpirations == {0}
MCExpirations == {0, 9}
OneGap == {1}

RequestSymmetry == Permutations(MCRequests)
TwoRequestSymmetry == Permutations(MCTwoRequests)

(* Nobody sees both many blocks and a late clock.                          *)
FewEvents == now + mined < 6

=============================================================================
