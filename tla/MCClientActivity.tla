------------------------- MODULE MCClientActivity -------------------------
(* Small instances of ClientActivity: two clients, of which one starts again *)
(* under a second identity with the same instanceId.                         *)
EXTENDS ClientActivity, TLC

CONSTANTS c1, c2, c3, i1, i2, v1, v2

\* c3 is another process that claims the instanceId of c1.
Mcp == [c \in Clients |-> "mcp"]
MixedKinds == [c \in Clients |-> IF c = c1 THEN "cli" ELSE "mcp"]
Instances == [c \in Clients |-> IF c = c2 THEN i2 ELSE i1]
Invocations == [c \in Clients |-> IF c = c2 THEN v2 ELSE v1]

Symmetry == Permutations(Threads) \cup Permutations(SessionIds)
            \cup Permutations(LeaseIds) \cup Permutations(Requests)
            \cup Permutations(LegacyInvocations)
=============================================================================
