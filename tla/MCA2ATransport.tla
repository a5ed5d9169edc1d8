--------------------------- MODULE MCA2ATransport ---------------------------
(* Instances of A2ATransport for TLC: a request of a1 to a2 and one of a2 *)
(* to a1; a2 may have two channels, a1 one.                               *)
EXTENDS A2ATransport, TLC

CONSTANTS a1, a2, r1, r2, c1, c2, c3

TwoAgents      == {a1, a2}
TwoRequests    == {r1, r2}
ThreeCallbacks == {c1, c2, c3}
ThereAndBack   == [r \in Requests |-> IF r = r1 THEN a1 ELSE a2]
BackAndThere   == [r \in Requests |-> IF r = r1 THEN a2 ELSE a1]
ChannelsOfB    == Permutations({c1, c2})
OfBAndA        == [c \in Callbacks |-> IF c = c3 THEN a1 ELSE a2]
=============================================================================
