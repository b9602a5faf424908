--------------------------- MODULE MCMockProvider ---------------------------
(***************************************************************************)
(* MockProvider for TLC: what the configurations give to its constants.    *)
(***************************************************************************)
EXTENDS MockProvider

CONSTANTS p1, p2, n1, n2, k1

\* One pod, with one name and one key of the map.
OnePod == {p1}
OneName == {n1}
OneKey == {k1}
OneNameOf == [u \in OnePod |-> n1]
OneMapKey == [n \in OneName |-> k1]

\* It runs and then succeeds, or only succeeds.
OnePlan == [u \in OnePod |-> <<"delayRunning", "delaySucceeded">>]
DonePlan == [u \in OnePod |-> <<"delaySucceeded">>]

\* Two pods; the second may take over the name of the first.
TwoPods == {p1, p2}
SameNameOf == [u \in TwoPods |-> n1]

\* They run after a delay, or at once.
SamePlan == [u \in TwoPods |-> <<"delayRunning">>]
NoPlan == [u \in TwoPods |-> <<>>]

\* Two pods with names of their own, but with the same key of the map.
TwoNames == {n1, n2}
TwoNameOf == [u \in TwoPods |-> IF u = p1 THEN n1 ELSE n2]
SameMapKey == [n \in TwoNames |-> k1]
=============================================================================
