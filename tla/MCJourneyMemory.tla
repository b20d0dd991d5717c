--------------------------- MODULE MCJourneyMemory ---------------------------
(* Three runs on one domain and in one market, for TLC.  Two of them only   *)
(* write and may be exchanged; the third reads first.                       *)
EXTENDS JourneyMemory, TLC

CONSTANTS r1, r2, r3, m1
OneDomain == [r \in Runs |-> "a"]
OneMarket == [r \in Runs |-> m1]
Symmetry  == Permutations({r1, r2})
=============================================================================
