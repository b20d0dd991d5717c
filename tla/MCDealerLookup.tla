--------------------------- MODULE MCDealerLookup ---------------------------
(* The widgets a lookup is tried on: what each may render, ask and commit.  *)
EXTENDS DealerLookup

CONSTANTS town, dealer, other, card, portal, q1

Widget(results, lookups, commits, wants) ==
  [results |-> results, lookups |-> lookups, commits |-> commits, busy |-> "busy" \in wants,
   confirm |-> "confirm" \in wants, searches |-> "searches" \in wants]
Autocomplete == Widget({town, dealer}, {q1}, 1, {})
SlowSearch   == Widget({portal}, {q1}, 1, {"busy", "searches"})
Confirmed    == Widget({card, dealer}, {}, 1, {"confirm"})
Siblings     == Widget({town, dealer, portal}, {}, 0, {})
MCWidgets    == {Autocomplete, SlowSearch, Confirmed, Siblings}
=============================================================================
