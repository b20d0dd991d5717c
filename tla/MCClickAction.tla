--------------------------- MODULE MCClickAction ---------------------------
(* Small instances of the click and its popups.                            *)
EXTENDS ClickAction

CONSTANTS w1, w2, main

Plain == [virtual |-> "none", direct |-> FALSE, dest |-> "none", name |-> "none", location |-> "none"]
Named == [Plain EXCEPT !.dest = "a"]
Away  == [Plain EXCEPT !.location = "far"]

Run(wants, steps, requests, events, shapes) ==
  [capture |-> "capture" \in wants, adoption |-> "adoption" \in wants, lowMemory |-> "lowMemory" \in wants,
   steps |-> steps, requests |-> requests, events |-> events, shapes |-> shapes]
CapturingOnly == Run({"capture"}, 1, 0, 3, {Named, Away})
Adopter       == Run({"capture", "adoption"}, 1, 0, 2, {Named})
AdoptingTwice == Run({"capture", "adoption"}, 2, 0, 0, {})
LeanAdopter   == Run({"adoption", "lowMemory"}, 1, 2, 0, {})
MCTasks == {CapturingOnly, Adopter, AdoptingTwice, LeanAdopter}
=============================================================================
