----------------------------- MODULE MCFormFill -----------------------------
(* Instances of FormFill: one or two fields, one or two consent groups. *)
EXTENDS FormFill

CONSTANTS phone, model, zip, offers, processing

Lead        == [purpose |-> "lead", host |-> "own_site", writes |-> TRUE]
LeadOnly    == {Lead}
TwoPurposes == [g \in {offers, processing} |->
                  IF g = offers THEN "optional_commercial" ELSE "required_processing"]
OnePurpose  == [g \in {offers} |-> "optional_commercial"]
BothWays    == [g \in Groups |-> {"positive", "negative"}]
=============================================================================
