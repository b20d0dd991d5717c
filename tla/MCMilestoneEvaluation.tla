------------------------ MODULE MCMilestoneEvaluation ------------------------
(* A task with two required milestones, the first of which is a group of    *)
(* alternatives, an event or a panel, and three looks of the site.          *)
EXTENDS MilestoneEvaluation

CONSTANTS cta, close, home, offers, options

Criterion(kind, group, required) == [kind |-> kind, group |-> group, required |-> required]
MCCriteria == <<
  Criterion("event", options, TRUE),
  Criterion("semantic", options, FALSE),
  Criterion("semantic", None, TRUE)>>

Look(url, evident, controls, panel) == [url |-> url, evident |-> evident, controls |-> controls, panel |-> panel]
Panel(relevant, dialog, unrelated) == [relevant |-> relevant, usable |-> TRUE, dialog |-> dialog, unrelated |-> unrelated]
Bare    == Look(home, {}, {cta}, None)
Busy    == Look(offers, {1, 3}, {cta}, None)
Drawer  == Look(home, {}, {cta, close}, Panel({2, 3}, TRUE, FALSE))

MCLooks == {Bare, Busy, Drawer}
=============================================================================
