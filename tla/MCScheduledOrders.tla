------------------------- MODULE MCScheduledOrders -------------------------
(***************************************************************************)
(* ScheduledOrders on a small instance: two jobs on the same link, one     *)
(* "run now" request beside the worker, one pause or resume in flight.     *)
(***************************************************************************)
EXTENDS ScheduledOrders, TLC

CONSTANTS j1, j2, request, controller

MCLinkOf == (j1 :> "link") @@ (j2 :> "link")

=============================================================================
