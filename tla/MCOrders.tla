------------------------------ MODULE MCOrders ------------------------------
(***************************************************************************)
(* Orders on a small instance: two orders of one customer on one link, the *)
(* user who referred the customer, and two concurrent requests.            *)
(***************************************************************************)
EXTENDS Orders, TLC

CONSTANTS customer, referrer, o1, o2, h1, h2

MCCustomer == (o1 :> customer) @@ (o2 :> customer)
MCReferrer == (customer :> referrer) @@ (referrer :> NoUser)
MCLinkOf == (o1 :> "link") @@ (o2 :> "link")
MCNewStatuses == {"in progress", "completed", "partial", "cancelled"}

MCSymmetry == Permutations(Editors) \cup Permutations(Orders)

=============================================================================
