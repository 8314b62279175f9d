--------------------------- MODULE MCManualOrders ---------------------------
(***************************************************************************)
(* ManualOrders on a small instance: two orders of one customer, one of     *)
(* which has no frozen provider identity, and two concurrent requests.     *)
(***************************************************************************)
EXTENDS ManualOrders, TLC

CONSTANTS customer, referrer, o1, o2, h1, h2

MCCustomer == (o1 :> customer) @@ (o2 :> customer)
MCReferrer == (customer :> referrer) @@ (referrer :> NoUser)
MCLinkOf == (o1 :> "link") @@ (o2 :> "link")
MCNewStatuses == {"completed", "canceled"}

EditorSymmetry == Permutations(Editors)

=============================================================================
