----------------------------- MODULE Settlement -----------------------------
(***************************************************************************)
(* What deposits and withdrawals promise, without handlers, reads ahead of *)
(* transactions, lost races or restarts: an item is opened once, decided   *)
(* once, and at every moment the account it belongs to carries exactly the *)
(* effect of the item's state, which changes in the step that changes the  *)
(* state.  Payments implements this specification.                         *)
(***************************************************************************)
EXTENDS Integers

CONSTANTS
    Items,       \* requests to settle
    Accounts,    \* the accounts that hold money
    AccountOf    \* AccountOf[x]: the account item x moves money of

VARIABLES
    state,       \* "none", "open", "settled" or "refused"
    effect,      \* what the item has added to its account so far (negative: taken)
    account      \* the money in each account

vars == <<state, effect, account>>

Init ==
    /\ state = [x \in Items |-> "none"]
    /\ effect = [x \in Items |-> 0]
    /\ account \in [Accounts -> Nat]

\* Item x goes to state s; whatever that adds to its effect, its account receives.
Move(x, s) ==
    /\ state' = [state EXCEPT ![x] = s]
    /\ effect' = [effect EXCEPT ![x] = effect'[x]]
    /\ account' = [account EXCEPT ![AccountOf[x]] = @ + effect'[x] - effect[x]]

\* Opening an item may put some of the account's money on hold, never more than it has.
Open(x) ==
    /\ state[x] = "none"
    /\ Move(x, "open")
    /\ effect'[x] <= 0
    /\ account'[AccountOf[x]] >= 0

\* Settling keeps the hold or pays into the account.
Settle(x) ==
    /\ state[x] = "open"
    /\ Move(x, "settled")
    /\ effect'[x] >= effect[x]

\* Refusing gives back everything that was on hold.
Refuse(x) ==
    /\ state[x] = "open"
    /\ Move(x, "refused")
    /\ effect'[x] = 0

\* Money that moves for another reason never overdraws an account.
OtherMovement(a) ==
    /\ account' = [account EXCEPT ![a] = account'[a]]
    /\ account'[a] >= 0
    /\ UNCHANGED <<state, effect>>

Next ==
    \/ \E x \in Items : Open(x) \/ Settle(x) \/ Refuse(x)
    \/ \E a \in Accounts : OtherMovement(a)

Spec == Init /\ [][Next]_vars

=============================================================================
