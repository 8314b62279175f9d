------------------------------ MODULE Wallets ------------------------------
(***************************************************************************)
(* The money columns of the bot's users table and the two handlers of      *)
(* users.py that write them directly.  Every other component that moves    *)
(* money (Payments, Orders) extends this module and shares its variables,  *)
(* as the modules of the program share the table.                          *)
(*                                                                         *)
(* A db_transaction() (BEGIN IMMEDIATE ... COMMIT) is one atomic action;   *)
(* its failure rolls everything back and is a stuttering step here.        *)
(***************************************************************************)
EXTENDS Integers

CONSTANTS
    Users,            \* user ids
    Levels,           \* referral levels (1 .. 4 in the program)
    OpeningBalance,   \* balance every user starts with
    OpeningReferral,  \* referral earnings every user starts with, none of them withdrawn
    AdjustAmounts,    \* amounts the administrator may type, negative ones included
    MaxAdjust         \* bound: total an administrator credits, or debits, to one user

ASSUME WalletsAssumption ==
    /\ Levels \subseteq Nat \ {0}
    /\ 1 \in Levels
    /\ OpeningBalance \in Nat
    /\ OpeningReferral \in Nat
    /\ AdjustAmounts \subseteq Int
    /\ MaxAdjust \in Nat

VARIABLES
    balance,          \* users.balance
    totalSpent,       \* users.total_spent
    referralBalance,  \* users.referral_balance
    referralEarned,   \* users.referral_earned_total
    referralLevel,    \* users.referral_level
    adjusted          \* history: what administrators credited and debited by hand

\* All the columns; every action says which of them it changes.
wallets == <<balance, totalSpent, referralBalance, referralEarned, referralLevel, adjusted>>

\* No column ever becomes negative.
WalletsTypeOK ==
    /\ balance \in [Users -> Nat]
    /\ totalSpent \in [Users -> Nat]
    /\ referralBalance \in [Users -> Nat]
    /\ referralEarned \in [Users -> Nat]
    /\ referralLevel \in [Users -> Levels]
    /\ adjusted \in [Users -> [credited: Nat, debited: Nat]]

WalletsInit ==
    /\ balance = [u \in Users |-> OpeningBalance]
    /\ totalSpent = [u \in Users |-> 0]
    /\ referralBalance = [u \in Users |-> OpeningReferral]
    /\ referralEarned = [u \in Users |-> OpeningReferral]
    /\ referralLevel = [u \in Users |-> 1]
    /\ adjusted = [u \in Users |-> [credited |-> 0, debited |-> 0]]

-----------------------------------------------------------------------------

\* The column update the financial transactions share: SET c = ROUND(c + ?, 6) WHERE user_id = ?
Credited(column, u, amount) == [column EXCEPT ![u] = @ + amount]

\* A debit and the SQL floor  CASE WHEN c >= ? THEN c - ? ELSE 0 END.
Floored(column, u, amount) == [column EXCEPT ![u] = IF @ >= amount THEN @ - amount ELSE 0]

\* Mutant: the UPDATE loses its  AND (balance + ?) >= 0.
CoversUnchecked(u, a) == TRUE

\* The WHERE clause of adjust_user_balance.
Covers(u, a) == balance[u] + a >= 0

\* adjust_user_balance: a zero amount and an overdraft are refused; a debit counts as spending.
AdjustUserBalance(u, a) ==
    /\ a # 0
    /\ Covers(u, a)
    /\ IF a > 0
       THEN /\ adjusted[u].credited + a <= MaxAdjust
            /\ adjusted' = [adjusted EXCEPT ![u].credited = @ + a]
            /\ UNCHANGED totalSpent
       ELSE /\ adjusted[u].debited - a <= MaxAdjust
            /\ adjusted' = [adjusted EXCEPT ![u].debited = @ - a]
            /\ totalSpent' = Credited(totalSpent, u, -a)
    /\ balance' = Credited(balance, u, a)
    /\ UNCHANGED <<referralBalance, referralEarned, referralLevel>>

\* change_user_referral_level (the clamp to 1..4 is the membership in Levels).
ChangeUserReferralLevel(u, l) ==
    /\ referralLevel' = [referralLevel EXCEPT ![u] = l]
    /\ UNCHANGED <<balance, totalSpent, referralBalance, referralEarned, adjusted>>

NetAdjusted(u) == adjusted[u].credited - adjusted[u].debited

=============================================================================
