------------------------------ MODULE Addresses ------------------------------
(***************************************************************************)
(* The addresses the contracts tell apart.                                 *)
(***************************************************************************)
EXTENDS FiniteSets

CONSTANTS
    Accounts,   \* addresses a payout may go to
    Refused,    \* addresses _checkPayee refuses: the vault, its tokens, predeploys, ...
    Self,       \* address(this), one of the refused
    NoOne       \* address(0)

ASSUME AddressAssumption ==
    /\ Accounts \cap Refused = {}
    /\ Self \in Refused
    /\ NoOne \notin Accounts \cup Refused

\* An address is twenty bytes: there are only so many.
ASSUME FiniteAddressAssumption == IsFiniteSet(Accounts) /\ IsFiniteSet(Refused)

Payable == Accounts \cup Refused

AnyAddress == Payable \cup {NoOne}

\* _checkPayee: the payout-address rule.  address(0) passes; callers treat it.
PayeeAllowed(to) == to \notin Refused
=============================================================================
