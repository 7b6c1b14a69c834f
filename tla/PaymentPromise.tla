---------------------------- MODULE PaymentPromise ----------------------------
(***************************************************************************)
(* What the ledger promises about the money for one entitlement: at most   *)
(* one payment stands at a time, a returned payment stays returned, and    *)
(* only its return makes the entitlement payable again.                    *)
(***************************************************************************)
CONSTANT Transfer   \* the rail's references

VARIABLES
    live,       \* payments recorded and not returned
    returned    \* payments the bank sent back

PromiseInit ==
    /\ live = {}
    /\ returned = {}

Pay ==
    /\ live = {}
    /\ \E t \in Transfer \ returned : live' = {t}
    /\ UNCHANGED returned

Return ==
    /\ live # {}
    /\ returned' = returned \union live
    /\ live' = {}

PromiseSpec == PromiseInit /\ [][Pay \/ Return]_<<live, returned>>
==============================================================================
