-------------------------- MODULE ReceiptRegister --------------------------
(***************************************************************************)
(* What ReceiptStore.write promises for one record and manifest: readers,  *)
(* who take no lock, find the old receipt or the new one and nothing else, *)
(* after a power loss too.                                                 *)
(***************************************************************************)
CONSTANTS Receipt,      \* receipts written for the record and manifest
          NoReceipt     \* nothing there that can be read as a receipt

VARIABLES value,        \* what a reader finds
          safe          \* what a power loss may bring back

Init == /\ value \in Receipt \union {NoReceipt}
        /\ safe = {value}

Put(r) == value' = r /\ safe' = safe \union {r}

\* The value is on the disk for good.
Settle == safe' = {value} /\ UNCHANGED value

Lose == value' \in safe /\ safe' = {value'}

Next == (\E r \in Receipt : Put(r)) \/ Settle \/ Lose

Spec == Init /\ [][Next]_<<value, safe>>
=============================================================================
