------------------------ MODULE PaymentRefundContract ------------------------
(***************************************************************************)
(* What the refund of one order promises, whoever asks and however often,  *)
(* of a provider that answers at once: money moves only while the order is *)
(* locked; an attempt ends with the order refunded by an amount that the   *)
(* provider has returned, or with the charge undone, or with a note that   *)
(* undoing it failed, after which nothing more is charged; and a refund    *)
(* that is complete is never reopened.  The note is best effort: what is   *)
(* charged when it is lost, or overlooked, is out of sight for ever, and   *)
(* the promise is about what is charged beyond that.                       *)
(***************************************************************************)
EXTENDS Naturals

CONSTANT Limit      \* the amount of the order

VARIABLES busy,      \* a refund is being executed, or was abandoned
          charged,   \* what the user was charged and not given back
          lost,      \* the part of it that is out of sight
          stuck,     \* a charge could not be given back: this is on record
          returned,  \* amounts the provider returned
          refunded   \* the amount the order shows as refunded, or 0

vars == <<busy, charged, lost, stuck, returned, refunded>>

Init == /\ busy = FALSE /\ charged = 0 /\ lost = 0 /\ stuck = FALSE
        /\ returned = {} /\ refunded = 0

Start == /\ ~busy /\ refunded = 0
         /\ busy' = TRUE
         /\ UNCHANGED <<charged, lost, stuck, returned, refunded>>

Charge == /\ busy /\ ~stuck /\ charged = lost
          /\ charged' \in lost..(lost + Limit)
          /\ UNCHANGED <<busy, lost, stuck, returned, refunded>>

GiveBack == /\ busy
            /\ charged' = lost
            /\ UNCHANGED <<busy, lost, stuck, returned, refunded>>

GetStuck == /\ busy
            /\ stuck' = TRUE
            /\ UNCHANGED <<busy, charged, lost, returned, refunded>>

\* The note that the charge could not be given back is lost.
LoseSight == /\ busy
             /\ lost' = charged
             /\ UNCHANGED <<busy, charged, stuck, returned, refunded>>

\* The note is there and overlooked.
ChargeAgain == /\ busy /\ stuck
               /\ lost' = charged
               /\ charged' \in charged..(charged + Limit)
               /\ UNCHANGED <<busy, stuck, returned, refunded>>

Return == /\ busy
          /\ \E x \in 1..Limit : returned' = returned \union {x}
          /\ UNCHANGED <<busy, charged, lost, stuck, refunded>>

GiveUp == /\ busy /\ (charged = lost \/ stuck)
          /\ busy' = FALSE
          /\ UNCHANGED <<charged, lost, stuck, returned, refunded>>

Finish == /\ busy
          /\ busy' = FALSE
          /\ refunded' \in returned
          /\ UNCHANGED <<charged, lost, stuck, returned>>

Next == \/ Start \/ Charge \/ GiveBack \/ GetStuck \/ LoseSight \/ ChargeAgain
        \/ Return \/ GiveUp \/ Finish

Spec == Init /\ [][Next]_vars
==============================================================================
