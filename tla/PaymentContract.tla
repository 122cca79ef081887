-------------------------- MODULE PaymentContract --------------------------
(***************************************************************************)
(* What the payment system promises about one order, whoever asks and      *)
(* however often: goods are delivered only against money, at most once,    *)
(* and an order counts as settled only when they are delivered, for good.  *)
(***************************************************************************)
EXTENDS Naturals

VARIABLES money,    \* the provider has the user's money
          goods,    \* times the order was delivered
          settled   \* the order is completed, or a refund followed

vars == <<money, goods, settled>>

Init ==
  /\ money \in BOOLEAN
  /\ goods \in {0, 1} /\ (goods = 1 => money)
  /\ settled = FALSE

Pay     == ~money /\ money' = TRUE /\ UNCHANGED <<goods, settled>>
Deliver == money /\ goods = 0 /\ goods' = 1 /\ UNCHANGED <<money, settled>>
Settle  == ~settled /\ goods = 1 /\ settled' = TRUE /\ UNCHANGED <<money, goods>>

Next == Pay \/ Deliver \/ Settle

Spec == Init /\ [][Next]_vars
=============================================================================
