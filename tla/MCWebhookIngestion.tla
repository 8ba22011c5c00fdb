-------------------------- MODULE MCWebhookIngestion --------------------------
(* Instances of WebhookIngestion for TLC. *)
EXTENDS WebhookIngestion

NoEdits == {}

\* A payment of order 1 fails, or the order is paid; an envelope has no entity id.
\* The gateway's other orders see no event: a retried request may have made them.
MCEvents == {[type |-> "payment.failed", order |-> 1], [type |-> "order.paid", order |-> 1],
             [type |-> "payment.authorized", order |-> 0]}
=============================================================================
