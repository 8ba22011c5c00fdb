---------------------------- MODULE RazorpayClient ----------------------------
(***************************************************************************)
(* RazorpayClient._request for POST /orders, one call per session, and the *)
(* orders the gateway holds.                                               *)
(*                                                                         *)
(* The request carries no idempotency key, so a try whose answer is lost   *)
(* (time out, broken connection, 5xx from a proxy) may have created an     *)
(* order that nobody here knows of.                                        *)
(***************************************************************************)
EXTENDS Naturals, FiniteSets

CONSTANTS
  Clients,      \* sessions whose PaymentService has a gateway client
  MAX_RETRIES,  \* settings.MAX_RETRIES
  MaxOrders     \* bound: orders the gateway creates

VARIABLES
  orders,       \* the gateway's orders are 1..orders
  call,         \* call[s]: the request session s is making
  orphans       \* history: orders created whose id never got here, or was rolled back

clientVars == <<orders, call, orphans>>

ASSUME ClientAssumption == MAX_RETRIES \in Nat /\ MaxOrders \in Nat

NoOrder == 0
NoCall == [pc |-> "idle", tries |-> 0, order |-> NoOrder]

ClientInit ==
  /\ orders = 0
  /\ call = [s \in Clients |-> NoCall]
  /\ orphans = 0

Calling(s, pc) == s \in Clients /\ call[s].pc = pc

Ask(s) ==
  /\ Calling(s, "idle")
  /\ call' = [call EXCEPT ![s].pc = "asking"]
  /\ UNCHANGED <<orders, orphans>>

Hangup(s) == call' = [call EXCEPT ![s] = NoCall]

\* Mutant: the tries are counted afresh once they have run out.
AfterTransientForever(c) == [c EXCEPT !.tries = IF @ < MAX_RETRIES THEN @ + 1 ELSE 0]

\* Mutant: one try too many.
AfterTransientOnceMore(c) ==
  IF c.tries <= MAX_RETRIES THEN [c EXCEPT !.tries = @ + 1] ELSE [c EXCEPT !.pc = "failed"]

\* `attempt < MAX_RETRIES`: back off and try again, or raise.
AfterTransient(c) ==
  IF c.tries < MAX_RETRIES THEN [c EXCEPT !.tries = @ + 1] ELSE [c EXCEPT !.pc = "failed"]

\* TimeoutException, HTTPError, or one of 429, 500, 502, 503, 504.
TransientFailure(s) ==
  /\ Calling(s, "asking")
  /\ \E made \in {0, 1} :
       /\ orders + made <= MaxOrders
       /\ orders' = orders + made
       /\ orphans' = orphans + made
  /\ call' = [call EXCEPT ![s] = AfterTransient(@)]

\* _raise_for_status: 401, 404 and other client errors are final.
Refused(s) ==
  /\ Calling(s, "asking")
  /\ call' = [call EXCEPT ![s].pc = "failed"]
  /\ UNCHANGED <<orders, orphans>>

Answered(s) ==
  /\ Calling(s, "asking")
  /\ orders < MaxOrders
  /\ orders' = orders + 1
  /\ call' = [call EXCEPT ![s] = [@ EXCEPT !.pc = "created", !.order = orders + 1]]
  /\ UNCHANGED orphans

\* A 2xx whose body is no order: response.json() or order["id"] raises something
\* that is no RazorpayError.
Garbled(s) ==
  /\ Calling(s, "asking")
  /\ orders < MaxOrders
  /\ orders' = orders + 1
  /\ orphans' = orphans + 1
  /\ call' = [call EXCEPT ![s].pc = "broken"]

GatewayAnswers(s) == TransientFailure(s) \/ Refused(s) \/ Answered(s) \/ Garbled(s)

\* A call never makes more than MAX_RETRIES + 1 tries.
ClientTypeOK ==
  /\ orders \in 0..MaxOrders
  /\ call \in [Clients -> [pc: {"idle", "asking", "created", "failed", "broken"},
                           tries: 0..MAX_RETRIES, order: 0..MaxOrders]]
  /\ orphans \in 0..MaxOrders
=============================================================================
