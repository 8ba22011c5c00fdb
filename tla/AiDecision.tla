------------------------------ MODULE AiDecision ------------------------------
(***************************************************************************)
(* The decision step of a workflow run: DecisionOrchestrator evaluates the *)
(* deterministic policy, then asks the model provider through AIService,   *)
(* which keeps a trace and process-local metrics of every call.            *)
(*                                                                         *)
(* The text of a decision is left out; of the model's answer only whether  *)
(* it can be used, and whether it recommends a retry.                      *)
(***************************************************************************)
EXTENDS RetryPolicy

CONSTANTS
  MAX_RETRIES,   \* settings.MAX_RETRIES
  AIConfigured   \* whether resolve_ai_service found a provider it could construct

VARIABLE
  ask   \* the call of the run under way; its trace is open, succeeded or failed with it

ASSUME AiAssumption == MAX_RETRIES \in Nat /\ AIConfigured \in BOOLEAN

\* FinalDecision, without its wording.
Decision == [retry: BOOLEAN, priority: {"none", "normal", "high"},
             escalation: {"none", "merchant", "support", "customer"},
             channel: {"none", "sms", "email", "whatsapp"}, ai_used: BOOLEAN]

ASSUME NoneIsNoDecision == None \notin Decision

Answer == {"unparsable", "retry", "stop"}

NotAsked == [pc |-> "idle", tries |-> 0, answer |-> "unparsable"]

AiInit == ask = NotAsked

-----------------------------------------------------------------------------
(* GroqLLM.generate, called by AIService._generate *)

\* start_trace
Traced == [NotAsked EXCEPT !.pc = "asking"]

\* The prompt goes out, under a trace of its own.
Prompt ==
  /\ ask.pc = "idle"
  /\ ask' = Traced

\* The trace is closed with the error, and the failure counted.
Raised(call) == [call EXCEPT !.pc = "raised"]

\* Mutant: the tries are counted afresh once they have run out.
AfterErrorForever(call) == [call EXCEPT !.tries = IF @ < MAX_RETRIES THEN @ + 1 ELSE 0]

\* Mutant: one try too many.
AfterErrorOnceMore(call) ==
  IF call.tries <= MAX_RETRIES THEN [call EXCEPT !.tries = @ + 1] ELSE Raised(call)

AfterError(call) ==
  IF call.tries < MAX_RETRIES THEN [call EXCEPT !.tries = @ + 1] ELSE Raised(call)

\* A time out, a connection error, a rate limit, or 408, 429, 500, 502, 503, 504.
TransientError == ask.pc = "asking" /\ ask' = AfterError(ask)

\* Authentication, any other status, an answer without content, anything unforeseen.
FinalError == ask.pc = "asking" /\ ask' = Raised(ask)

\* The trace is closed with the response, and the success counted.
Content ==
  /\ ask.pc = "asking"
  /\ \E answer \in Answer : ask' = [ask EXCEPT !.pc = "answered", !.answer = answer]

ProviderStep == TransientError \/ FinalError \/ Content

-----------------------------------------------------------------------------
(* The decision *)

\* determine_communication_channel
Channel(ctx) ==
  IF Quiet(ctx) THEN "none"
  ELSE IF ctx.attempt.category \in MerchantDeclines \/ RemainingRetryAttempts(ctx) = 0 THEN "email"
  ELSE IF ctx.plan.count >= 2 THEN "whatsapp" ELSE "sms"

\* DecisionEngine._build_result
Deterministic(ctx) ==
  [retry |-> IsRetryAllowed(ctx), priority |-> RetryPriority(ctx),
   escalation |-> DetermineEscalation(ctx), channel |-> Channel(ctx), ai_used |-> FALSE]

\* parse_retry_response and validate_retry_decision accept the answer.
Usable(call) == call.pc = "answered" /\ call.answer # "unparsable"

\* Mutant: a usable answer decides.
FinalizeByAnswer(ctx, call) ==
  [Deterministic(ctx) EXCEPT !.ai_used = Usable(call),
                             !.retry = IF Usable(call) THEN call.answer = "retry" ELSE @]

\* _finalize: the policy's decision, enriched or not.
Finalize(ctx, call) == [Deterministic(ctx) EXCEPT !.ai_used = Usable(call)]

\* No provider, or its call has come to an end one way or the other.
AiSettled == IF AIConfigured THEN ask.pc \in {"answered", "raised"} ELSE ask.pc = "idle"

ForgetCall == ask' = NotAsked

\* At most MAX_RETRIES + 1 tries.
AiTypeOK == ask \in [pc: {"idle", "asking", "answered", "raised"}, tries: 0..MAX_RETRIES,
                     answer: Answer]
=============================================================================
