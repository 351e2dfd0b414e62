------------------------------- MODULE Dispatch -------------------------------
(***************************************************************************)
(* How Flux serves a request (router/flux.py): Flux.complete() and, through *)
(* _dispatch_with_fallback(), the HTTP proxy.  Concurrent requests share   *)
(* one run, one user's plan budget and daily ledger, and the circuit       *)
(* breaker; each routes, reserves its estimate, calls a provider, and on a *)
(* failure goes on to the next model of its fallback chains.  A cascade    *)
(* reserves for its whole ladder of models at once and climbs it until a   *)
(* response verifies.                                                      *)
(*                                                                         *)
(* Requests run on one event loop, so what happens between two awaits is a *)
(* step; route() does not suspend.  The trackers appear here by what a     *)
(* request sees of them, for one run and one user whose state is never     *)
(* evicted: RunBudget and BudgetTracker model them in full.                *)
(***************************************************************************)
EXTENDS Integers, FiniteSets, SequencesExt, Lists

CONSTANTS
    Requests,
    Models,
    NoModel,      \* the chosen model of a decision that found none
    Decisions,    \* what route() may decide
    Options,      \* [run, capped, cascade]: a run_id, a max_daily_cost, the mode
    Cost,         \* the estimate for each model
    PlanLimit,    \* what the user's plan allows
    DailyCap,     \* max_daily_cost
    MaxSteps,     \* the run's step limit
    MaxRetries,   \* complete()'s max_retries
    MaxEscalations  \* CASCADE_MAX_ESCALATIONS

Chains == {"rate_limit", "timeout", "content_filter"}
Decision == [chosen : Models \cup {NoModel}, chain : Seq(Models), typed : [Chains -> Seq(Models)]]

ASSUME DispatchAssumption ==
    /\ IsFiniteSet(Requests)
    /\ NoModel \notin Models
    /\ Cost \in [Models -> Nat \ {0}]
    /\ {PlanLimit, DailyCap, MaxSteps, MaxRetries, MaxEscalations} \subseteq Nat
    /\ Options \subseteq [run : BOOLEAN, capped : BOOLEAN, cascade : BOOLEAN]
    /\ Decisions \subseteq Decision
    /\ \A decision \in Decisions :
          IsInjective(decision.chain) /\ \A c \in Chains : IsInjective(decision.typed[c])

VARIABLES
    req,      \* where each request is
    pending,  \* the run's slots checked out
    steps,    \* the run's completed steps
    spent,    \* the user's plan ledger
    daily,    \* the user's daily ledger
    \* History, read by no action:
    held      \* the requests that took a slot and have not given it back

ledgers == <<steps, spent, daily>>
vars == <<req, pending, steps, spent, daily, held>>

Ends == {"answered", "failed", "raised", "unverified", "misrouted", "refused"}

(* chain errors, and the typed chain each one walks first                  *)
Errors == Chains \cup {"provider_down", "unknown"}
TypedChain(decision, error) ==
    IF error = "unknown" THEN <<>>
    ELSE decision.typed[IF error = "provider_down" THEN "rate_limit" ELSE error]

(* The locals of the dispatch loop and, in the last four fields, history:  *)
(* the models called, how each call that was not aborted ended, what the   *)
(* breaker was told, and whether the last call was aborted.                *)
NewRequest == [phase |-> "idle", options |-> [run |-> FALSE, capped |-> FALSE, cascade |-> FALSE],
               decision |-> NoModel, queue |-> <<>>, seen |-> {}, attempts |-> 0,
               error |-> "none", reserved |-> 0, due |-> 0, got |-> FALSE,
               called |-> <<>>, outcomes |-> <<>>, reports |-> <<>>, aborted |-> FALSE]

Init ==
    /\ req = [r \in Requests |-> NewRequest]
    /\ pending = 0 /\ steps = 0 /\ spent = 0 /\ daily = 0
    /\ held = {}

-----------------------------------------------------------------------------
Reserved == MapThenSumSet(LAMBDA r : req[r].reserved, Requests)
Fits(amount) == spent + Reserved + amount <= PlanLimit

FewerPending == IF pending > 0 THEN pending - 1 ELSE 0

TotalCost(models) == FoldLeft(LAMBDA sum, m : sum + Cost[m], 0, models)

Become(r, next) == req' = [req EXCEPT ![r] = next]

(* The request ends with an exception: the handler around the dispatch     *)
(* releases a slot of the run.                                             *)
Raise(r, next) ==
    /\ Become(r, [next EXCEPT !.queue = <<>>])
    /\ held' = held \ {r}
    /\ pending' = IF next.options.run THEN FewerPending ELSE pending
    /\ UNCHANGED ledgers

(* The request is answered: the plan, the daily ledger of a capped request *)
(* and the run are charged what it cost.                                   *)
Settle(r, next, amount) ==
    /\ Become(r, [next EXCEPT !.phase = "answered", !.queue = <<>>, !.reserved = 0])
    /\ held' = held \ {r}
    /\ spent' = spent + amount
    /\ daily' = IF next.options.capped THEN daily + amount ELSE daily
    /\ pending' = IF next.options.run THEN FewerPending ELSE pending
    /\ steps' = IF next.options.run THEN steps + 1 ELSE steps

(* What the breaker is told of the model whose turn it is.                 *)
Report(q, result) == [model |-> Head(q.queue), result |-> result]

Calling(r) == req[r].phase = "calling"
InCascade(r) == req[r].options.cascade

-----------------------------------------------------------------------------
(* route() for a request of a run asks for a slot first.  A refusal raises *)
(* inside the cascade's own exception handler, which releases a slot; in   *)
(* complete() it is outside any handler.                                   *)
Ladder(decision) ==
    LET models == <<decision.chosen>> \o Without(decision.chain, {decision.chosen})
    IN  SubSeq(models, 1, IF Len(models) > MaxEscalations + 1 THEN MaxEscalations + 1
                          ELSE Len(models))

(* route() chose decision, for a request that is let through.              *)
Routed(r, options, decision) ==
    LET queue == IF decision.chosen = NoModel THEN <<>>
                 ELSE IF options.cascade THEN Ladder(decision) ELSE <<decision.chosen>>
    IN  [req[r] EXCEPT !.phase = "choosing", !.options = options, !.decision = decision,
                       !.queue = queue, !.seen = ToSet(queue)]

Refuse(r, options) ==
    /\ req[r].phase = "idle"
    /\ options.run /\ steps + pending >= MaxSteps
    /\ Become(r, [req[r] EXCEPT !.phase = "refused", !.options = options])
    /\ pending' = IF options.cascade THEN FewerPending ELSE pending
    /\ UNCHANGED <<ledgers, held>>

RouteIgnoresPending(r, options, decision) ==
    /\ req[r].phase = "idle"
    /\ options.run => steps < MaxSteps
    /\ Become(r, Routed(r, options, decision))
    /\ pending' = IF options.run THEN pending + 1 ELSE pending
    /\ held' = IF options.run THEN held \cup {r} ELSE held
    /\ UNCHANGED ledgers
Route(r, options, decision) ==
    /\ req[r].phase = "idle"
    /\ options.run => steps + pending < MaxSteps
    /\ Become(r, Routed(r, options, decision))
    /\ pending' = IF options.run THEN pending + 1 ELSE pending
    /\ held' = IF options.run THEN held \cup {r} ELSE held
    /\ UNCHANGED ledgers

(* route() raised after its gate had let the request through: the values   *)
(* of the request are validated behind it.  complete() routes outside any  *)
(* handler, so the slot stays checked out; the cascade's handler around    *)
(* its route() releases it at once.                                        *)
RouteRaises(r, options) ==
    /\ req[r].phase = "idle"
    /\ options.run => steps + pending < MaxSteps
    /\ Become(r, [req[r] EXCEPT !.phase = "misrouted", !.options = options])
    /\ pending' = IF options.run /\ ~options.cascade THEN pending + 1 ELSE pending
    /\ held' = IF options.run /\ ~options.cascade THEN held \cup {r} ELSE held
    /\ UNCHANGED ledgers

-----------------------------------------------------------------------------
(* The head of the dispatch loop: give up, skip the model, or call it.     *)

Exhausted(q) == q.queue = <<>> \/ q.attempts > MaxRetries

(* A fallback is not called once the daily cap is reached.                 *)
CapReached(q) == q.attempts > 0 /\ q.options.capped /\ daily >= DailyCap

GiveUp(r) ==
    /\ req[r].phase = "choosing" /\ ~InCascade(r) /\ Exhausted(req[r])
    /\ Raise(r, [req[r] EXCEPT !.phase = "failed"])

SkipStays(r) ==
    LET q == req[r] IN
    /\ q.phase = "choosing" /\ ~InCascade(r) /\ ~Exhausted(q)
    /\ ~Fits(Cost[Head(q.queue)])
    /\ Become(r, [q EXCEPT !.error = "budget_exceeded"])
    /\ UNCHANGED <<pending, ledgers, held>>
Skip(r) ==
    LET q == req[r]
        fits == Fits(Cost[Head(q.queue)])
    IN
    /\ q.phase = "choosing" /\ ~InCascade(r) /\ ~Exhausted(q)
    /\ ~fits \/ CapReached(q)
    /\ Become(r, [q EXCEPT !.error = IF fits THEN "daily_cap_exceeded" ELSE "budget_exceeded",
                           !.queue = Tail(@), !.attempts = @ + 1])
    /\ UNCHANGED <<pending, ledgers, held>>

Call(r) ==
    LET q == req[r] model == Head(q.queue) IN
    /\ q.phase = "choosing" /\ ~InCascade(r) /\ ~Exhausted(q)
    /\ Fits(Cost[model]) /\ ~CapReached(q)
    /\ Become(r, [q EXCEPT !.phase = "calling", !.reserved = Cost[model],
                           !.called = Append(@, model)])
    /\ UNCHANGED <<pending, ledgers, held>>

(* The provider answered; paid is its reported usage, or the estimate.     *)
Succeed(r, paid) ==
    /\ Calling(r) /\ ~InCascade(r)
    /\ Settle(r, [req[r] EXCEPT !.outcomes = Append(@, "success"),
                                !.reports = Append(@, Report(req[r], "success"))], paid)

(* A failure worth a retry: the models of the error's chain, then those of *)
(* the generic one, join the queue unless they were in it before.          *)
MoreForgetsSeen(q, error) == TypedChain(q.decision, error) \o q.decision.chain
More(q, error) ==
    LET typed == Without(TypedChain(q.decision, error), q.seen)
    IN  typed \o Without(q.decision.chain, q.seen \cup ToSet(typed))

FailForgetsGeneric(r, error) ==
    LET q == req[r] more == Without(TypedChain(q.decision, error), q.seen) IN
    /\ Calling(r) /\ ~InCascade(r)
    /\ Become(r, [q EXCEPT !.phase = "choosing", !.reserved = 0, !.error = error,
                           !.queue = Tail(@) \o more, !.seen = @ \cup ToSet(more),
                           !.attempts = @ + 1, !.outcomes = Append(@, "failure"),
                           !.reports = Append(@, Report(q, "failure"))])
    /\ UNCHANGED <<pending, ledgers, held>>
Fail(r, error) ==
    LET q == req[r] more == More(q, error) IN
    /\ Calling(r) /\ ~InCascade(r)
    /\ Become(r, [q EXCEPT !.phase = "choosing", !.reserved = 0, !.error = error,
                           !.queue = Tail(@) \o more, !.seen = @ \cup ToSet(more),
                           !.attempts = @ + 1, !.outcomes = Append(@, "failure"),
                           !.reports = Append(@, Report(q, "failure"))])
    /\ UNCHANGED <<pending, ledgers, held>>

(* A failure that is raised at once: a rejected key counts against the     *)
(* provider, a cancelled call does not, and neither does a request the     *)
(* provider does not support, except in a cascade, which goes on.          *)
RejectKey(r) ==
    /\ Calling(r)
    /\ Raise(r, [req[r] EXCEPT !.phase = "raised", !.reserved = 0,
                               !.outcomes = Append(@, "failure"),
                               !.reports = Append(@, Report(req[r], "failure"))])

AbortKeepsReservation(r) ==
    /\ Calling(r)
    /\ Raise(r, [req[r] EXCEPT !.phase = "raised", !.aborted = TRUE])
Abort(r) ==
    /\ Calling(r)
    /\ Raise(r, [req[r] EXCEPT !.phase = "raised", !.reserved = 0, !.aborted = TRUE])

-----------------------------------------------------------------------------
(* The cascade: one reservation for the whole ladder, then tier by tier.   *)

NoLadder(r) ==
    LET q == req[r] IN
    /\ q.phase = "choosing" /\ InCascade(r)
    /\ q.queue = <<>> \/ ~Fits(TotalCost(q.queue))
    /\ Raise(r, [q EXCEPT !.phase = "failed"])

CascadeReservesOneTier(r) ==
    LET q == req[r] IN
    /\ q.phase = "choosing" /\ InCascade(r) /\ q.queue # <<>>
    /\ Fits(Cost[Head(q.queue)])
    /\ Become(r, [q EXCEPT !.phase = "calling", !.reserved = Cost[Head(q.queue)],
                           !.called = <<Head(q.queue)>>])
    /\ UNCHANGED <<pending, ledgers, held>>
StartCascade(r) ==
    LET q == req[r] IN
    /\ q.phase = "choosing" /\ InCascade(r) /\ q.queue # <<>>
    /\ Fits(TotalCost(q.queue))
    /\ Become(r, [q EXCEPT !.phase = "calling", !.reserved = TotalCost(q.queue),
                           !.called = <<Head(q.queue)>>])
    /\ UNCHANGED <<pending, ledgers, held>>

LastTier(q) == Len(q.queue) = 1

(* On to the next tier, in the same step as the answer of the last.        *)
Climb(r, next) ==
    /\ Become(r, [next EXCEPT !.queue = Tail(@), !.called = Append(@, next.queue[2])])
    /\ UNCHANGED <<pending, ledgers, held>>

(* A tier answered.  An unverified answer of the last one is returned too. *)
TierAnswers(r, paid, verified) ==
    LET q == req[r]
        next == [q EXCEPT !.outcomes = Append(@, "success"),
                          !.reports = Append(@, Report(q, "success")),
                          !.due = @ + paid, !.got = TRUE]
    IN
    /\ Calling(r) /\ InCascade(r)
    /\ IF verified \/ LastTier(q) THEN Settle(r, next, next.due) ELSE Climb(r, next)

(* A failed tier is billed at its estimate, unless no tier answered.       *)
TierFailsAsSuccess(r) ==
    LET q == req[r]
        next == [q EXCEPT !.outcomes = Append(@, "failure"),
                          !.reports = Append(@, Report(q, "success")),
                          !.due = @ + Cost[Head(q.queue)]]
    IN
    /\ Calling(r) /\ InCascade(r)
    /\ CASE ~LastTier(q) -> Climb(r, next)
         [] LastTier(q) /\ q.got -> Settle(r, next, next.due)
         [] OTHER -> Raise(r, [next EXCEPT !.phase = "failed", !.reserved = 0])
TierFails(r) ==
    LET q == req[r]
        next == [q EXCEPT !.outcomes = Append(@, "failure"),
                          !.reports = Append(@, Report(q, "failure")),
                          !.due = @ + Cost[Head(q.queue)]]
    IN
    /\ Calling(r) /\ InCascade(r)
    /\ CASE ~LastTier(q) -> Climb(r, next)
         [] LastTier(q) /\ q.got -> Settle(r, next, next.due)
         [] OTHER -> Raise(r, [next EXCEPT !.phase = "failed", !.reserved = 0])

(* The caller's own verifier raised: no handler releases the reservation.  *)
VerifierRaises(r) ==
    /\ Calling(r) /\ InCascade(r)
    /\ Raise(r, [req[r] EXCEPT !.phase = "unverified", !.outcomes = Append(@, "success"),
                               !.reports = Append(@, Report(req[r], "success"))])

-----------------------------------------------------------------------------
(* What a call may cost: no more than its estimate.                        *)
Charges(r) == 1..Cost[Head(req[r].queue)]

Returns(r) ==
    /\ Calling(r)
    /\ \/ \E paid \in Charges(r) : Succeed(r, paid)
       \/ \E error \in Errors : Fail(r, error)
       \/ RejectKey(r)
       \/ Abort(r)
       \/ \E paid \in Charges(r), verified \in BOOLEAN : TierAnswers(r, paid, verified)
       \/ TierFails(r)

Choose(r) == GiveUp(r) \/ Skip(r) \/ Call(r) \/ NoLadder(r) \/ StartCascade(r)

Admit(r, options) == \/ Refuse(r, options)
                     \/ \E decision \in Decisions : Route(r, options, decision)
                     \/ RouteRaises(r, options)

(* Every request may be a cascade, whose caller's verifier may raise.      *)
Next == \E r \in Requests :
            (\E options \in Options : Admit(r, options)) \/ Choose(r) \/ Returns(r) \/ VerifierRaises(r)

(* Requests may all have ended.                                            *)
Fairness == \A r \in Requests : WF_vars(Choose(r)) /\ WF_vars(Returns(r))

Spec == Init /\ [][Next]_vars /\ Fairness

(* No cascades: Flux.complete() by default, and the HTTP proxy.            *)
ChainOptions == {options \in Options : ~options.cascade}
ChainNext == \E r \in Requests :
                (\E options \in ChainOptions : Admit(r, options)) \/ Choose(r) \/ Returns(r)

ChainSpec == Init /\ [][ChainNext]_vars

-----------------------------------------------------------------------------
Results == {"success", "failure"}
Request == [phase : {"idle", "choosing", "calling"} \cup Ends, options : [run : BOOLEAN,
            capped : BOOLEAN, cascade : BOOLEAN], decision : Decision \cup {NoModel},
            queue : Seq(Models), seen : SUBSET Models, attempts : Nat,
            error : Errors \cup {"none", "budget_exceeded", "daily_cap_exceeded"},
            reserved : Nat, due : Nat, got : BOOLEAN,
            called : Seq(Models), outcomes : Seq(Results),
            reports : Seq([model : Models, result : Results]), aborted : BOOLEAN]

TypeOK ==
    /\ req \in [Requests -> Request]
    /\ pending \in Nat /\ steps \in Nat /\ spent \in Nat /\ daily \in Nat
    /\ held \subseteq Requests

(* Whichever way a request ends, answered, out of models, out of budget,   *)
(* raised or cancelled in the middle of a call, it leaves no reservation   *)
(* in the plan budget, and the run counts no slot that no request holds    *)
(* ("would otherwise leak, permanently inflating this run's step count").  *)
(* Two ways out do leave something: complete() whose route() raised after  *)
(* the gate keeps its slot, which "must be matched by exactly one          *)
(* record_step() or release_reservation()", and a cascade whose caller's   *)
(* verifier raised keeps its reservation.                                  *)
MisroutedInRun(r) == req[r].phase = "misrouted" /\ req[r].options.run /\ ~InCascade(r)
NothingLeftBehind ==
    /\ \A r \in Requests : req[r].phase \in Ends =>
           /\ r \in held => MisroutedInRun(r)
           /\ req[r].reserved > 0 => req[r].phase = "unverified"
    /\ pending <= Cardinality(held)

(* Where no call costs more than its estimate, what the user has spent and *)
(* what the requests in flight may still spend never exceed the plan, a    *)
(* cascade that pays for every tier it climbed included ("closes the       *)
(* route-check -> provider-call race").                                    *)
StillToPay(q) == IF q.phase = "calling" THEN q.due + TotalCost(q.queue) ELSE 0
PlanLimitKept ==
    spent + MapThenSumSet(LAMBDA r : IF InCascade(r) THEN StillToPay(req[r]) ELSE req[r].reserved,
                          Requests) <= PlanLimit

(* "Prevents the same model from being tried twice": overlapping chains    *)
(* never call a model again, and a request makes at most MaxRetries        *)
(* further calls, or escalates at most MaxEscalations times.               *)
TriesBounded ==
    \A r \in Requests :
        /\ IsInjective(req[r].called)
        /\ Len(req[r].called) <= 1 + (IF InCascade(r) THEN MaxEscalations ELSE MaxRetries)

(* The breaker hears of every call that ended, once, in order, of the      *)
(* model that was called, and as what it was: a success only if the        *)
(* provider answered.  It does not hear of the call under way, nor of one  *)
(* that was aborted, which ends the request (the dispatch path once "never *)
(* fed the circuit breaker").  No request is answered without a success.   *)
BreakerHearsEveryCall ==
    \A r \in Requests :
        LET q == req[r]
            silent == IF q.phase = "calling" \/ q.aborted THEN 1 ELSE 0
        IN  /\ Len(q.reports) + silent = Len(q.called)
            /\ \A i \in 1..Len(q.reports) :
                  q.reports[i] = [model |-> q.called[i], result |-> q.outcomes[i]]
            /\ q.aborted => q.phase = "raised"
            /\ q.phase = "answered" => "success" \in ToSet(q.outcomes)

(* Typed chains "must not be the only retries": a request gives up on      *)
(* provider errors only after MaxRetries further attempts, or when it has  *)
(* taken its turn with every model of its decision's generic chain.        *)
FailedMeansExhausted ==
    \A r \in Requests :
        LET q == req[r] IN
        q.phase = "failed" /\ ~InCascade(r) /\ q.error \in Errors =>
            \/ q.attempts > MaxRetries
            \/ ToSet(q.decision.chain) \subseteq q.seen /\ q.attempts = Cardinality(q.seen)

(* What makes the promise of the run's gate inductive where no request is  *)
(* a cascade: exactly the requests of the run that are under way, or whose *)
(* routing raised, hold slots, and the run counts as many.                 *)
InFlight(q) == q.phase \in {"choosing", "calling"}
KeepsSlot(q) == /\ q.options.run
                /\ InFlight(q) \/ (q.phase = "misrouted" /\ ~q.options.cascade)
SlotsCounted ==
    /\ pending = Cardinality(held)
    /\ \A r \in Requests : (r \in held <=> KeepsSlot(req[r])) /\ ~InCascade(r)

(* Requests of a run are let through, complete and give back their slots   *)
(* as the run's gate promises.                                             *)
Slots == INSTANCE StepSlots WITH
             Requests <- Requests, MaxSteps <- MaxSteps, held <- held, steps <- steps
ImplementsStepSlots == Slots!Spec

(* Every admitted request ends, provided its provider calls return.        *)
EveryRequestEnds == \A r \in Requests : req[r].phase # "idle" ~> req[r].phase \in Ends

-----------------------------------------------------------------------------
(* "The Nth caller past max_steps sees the reservations made by the first  *)
(* N-1 and is correctly blocked."  A refused cascade releases a slot it    *)
(* never took, and a request beyond the limit takes it.                    *)
StepsWithinLimit == steps + Cardinality(held) <= MaxSteps

=============================================================================
