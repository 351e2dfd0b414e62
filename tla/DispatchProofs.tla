---------------------------- MODULE DispatchProofs ----------------------------
(***************************************************************************)
(* What holds of the dispatch of requests for any requests, options,       *)
(* decisions, costs and limits.  Four arguments, each with its own         *)
(* invariant:                                                              *)
(*                                                                         *)
(*   SlotInv   where no request is a cascade, the dispatch implements the  *)
(*             promise of the run's gate, StepSlots;                       *)
(*   ExitInv   whichever way a request ends, cascades and refused ones     *)
(*             included, it leaves behind no slot and no reservation but   *)
(*             the two that are known to stay;                             *)
(*   LimitInv  the models a request calls are distinct and no more than    *)
(*             its retries or escalations allow, it gives up only when it  *)
(*             has run out of them, and all requests together spend no     *)
(*             more than the plan;                                         *)
(*   HeardInv  the breaker is told of each call that ended, of the model   *)
(*             called and as it ended.                                     *)
(*                                                                         *)
(* Each is mostly the books of one request: what its record says at each   *)
(* phase.  Only the slots and the sum of the reservations relate requests  *)
(* to each other.                                                          *)
(***************************************************************************)
EXTENDS Dispatch, DataLemmas

(* The slots of the run.                                                   *)
Fields == DOMAIN NewRequest

(* The shape of req, as far as the argument needs it: the queues and sets  *)
(* of models in a request are never looked at.                             *)
Shape ==
    /\ req = [r \in Requests |-> req[r]]
    /\ \A r \in Requests : DOMAIN req[r] = Fields /\ req[r].options.run \in BOOLEAN
    /\ held \subseteq Requests
    /\ steps \in Nat

SlotInv == Shape /\ SlotsCounted

(* A request as an action leaves it: the same options, another phase.      *)
Like(q, r, phases) ==
    DOMAIN q = Fields /\ q.options = req[r].options /\ q.phase \in phases

(* The ends that give a slot back.                                         *)
Exits == Ends \ {"misrouted"}

(* The run's slots are countable and so are they without one of them.      *)
LEMMA HeldFinite ==
    ASSUME held \subseteq Requests
    PROVE  /\ IsFiniteSet(held) /\ Cardinality(held) \in Nat
           /\ \A r \in held : Cardinality(held \ {r}) = Cardinality(held) - 1
           /\ \A r \in Requests \ held : Cardinality(held \cup {r}) = Cardinality(held) + 1
           /\ \A r \in held : Cardinality(held) > 0
<1>1. IsFiniteSet(held)
  BY DispatchAssumption, FS_Subset
<1>2. Cardinality(held) \in Nat
  BY <1>1, FS_CardinalityType
<1>3. \A r \in held : Cardinality(held \ {r}) = Cardinality(held) - 1
  BY <1>1, FS_RemoveElement
<1>4. \A r \in Requests \ held : Cardinality(held \cup {r}) = Cardinality(held) + 1
  BY <1>1, FS_AddElement
<1>5. \A r \in held : Cardinality(held) > 0
  <2> SUFFICES ASSUME NEW r \in held PROVE Cardinality(held) > 0
    OBVIOUS
  <2>1. Cardinality(held) # 0
    BY <1>1, FS_EmptySet
  <2> QED
    BY <2>1, <1>2
<1> QED
  BY <1>1, <1>2, <1>3, <1>4, <1>5

(* A step that leaves a request under way, and the run alone.              *)
LEMMA GoesOn ==
    ASSUME SlotInv, NEW r \in Requests, NEW q,
           InFlight(req[r]), Like(q, r, {"choosing", "calling"}), Become(r, q),
           UNCHANGED <<pending, held>>, steps' = steps
    PROVE  SlotInv'
<1>1. req' = [s \in Requests |-> IF s = r THEN q ELSE req[s]]
  BY DEF SlotInv, Shape, Become
<1>2. Shape'
  BY <1>1 DEF SlotInv, Shape, Like
<1>3. SlotsCounted'
  BY <1>1 DEF SlotInv, SlotsCounted, Like, InFlight, KeepsSlot, InCascade
<1> QED
  BY <1>2, <1>3 DEF SlotInv

(* A step that ends a request: it gives its slot back, if it has one.      *)
LEMMA Ending ==
    ASSUME SlotInv, NEW r \in Requests, NEW q,
           InFlight(req[r]), Like(q, r, Exits), Become(r, q),
           held' = held \ {r}, pending' = IF q.options.run THEN FewerPending ELSE pending,
           steps' = steps \/ (q.options.run /\ steps' = steps + 1)
    PROVE  SlotInv' /\ [Slots!Next]_<<held, steps>>
<1>1. req' = [s \in Requests |-> IF s = r THEN q ELSE req[s]]
  BY DEF SlotInv, Shape, Become
<1>2. r \in held <=> q.options.run
  BY DEF SlotInv, SlotsCounted, Like, KeepsSlot
<1>3. Shape'
  BY <1>1 DEF SlotInv, Shape, Like
<1>4. pending' = Cardinality(held')
  <2>1. CASE r \in held
    BY <2>1, <1>2, HeldFinite DEF SlotInv, Shape, SlotsCounted, FewerPending
  <2>2. CASE r \notin held
    <3>1. held' = held
      BY <2>2
    <3> QED
      BY <2>2, <3>1, <1>2 DEF SlotInv, SlotsCounted
  <2> QED
    BY <2>1, <2>2
<1>5. \A s \in Requests : /\ s \in held' <=> KeepsSlot(req'[s])
                          /\ ~req'[s].options.cascade
  BY <1>1 DEF SlotInv, SlotsCounted, Like, InFlight, KeepsSlot, InCascade, Ends, Exits
<1>6. SlotInv'
  BY <1>3, <1>4, <1>5 DEF SlotInv, SlotsCounted, InCascade
<1>7. [Slots!Next]_<<held, steps>>
  <2>1. CASE r \in held
    <3>1. Slots!Use(r) \/ Slots!GiveBack(r)
      BY <2>1 DEF Slots!Use, Slots!GiveBack
    <3> QED
      BY <3>1 DEF Slots!Next
  <2>2. CASE r \notin held
    <3>1. UNCHANGED <<held, steps>>
      BY <2>2, <1>2
    <3> QED
      BY <3>1
  <2> QED
    BY <2>1, <2>2
<1> QED
  BY <1>6, <1>7

(* Admission: a request of the run takes a slot only if there is room.     *)
LEMMA Admission ==
    ASSUME SlotInv, NEW r \in Requests, NEW options \in ChainOptions, NEW decision \in Decisions,
           Route(r, options, decision)
    PROVE  SlotInv' /\ [Slots!Next]_<<held, steps>>
<1> DEFINE q == Routed(r, options, decision)
<1>1. DOMAIN q = Fields /\ q.options = options /\ q.phase = "choosing"
  BY DEF SlotInv, Shape, Routed, Fields, NewRequest
<1>2. options.run \in BOOLEAN /\ ~options.cascade
  BY DispatchAssumption DEF ChainOptions
<1>3. req' = [s \in Requests |-> IF s = r THEN q ELSE req[s]]
  BY DEF SlotInv, Shape, Route, Become
<1>4. r \notin held
  BY DEF SlotInv, SlotsCounted, InFlight, KeepsSlot, Route
<1>5. Shape'
  BY <1>1, <1>2, <1>3 DEF SlotInv, Shape, Route, ledgers
<1>6. pending' = Cardinality(held')
  BY <1>2, <1>4, HeldFinite DEF SlotInv, Shape, SlotsCounted, Route
<1>7. \A s \in Requests : /\ s \in held' <=> KeepsSlot(req'[s])
                          /\ ~req'[s].options.cascade
  BY <1>1, <1>2, <1>3, <1>4 DEF SlotInv, SlotsCounted, InFlight, KeepsSlot, InCascade, Route
<1>8. SlotInv'
  BY <1>5, <1>6, <1>7 DEF SlotInv, SlotsCounted, InCascade
<1>9. [Slots!Next]_<<held, steps>>
  <2>1. CASE options.run
    <3>1. steps + Cardinality(held) < MaxSteps
      BY <2>1 DEF SlotInv, SlotsCounted, Route
    <3>2. held' = held \cup {r} /\ UNCHANGED steps
      BY <2>1 DEF Route, ledgers
    <3>3. Slots!Cardinality(held) = Cardinality(held)
      BY Zenon DEF Slots!Cardinality, Cardinality
    <3>4. Slots!Take(r)
      BY <3>1, <3>2, <3>3, <1>4, Zenon DEF Slots!Take
    <3> QED
      BY <3>4 DEF Slots!Next
  <2>2. CASE ~options.run
    BY <2>2 DEF Route, ledgers
  <2> QED
    BY <2>1, <2>2
<1> QED
  BY <1>8, <1>9

(* A request that is refused was never under way.                          *)
LEMMA Refusal ==
    ASSUME SlotInv, NEW r \in Requests, NEW options \in ChainOptions, Refuse(r, options)
    PROVE  SlotInv' /\ UNCHANGED <<held, steps>>
<1> DEFINE q == [req[r] EXCEPT !.phase = "refused", !.options = options]
<1>1. DOMAIN q = Fields /\ q.options = options /\ q.phase = "refused"
  BY DEF SlotInv, Shape, Fields, NewRequest
<1>2. options.run \in BOOLEAN /\ ~options.cascade
  BY DispatchAssumption DEF ChainOptions
<1>3. req' = [s \in Requests |-> IF s = r THEN q ELSE req[s]]
  BY DEF SlotInv, Shape, Refuse, Become
<1>4. r \notin held
  BY DEF SlotInv, SlotsCounted, InFlight, KeepsSlot, Refuse
<1>5. UNCHANGED <<pending, held, steps>>
  BY <1>2 DEF Refuse, ledgers
<1>6. Shape'
  BY <1>1, <1>2, <1>3, <1>5 DEF SlotInv, Shape
<1>7. SlotsCounted'
  BY <1>1, <1>2, <1>3, <1>4, <1>5 DEF SlotInv, SlotsCounted, InFlight, KeepsSlot, InCascade
<1> QED
  BY <1>5, <1>6, <1>7 DEF SlotInv

(* A request whose routing raises takes its slot as one that is let in.    *)
LEMMA Misrouting ==
    ASSUME SlotInv, NEW r \in Requests, NEW options \in ChainOptions, RouteRaises(r, options)
    PROVE  SlotInv' /\ [Slots!Next]_<<held, steps>>
<1> DEFINE q == [req[r] EXCEPT !.phase = "misrouted", !.options = options]
<1>1. DOMAIN q = Fields /\ q.options = options /\ q.phase = "misrouted"
  BY DEF SlotInv, Shape, Fields, NewRequest
<1>2. options.run \in BOOLEAN /\ ~options.cascade
  BY DispatchAssumption DEF ChainOptions
<1>3. req' = [s \in Requests |-> IF s = r THEN q ELSE req[s]]
  BY DEF SlotInv, Shape, RouteRaises, Become
<1>4. r \notin held
  BY DEF SlotInv, SlotsCounted, InFlight, KeepsSlot, RouteRaises
<1>5. Shape'
  BY <1>1, <1>2, <1>3 DEF SlotInv, Shape, RouteRaises, ledgers
<1>6. pending' = Cardinality(held')
  BY <1>2, <1>4, HeldFinite DEF SlotInv, Shape, SlotsCounted, RouteRaises
<1>7. \A s \in Requests : /\ s \in held' <=> KeepsSlot(req'[s])
                          /\ ~req'[s].options.cascade
  BY <1>1, <1>2, <1>3, <1>4 DEF SlotInv, SlotsCounted, InFlight, KeepsSlot, InCascade, RouteRaises
<1>8. SlotInv'
  BY <1>5, <1>6, <1>7 DEF SlotInv, SlotsCounted, InCascade
<1>9. [Slots!Next]_<<held, steps>>
  <2>1. CASE options.run
    <3>1. steps + Cardinality(held) < MaxSteps
      BY <2>1 DEF SlotInv, SlotsCounted, RouteRaises
    <3>2. held' = held \cup {r} /\ UNCHANGED steps
      BY <1>2, <2>1 DEF RouteRaises, ledgers
    <3>3. Slots!Cardinality(held) = Cardinality(held)
      BY Zenon DEF Slots!Cardinality, Cardinality
    <3>4. Slots!Take(r)
      BY <3>1, <3>2, <3>3, <1>4, Zenon DEF Slots!Take
    <3> QED
      BY <3>4 DEF Slots!Next
  <2>2. CASE ~options.run
    BY <2>2 DEF RouteRaises, ledgers
  <2> QED
    BY <2>1, <2>2
<1> QED
  BY <1>8, <1>9

(* No slot is taken at first.                                              *)
LEMMA InitSlots == Init => SlotInv /\ Slots!Init
<1> SUFFICES ASSUME Init PROVE SlotInv /\ Slots!Init
  OBVIOUS
<1>1. Cardinality(held) = 0
  BY FS_EmptySet DEF Init
<1>2. Shape
  BY DEF Init, Shape, Fields, NewRequest
<1>3. SlotsCounted
  BY <1>1 DEF Init, SlotsCounted, NewRequest, InFlight, KeepsSlot, InCascade
<1> QED
  BY <1>2, <1>3 DEF SlotInv, Init, Slots!Init

(* Every step of the loop is one of the kinds above.                       *)
LEMMA StepCounted ==
    ASSUME SlotInv, [ChainNext]_vars
    PROVE  SlotInv' /\ [Slots!Next]_<<held, steps>>
<1>1. CASE UNCHANGED vars
  BY <1>1 DEF vars, SlotInv, Shape, SlotsCounted, InFlight, KeepsSlot, InCascade
<1>2. CASE ChainNext
  <2> PICK r \in Requests : (\E options \in ChainOptions : Admit(r, options))
                            \/ Choose(r) \/ Returns(r)
    BY <1>2 DEF ChainNext
  <2>0. DOMAIN req[r] = Fields /\ ~InCascade(r)
    BY DEF SlotInv, Shape, SlotsCounted
  <2>1. CASE \E options \in ChainOptions : Admit(r, options)
    BY <2>1, Admission, Refusal, Misrouting DEF Admit
  <2>2. CASE GiveUp(r)
    <3> DEFINE n == [req[r] EXCEPT !.phase = "failed"]
               q == [n EXCEPT !.queue = <<>>]
    <3>1. Like(q, r, Exits) /\ q.options = n.options
      BY <2>0 DEF Like, Fields, NewRequest, Ends, Exits
    <3>2. /\ Become(r, q) /\ held' = held \ {r} /\ UNCHANGED ledgers
          /\ pending' = IF n.options.run THEN FewerPending ELSE pending
          /\ req[r].phase = "choosing"
      BY <2>2, Zenon DEF GiveUp, Raise
    <3> HIDE DEF q, n
    <3> QED
      BY <3>1, <3>2, Ending DEF InFlight, KeepsSlot, ledgers
  <2>3. CASE Skip(r)
    <3> DEFINE fits == Fits(Cost[Head(req[r].queue)])
               q == [req[r] EXCEPT
                       !.error = IF fits THEN "daily_cap_exceeded" ELSE "budget_exceeded",
                       !.queue = Tail(@), !.attempts = @ + 1]
    <3>1. Become(r, q) /\ req[r].phase = "choosing" /\ UNCHANGED <<pending, ledgers, held>>
      BY <2>3, Zenon DEF Skip
    <3>2. Like(q, r, {"choosing", "calling"})
      BY <3>1, <2>0 DEF Like, Fields, NewRequest
    <3> HIDE DEF q
    <3> QED
      BY <3>1, <3>2, GoesOn DEF InFlight, KeepsSlot, ledgers
  <2>4. CASE Call(r)
    <3> DEFINE model == Head(req[r].queue)
               q == [req[r] EXCEPT !.phase = "calling", !.reserved = Cost[model],
                                   !.called = Append(@, model)]
    <3>1. Become(r, q) /\ req[r].phase = "choosing" /\ UNCHANGED <<pending, ledgers, held>>
      BY <2>4, Zenon DEF Call
    <3>2. Like(q, r, {"choosing", "calling"})
      BY <2>0 DEF Like, Fields, NewRequest
    <3> HIDE DEF q
    <3> QED
      BY <3>1, <3>2, GoesOn DEF InFlight, KeepsSlot, ledgers
  <2>5. CASE NoLadder(r) \/ StartCascade(r)
    BY <2>5, <2>0 DEF NoLadder, StartCascade
  <2>6. CASE \E paid \in Charges(r) : Succeed(r, paid)
    <3> PICK paid \in Charges(r) : Succeed(r, paid)
      BY <2>6
    <3> DEFINE n == [req[r] EXCEPT !.outcomes = Append(@, "success"),
                                  !.reports = Append(@, Report(req[r], "success"))]
               q == [n EXCEPT !.phase = "answered", !.queue = <<>>, !.reserved = 0]
    <3>1. Like(q, r, Exits) /\ q.options = n.options
      BY <2>0 DEF Like, Fields, NewRequest, Ends, Exits
    <3>2. /\ Become(r, q) /\ held' = held \ {r}
          /\ pending' = IF n.options.run THEN FewerPending ELSE pending
          /\ steps' = IF n.options.run THEN steps + 1 ELSE steps
          /\ req[r].phase = "calling"
      BY Zenon DEF Succeed, Settle, Calling
    <3> HIDE DEF q, n
    <3> QED
      BY <3>1, <3>2, Ending DEF InFlight, KeepsSlot
  <2>7. CASE \E error \in Errors : Fail(r, error)
    <3> PICK error \in Errors : Fail(r, error)
      BY <2>7
    <3> DEFINE more == More(req[r], error)
               q == [req[r] EXCEPT !.phase = "choosing", !.reserved = 0, !.error = error,
                                   !.queue = Tail(@) \o more, !.seen = @ \cup ToSet(more),
                                   !.attempts = @ + 1, !.outcomes = Append(@, "failure"),
                                   !.reports = Append(@, Report(req[r], "failure"))]
    <3>1. Become(r, q) /\ req[r].phase = "calling" /\ UNCHANGED <<pending, ledgers, held>>
      BY Zenon DEF Fail, Calling
    <3> HIDE DEF more
    <3>2. Like(q, r, {"choosing", "calling"})
      BY <2>0 DEF Like, Fields, NewRequest
    <3> HIDE DEF q
    <3> QED
      BY <3>1, <3>2, GoesOn DEF InFlight, KeepsSlot, ledgers
  <2>8. CASE RejectKey(r)
    <3> DEFINE n == [req[r] EXCEPT !.phase = "raised", !.reserved = 0,
                                  !.outcomes = Append(@, "failure"),
                                  !.reports = Append(@, Report(req[r], "failure"))]
               q == [n EXCEPT !.queue = <<>>]
    <3>1. Like(q, r, Exits) /\ q.options = n.options
      BY <2>0 DEF Like, Fields, NewRequest, Ends, Exits
    <3>2. /\ Become(r, q) /\ held' = held \ {r} /\ UNCHANGED ledgers
          /\ pending' = IF n.options.run THEN FewerPending ELSE pending
          /\ req[r].phase = "calling"
      BY <2>8, Zenon DEF RejectKey, Raise, Calling
    <3> HIDE DEF q, n
    <3> QED
      BY <3>1, <3>2, Ending DEF InFlight, KeepsSlot, ledgers
  <2>9. CASE Abort(r)
    <3> DEFINE n == [req[r] EXCEPT !.phase = "raised", !.reserved = 0, !.aborted = TRUE]
               q == [n EXCEPT !.queue = <<>>]
    <3>1. Like(q, r, Exits) /\ q.options = n.options
      BY <2>0 DEF Like, Fields, NewRequest, Ends, Exits
    <3>2. /\ Become(r, q) /\ held' = held \ {r} /\ UNCHANGED ledgers
          /\ pending' = IF n.options.run THEN FewerPending ELSE pending
          /\ req[r].phase = "calling"
      BY <2>9, Zenon DEF Abort, Raise, Calling
    <3> HIDE DEF q, n
    <3> QED
      BY <3>1, <3>2, Ending DEF InFlight, KeepsSlot, ledgers
  <2>10. CASE \/ \E paid \in Charges(r), verified \in BOOLEAN : TierAnswers(r, paid, verified)
              \/ TierFails(r)
    BY <2>10, <2>0 DEF TierAnswers, TierFails
  <2> QED
    BY <2>1, <2>2, <2>3, <2>4, <2>5, <2>6, <2>7, <2>8, <2>9, <2>10 DEF Choose, Returns
<1> QED
  BY <1>1, <1>2

(* Exactly the requests of the run that are under way, or whose routing    *)
(* raised, hold its slots, and the run counts as many.                     *)
THEOREM SlotsAreCounted == ChainSpec => []SlotsCounted
<1>1. SlotInv => SlotsCounted
  BY DEF SlotInv
<1> QED
  BY <1>1, InitSlots, StepCounted, PTL DEF ChainSpec

(* The dispatch loop implements the run's promise: a request is let        *)
(* through only while there is room beside the steps completed and the     *)
(* slots held, and gives back its own slot, once.                          *)
THEOREM KeepsThePromise == ChainSpec => ImplementsStepSlots
<1> QED
  BY InitSlots, StepCounted, PTL DEF ChainSpec, ImplementsStepSlots, Slots!Spec

-----------------------------------------------------------------------------
(* What a request leaves behind.                                           *)
Open(q) == IF q.phase = "calling" THEN 1 ELSE 0

(* The reservation of a request by its phase: none before its first call,  *)
(* none after its end, unless its verifier raised.                         *)
Books(q) ==
    /\ q.phase \in {"idle", "choosing"} => q.reserved = 0
    /\ q.phase \in Ends => q.reserved = 0 \/ q.phase = "unverified"

Whole(q) == DOMAIN q = Fields /\ q.options.run \in BOOLEAN /\ q.options.cascade \in BOOLEAN

ExitInv ==
    /\ req = [r \in Requests |-> req[r]]
    /\ \A r \in Requests : /\ Whole(req[r]) /\ Books(req[r])
                           /\ r \in held <=> KeepsSlot(req[r])
    /\ held \subseteq Requests
    /\ pending \in Nat /\ pending <= Cardinality(held)
-----------------------------------------------------------------------------
(* The three kinds of step: a request goes on, ends, or is let in.         *)
LEMMA OneBecomes ==
    ASSUME ExitInv, NEW r \in Requests, NEW q, Become(r, q)
    PROVE  /\ req' = [s \in Requests |-> req'[s]] /\ req'[r] = q
           /\ \A s \in Requests \ {r} : req'[s] = req[s]
  BY DEF ExitInv, Become

(* A step that leaves the request under way takes and gives back nothing.  *)
LEMMA GoesOnWhole ==
    ASSUME ExitInv, NEW r \in Requests, NEW q, Become(r, q), UNCHANGED <<pending, held>>,
           Whole(q), Books(q), q.options = req[r].options, InFlight(req[r]), InFlight(q)
    PROVE  ExitInv'
<1>1. KeepsSlot(q) <=> KeepsSlot(req[r])
  BY DEF KeepsSlot
<1> QED  BY <1>1, OneBecomes DEF ExitInv

(* A step that ends it gives back its own slot, which the run still        *)
(* counts.                                                                 *)
LEMMA EndsWhole ==
    ASSUME ExitInv, NEW r \in Requests, NEW q, Become(r, q), held' = held \ {r},
           pending' = IF q.options.run THEN FewerPending ELSE pending,
           Whole(q), Books(q), q.options = req[r].options, InFlight(req[r]), q.phase \in Exits
    PROVE  ExitInv'
<1>1. (r \in held <=> q.options.run) /\ ~KeepsSlot(q)
  BY DEF ExitInv, KeepsSlot, InFlight, Exits, Ends
<1>2. held \subseteq Requests /\ pending \in Nat /\ pending <= Cardinality(held)
  BY DEF ExitInv
<1>3. pending' \in Nat /\ pending' <= Cardinality(held')
  <2>1. CASE r \in held
    <3>1. Cardinality(held') = Cardinality(held) - 1 /\ Cardinality(held) \in Nat
          /\ Cardinality(held) > 0
      BY <1>2, <2>1, HeldFinite
    <3>2. pending' = IF pending > 0 THEN pending - 1 ELSE 0
      BY <1>1, <2>1 DEF FewerPending
    <3> QED  BY <1>2, <3>1, <3>2
  <2>2. CASE r \notin held
    <3>1. held' = held /\ pending' = pending
      BY <1>1, <2>2
    <3> QED  BY <1>2, <3>1
  <2> QED  BY <2>1, <2>2
<1>4. \A s \in Requests : /\ Whole(req'[s]) /\ Books(req'[s])
                          /\ s \in held' <=> KeepsSlot(req'[s])
  BY <1>1, OneBecomes DEF ExitInv
<1> QED  BY <1>2, <1>3, <1>4, OneBecomes DEF ExitInv

(* A request that is let in is counted and holds its slot.                 *)
LEMMA RouteWhole ==
    ASSUME ExitInv, NEW r \in Requests, NEW options \in Options, NEW decision,
           Route(r, options, decision)
    PROVE  ExitInv'
<1> DEFINE q == Routed(r, options, decision)
<1>1. /\ Whole(req[r]) /\ Books(req[r]) /\ req[r].phase = "idle" /\ r \notin held
      /\ held \subseteq Requests /\ pending \in Nat /\ pending <= Cardinality(held)
  BY DEF ExitInv, Route, InFlight, KeepsSlot
<1>2. options.run \in BOOLEAN /\ options.cascade \in BOOLEAN
  BY DispatchAssumption
<1>3. /\ DOMAIN q = Fields /\ q.options = options /\ q.phase = "choosing"
      /\ q.reserved = req[r].reserved
  BY <1>1 DEF Routed, Whole, Fields, NewRequest
<1>4. /\ Become(r, q) /\ pending' = (IF options.run THEN pending + 1 ELSE pending)
      /\ held' = (IF options.run THEN held \cup {r} ELSE held)
  BY DEF Route
<1> HIDE DEF q
<1>5. Whole(q) /\ Books(q)
  BY <1>1, <1>2, <1>3 DEF Whole, Books, Ends
<1>6. pending' \in Nat /\ pending' <= Cardinality(held') /\ held' \subseteq Requests
  <2>1. CASE options.run
    <3>1. Cardinality(held') = Cardinality(held) + 1 /\ Cardinality(held) \in Nat
      BY <1>1, <1>4, <2>1, HeldFinite
    <3> QED  BY <1>1, <1>4, <2>1, <3>1
  <2>2. CASE ~options.run
    BY <1>1, <1>4, <2>2
  <2> QED  BY <2>1, <2>2
<1>7. \A s \in Requests : /\ Whole(req'[s]) /\ Books(req'[s])
                          /\ s \in held' <=> KeepsSlot(req'[s])
  <2>1. \A s \in Requests \ {r} : s \in held' <=> s \in held
    BY <1>4
  <2>2. r \in held' <=> options.run
    BY <1>1, <1>4
  <2>3. KeepsSlot(q) <=> options.run
    BY <1>3 DEF KeepsSlot, InFlight
  <2> QED  BY <1>4, <1>5, <2>1, <2>2, <2>3, OneBecomes DEF ExitInv
<1> QED  BY <1>4, <1>6, <1>7, OneBecomes DEF ExitInv

(* So is one whose routing raises, unless it is a cascade.                 *)
LEMMA RouteRaisesWhole ==
    ASSUME ExitInv, NEW r \in Requests, NEW options \in Options, RouteRaises(r, options)
    PROVE  ExitInv'
<1> DEFINE q == [req[r] EXCEPT !.phase = "misrouted", !.options = options]
           takes == options.run /\ ~options.cascade
<1>1. /\ Whole(req[r]) /\ Books(req[r]) /\ req[r].phase = "idle" /\ r \notin held
      /\ held \subseteq Requests /\ pending \in Nat /\ pending <= Cardinality(held)
  BY DEF ExitInv, RouteRaises, InFlight, KeepsSlot
<1>2. options.run \in BOOLEAN /\ options.cascade \in BOOLEAN
  BY DispatchAssumption
<1>3. /\ DOMAIN q = Fields /\ q.options = options /\ q.phase = "misrouted"
      /\ q.reserved = req[r].reserved
  BY <1>1 DEF Whole, Fields, NewRequest
<1>4. /\ Become(r, q) /\ pending' = (IF takes THEN pending + 1 ELSE pending)
      /\ held' = (IF takes THEN held \cup {r} ELSE held)
  BY DEF RouteRaises
<1> HIDE DEF q
<1>5. Whole(q) /\ Books(q) /\ (KeepsSlot(q) <=> takes)
  BY <1>1, <1>2, <1>3 DEF Whole, Books, Ends, KeepsSlot, InFlight
<1> HIDE DEF takes
<1>6. pending' \in Nat /\ pending' <= Cardinality(held') /\ held' \subseteq Requests
  <2>1. CASE takes
    <3>1. Cardinality(held') = Cardinality(held) + 1 /\ Cardinality(held) \in Nat
      BY <1>1, <1>4, <2>1, HeldFinite
    <3> QED  BY <1>1, <1>4, <2>1, <3>1
  <2>2. CASE ~takes
    BY <1>1, <1>4, <2>2
  <2> QED  BY <2>1, <2>2
<1>7. \A s \in Requests : /\ Whole(req'[s]) /\ Books(req'[s])
                          /\ s \in held' <=> KeepsSlot(req'[s])
  <2>1. \A s \in Requests \ {r} : s \in held' <=> s \in held
    BY <1>4
  <2>2. r \in held' <=> takes
    BY <1>1, <1>4
  <2> QED  BY <1>4, <1>5, <2>1, <2>2, OneBecomes DEF ExitInv
<1> QED  BY <1>4, <1>6, <1>7, OneBecomes DEF ExitInv

(* A refused cascade takes another's slot off the count, never adds one.   *)
LEMMA RefuseWhole ==
    ASSUME ExitInv, NEW r \in Requests, NEW options \in Options, Refuse(r, options)
    PROVE  ExitInv'
<1> DEFINE q == [req[r] EXCEPT !.phase = "refused", !.options = options]
<1>1. /\ Whole(req[r]) /\ Books(req[r]) /\ req[r].phase = "idle" /\ r \notin held
      /\ held \subseteq Requests /\ pending \in Nat /\ pending <= Cardinality(held)
  BY DEF ExitInv, Refuse, InFlight, KeepsSlot
<1>2. options.run \in BOOLEAN /\ options.cascade \in BOOLEAN
  BY DispatchAssumption
<1>3. /\ DOMAIN q = Fields /\ q.options = options /\ q.phase = "refused"
      /\ q.reserved = req[r].reserved
  BY <1>1 DEF Whole, Fields, NewRequest
<1>4. Become(r, q) /\ pending' \in {pending, FewerPending} /\ held' = held
  BY DEF Refuse
<1> HIDE DEF q
<1>5. Whole(q) /\ Books(q) /\ ~KeepsSlot(q)
  BY <1>1, <1>2, <1>3 DEF Whole, Books, InFlight, KeepsSlot, Ends
<1>6. pending' \in Nat /\ pending' <= Cardinality(held')
  <2>1. Cardinality(held) \in Nat
    BY <1>1, HeldFinite
  <2>2. FewerPending \in Nat /\ FewerPending <= pending
    BY <1>1 DEF FewerPending
  <2> QED  BY <1>1, <1>4, <2>1, <2>2
<1> QED  BY <1>1, <1>4, <1>5, <1>6, OneBecomes DEF ExitInv

-----------------------------------------------------------------------------
(* The handler around the dispatch releases the slot, whatever is raised.  *)
LEMMA RaiseWhole ==
    ASSUME ExitInv, NEW r \in Requests, NEW n, Raise(r, n), InFlight(req[r]),
           Whole(n), Books(n), n.options = req[r].options, n.phase \in Exits
    PROVE  ExitInv'
<1> DEFINE q == [n EXCEPT !.queue = <<>>]
<1>1. /\ DOMAIN q = Fields /\ q.options = n.options /\ q.phase = n.phase
      /\ q.reserved = n.reserved
  BY DEF Whole, Fields, NewRequest
<1>2. /\ Become(r, q) /\ held' = held \ {r}
      /\ pending' = IF n.options.run THEN FewerPending ELSE pending
  BY DEF Raise
<1> HIDE DEF q
<1>3. Whole(q) /\ Books(q)
  BY <1>1 DEF Whole, Books
<1> QED  BY <1>1, <1>2, <1>3, EndsWhole

(* An answered request owes nothing.                                       *)
LEMMA SettleWhole ==
    ASSUME ExitInv, NEW r \in Requests, NEW n, NEW amount, Settle(r, n, amount), InFlight(req[r]),
           Whole(n), n.options = req[r].options
    PROVE  ExitInv'
<1> DEFINE q == [n EXCEPT !.phase = "answered", !.queue = <<>>, !.reserved = 0]
<1>1. DOMAIN q = Fields /\ q.options = n.options /\ q.phase = "answered" /\ q.reserved = 0
  BY DEF Whole, Fields, NewRequest
<1>2. /\ Become(r, q) /\ held' = held \ {r}
      /\ pending' = IF n.options.run THEN FewerPending ELSE pending
  BY DEF Settle
<1> HIDE DEF q
<1>3. Whole(q) /\ Books(q) /\ q.phase \in Exits
  BY <1>1 DEF Whole, Books, Ends, Exits
<1> QED  BY <1>1, <1>2, <1>3, EndsWhole

(* The next tier of a cascade is called with no reservation of its own.    *)
LEMMA ClimbWhole ==
    ASSUME ExitInv, NEW r \in Requests, NEW n, Climb(r, n), InFlight(req[r]),
           Whole(n), n.phase = "calling", n.options = req[r].options
    PROVE  ExitInv'
<1> PICK second : second = n.queue[2]
  OBVIOUS
<1> DEFINE q == [n EXCEPT !.queue = Tail(@), !.called = Append(@, second)]
<1>1. DOMAIN q = Fields /\ q.options = n.options /\ q.phase = "calling"
  BY DEF Whole, Fields, NewRequest
<1>2. Become(r, q) /\ UNCHANGED <<pending, held>>
  BY DEF Climb
<1> HIDE DEF q
<1>3. Whole(q) /\ Books(q) /\ InFlight(q)
  BY <1>1 DEF Whole, Books, Ends, InFlight
<1> QED  BY <1>1, <1>2, <1>3, GoesOnWhole

(* What is known of a request that chooses, and of one that calls.         *)
LEMMA Known ==
    ASSUME ExitInv, NEW r \in Requests
    PROVE  Whole(req[r]) /\ Books(req[r])
  BY DEF ExitInv

(* Out of models, or out of budget for a ladder.                           *)
LEMMA GiveUpWhole ==
    ASSUME ExitInv, NEW r \in Requests, GiveUp(r) \/ NoLadder(r)
    PROVE  ExitInv'
<1> DEFINE n == [req[r] EXCEPT !.phase = "failed"]
<1>1. Whole(req[r]) /\ Books(req[r]) /\ req[r].phase = "choosing" /\ Raise(r, n)
  BY Known DEF GiveUp, NoLadder
<1>2. /\ DOMAIN n = Fields /\ n.options = req[r].options /\ n.phase = "failed"
      /\ n.reserved = req[r].reserved
  BY <1>1 DEF Whole, Fields, NewRequest
<1> HIDE DEF n
<1>3. Whole(n) /\ Books(n) /\ n.phase \in Exits /\ InFlight(req[r])
  BY <1>1, <1>2 DEF Whole, Books, Ends, Exits, InFlight
<1> QED  BY <1>1, <1>2, <1>3, RaiseWhole

(* A model that is passed over is not called.                              *)
LEMMA SkipWhole ==
    ASSUME ExitInv, NEW r \in Requests, Skip(r)
    PROVE  ExitInv'
<1> PICK fits : fits = Fits(Cost[Head(req[r].queue)])
  OBVIOUS
<1> DEFINE q == [req[r] EXCEPT !.error = IF fits THEN "daily_cap_exceeded" ELSE "budget_exceeded",
                               !.queue = Tail(@), !.attempts = @ + 1]
<1>1. Whole(req[r]) /\ Books(req[r]) /\ req[r].phase = "choosing"
  BY Known DEF Skip
<1>2. /\ DOMAIN q = Fields /\ q.options = req[r].options /\ q.phase = "choosing"
      /\ q.reserved = req[r].reserved
  BY <1>1 DEF Whole, Fields, NewRequest
<1>3. Become(r, q) /\ UNCHANGED <<pending, held>>
  BY Zenon DEF Skip
<1> HIDE DEF q
<1>4. Whole(q) /\ Books(q) /\ InFlight(q) /\ InFlight(req[r])
  BY <1>1, <1>2 DEF Whole, Books, Ends, InFlight
<1> QED  BY <1>2, <1>3, <1>4, GoesOnWhole

(* A model that is called has a reservation until the call ends.           *)
LEMMA CallWhole ==
    ASSUME ExitInv, NEW r \in Requests, Call(r)
    PROVE  ExitInv'
<1> PICK model : model = Head(req[r].queue)
  OBVIOUS
<1> DEFINE q == [req[r] EXCEPT !.phase = "calling", !.reserved = Cost[model],
                               !.called = Append(@, model)]
<1>1. Whole(req[r]) /\ req[r].phase = "choosing"
  BY Known DEF Call
<1>2. DOMAIN q = Fields /\ q.options = req[r].options /\ q.phase = "calling"
  BY <1>1 DEF Whole, Fields, NewRequest
<1>3. Become(r, q) /\ UNCHANGED <<pending, held>>
  BY Zenon DEF Call
<1> HIDE DEF q
<1>4. Whole(q) /\ Books(q) /\ InFlight(q) /\ InFlight(req[r])
  BY <1>1, <1>2 DEF Whole, Books, Ends, InFlight
<1> QED  BY <1>2, <1>3, <1>4, GoesOnWhole

(* So has a cascade until its last tier ended.                             *)
LEMMA StartCascadeWhole ==
    ASSUME ExitInv, NEW r \in Requests, StartCascade(r)
    PROVE  ExitInv'
<1> PICK model, cost : model = Head(req[r].queue) /\ cost = TotalCost(req[r].queue)
  OBVIOUS
<1> DEFINE q == [req[r] EXCEPT !.phase = "calling", !.reserved = cost, !.called = <<model>>]
<1>1. Whole(req[r]) /\ req[r].phase = "choosing"
  BY Known DEF StartCascade
<1>2. DOMAIN q = Fields /\ q.options = req[r].options /\ q.phase = "calling"
  BY <1>1 DEF Whole, Fields, NewRequest
<1>3. Become(r, q) /\ UNCHANGED <<pending, held>>
  BY Zenon DEF StartCascade
<1> HIDE DEF q
<1>4. Whole(q) /\ Books(q) /\ InFlight(q) /\ InFlight(req[r])
  BY <1>1, <1>2 DEF Whole, Books, Ends, InFlight
<1> QED  BY <1>2, <1>3, <1>4, GoesOnWhole

(* A provider that answers settles the request.                            *)
LEMMA SucceedWhole ==
    ASSUME ExitInv, NEW r \in Requests, NEW paid, Succeed(r, paid)
    PROVE  ExitInv'
<1>0. PICK outcomes, reports : /\ outcomes = Append(req[r].outcomes, "success")
                               /\ reports = Append(req[r].reports, Report(req[r], "success"))
  OBVIOUS
<1> DEFINE n == [req[r] EXCEPT !.outcomes = outcomes, !.reports = reports]
<1>1. Whole(req[r]) /\ req[r].phase = "calling" /\ Settle(r, n, paid)
  BY <1>0, Known DEF Succeed, Calling
<1>2. Whole(n) /\ n.options = req[r].options
  <2>1. Whole(req[r])
    BY <1>1
  <2> QED  BY <2>1 DEF Whole, Fields, NewRequest
<1>3. InFlight(req[r])
  BY <1>1 DEF InFlight
<1> HIDE DEF n
<1> QED  BY <1>1, <1>2, <1>3, SettleWhole

(* One that fails gives its reservation back.                              *)
LEMMA FailWhole ==
    ASSUME ExitInv, NEW r \in Requests, NEW error, Fail(r, error)
    PROVE  ExitInv'
<1> PICK more, report : more = More(req[r], error) /\ report = Report(req[r], "failure")
  OBVIOUS
<1> DEFINE q == [req[r] EXCEPT !.phase = "choosing", !.reserved = 0, !.error = error,
                               !.queue = Tail(@) \o more, !.seen = @ \cup ToSet(more),
                               !.attempts = @ + 1, !.outcomes = Append(@, "failure"),
                               !.reports = Append(@, report)]
<1>1. Whole(req[r]) /\ req[r].phase = "calling"
  BY Known DEF Fail, Calling
<1>2. DOMAIN q = Fields /\ q.options = req[r].options /\ q.phase = "choosing" /\ q.reserved = 0
  BY <1>1 DEF Whole, Fields, NewRequest
<1>3. Become(r, q) /\ UNCHANGED <<pending, held>>
  BY Zenon DEF Fail
<1> HIDE DEF q
<1>4. Whole(q) /\ Books(q) /\ InFlight(q) /\ InFlight(req[r])
  BY <1>1, <1>2 DEF Whole, Books, Ends, InFlight
<1> QED  BY <1>2, <1>3, <1>4, GoesOnWhole

(* A rejected key ends the request without its reservation.                *)
LEMMA RejectKeyWhole ==
    ASSUME ExitInv, NEW r \in Requests, RejectKey(r)
    PROVE  ExitInv'
<1> PICK report : report = Report(req[r], "failure")
  OBVIOUS
<1> DEFINE n == [req[r] EXCEPT !.phase = "raised", !.reserved = 0,
                               !.outcomes = Append(@, "failure"), !.reports = Append(@, report)]
<1>1. Whole(req[r]) /\ req[r].phase = "calling" /\ Raise(r, n)
  BY Known DEF RejectKey, Calling
<1>2. DOMAIN n = Fields /\ n.options = req[r].options /\ n.phase = "raised" /\ n.reserved = 0
  BY <1>1 DEF Whole, Fields, NewRequest
<1> HIDE DEF n
<1>3. Whole(n) /\ Books(n) /\ n.phase \in Exits /\ InFlight(req[r])
  BY <1>1, <1>2 DEF Whole, Books, Ends, Exits, InFlight
<1> QED  BY <1>1, <1>2, <1>3, RaiseWhole

(* So does an aborted call.                                                *)
LEMMA AbortWhole ==
    ASSUME ExitInv, NEW r \in Requests, Abort(r)
    PROVE  ExitInv'
<1> DEFINE n == [req[r] EXCEPT !.phase = "raised", !.reserved = 0, !.aborted = TRUE]
<1>1. Whole(req[r]) /\ req[r].phase = "calling" /\ Raise(r, n)
  BY Known DEF Abort, Calling
<1>2. DOMAIN n = Fields /\ n.options = req[r].options /\ n.phase = "raised" /\ n.reserved = 0
  BY <1>1 DEF Whole, Fields, NewRequest
<1> HIDE DEF n
<1>3. Whole(n) /\ Books(n) /\ n.phase \in Exits /\ InFlight(req[r])
  BY <1>1, <1>2 DEF Whole, Books, Ends, Exits, InFlight
<1> QED  BY <1>1, <1>2, <1>3, RaiseWhole

(* No handler of the cascade releases the reservation here.                *)
LEMMA VerifierRaisesWhole ==
    ASSUME ExitInv, NEW r \in Requests, VerifierRaises(r)
    PROVE  ExitInv'
<1> PICK report : report = Report(req[r], "success")
  OBVIOUS
<1> DEFINE n == [req[r] EXCEPT !.phase = "unverified", !.outcomes = Append(@, "success"),
                               !.reports = Append(@, report)]
<1>1. Whole(req[r]) /\ req[r].phase = "calling" /\ Raise(r, n)
  BY Known DEF VerifierRaises, Calling
<1>2. DOMAIN n = Fields /\ n.options = req[r].options /\ n.phase = "unverified"
  BY <1>1 DEF Whole, Fields, NewRequest
<1> HIDE DEF n
<1>3. Whole(n) /\ Books(n) /\ n.phase \in Exits /\ InFlight(req[r])
  BY <1>1, <1>2 DEF Whole, Books, Ends, Exits, InFlight
<1> QED  BY <1>1, <1>2, <1>3, RaiseWhole

(* A tier that answers is paid; the cascade ends or goes on to the next.   *)
LEMMA TierAnswersWhole ==
    ASSUME ExitInv, NEW r \in Requests, NEW paid, NEW verified, TierAnswers(r, paid, verified)
    PROVE  ExitInv'
<1> PICK report : report = Report(req[r], "success")
  OBVIOUS
<1> DEFINE n == [req[r] EXCEPT !.outcomes = Append(@, "success"), !.reports = Append(@, report),
                               !.due = @ + paid, !.got = TRUE]
<1>1. /\ Whole(req[r]) /\ req[r].phase = "calling"
      /\ Settle(r, n, n.due) \/ Climb(r, n)
  BY Known DEF TierAnswers, Calling
<1>2. DOMAIN n = Fields /\ n.options = req[r].options /\ n.phase = req[r].phase
  BY <1>1 DEF Whole, Fields, NewRequest
<1> HIDE DEF n
<1>3. Whole(n) /\ InFlight(req[r])
  BY <1>1, <1>2 DEF Whole, InFlight
<1> QED  BY <1>1, <1>2, <1>3, SettleWhole, ClimbWhole

(* A tier that fails ends the cascade only if it is the last.              *)
LEMMA TierFailsWhole ==
    ASSUME ExitInv, NEW r \in Requests, TierFails(r)
    PROVE  ExitInv'
<1> PICK cost, report : cost = Cost[Head(req[r].queue)] /\ report = Report(req[r], "failure")
  OBVIOUS
<1> DEFINE n == [req[r] EXCEPT !.outcomes = Append(@, "failure"), !.reports = Append(@, report),
                               !.due = @ + cost]
           last == [n EXCEPT !.phase = "failed", !.reserved = 0]
<1>1. /\ Whole(req[r]) /\ req[r].phase = "calling"
      /\ Climb(r, n) \/ Settle(r, n, n.due) \/ Raise(r, last)
  BY Known DEF TierFails, Calling
<1>2. DOMAIN n = Fields /\ n.options = req[r].options /\ n.phase = req[r].phase
  BY <1>1 DEF Whole, Fields, NewRequest
<1>3. DOMAIN last = Fields /\ last.options = n.options /\ last.phase = "failed" /\ last.reserved = 0
  BY <1>1 DEF Whole, Fields, NewRequest
<1> HIDE DEF n, last
<1>4. Whole(n) /\ InFlight(req[r])
  BY <1>1, <1>2 DEF Whole, InFlight
<1>5. Whole(last) /\ Books(last) /\ last.phase \in Exits
  BY <1>2, <1>3, <1>4 DEF Whole, Books, Ends, Exits
<1> QED  BY <1>1, <1>2, <1>3, <1>4, <1>5, SettleWhole, ClimbWhole, RaiseWhole

-----------------------------------------------------------------------------
(* Nothing is open before the first request.                               *)
LEMMA InitWhole == Init => ExitInv
<1> SUFFICES ASSUME Init PROVE ExitInv
  OBVIOUS
<1>1. Cardinality(held) = 0
  BY FS_EmptySet DEF Init
<1>2. Whole(NewRequest)
  BY DEF Whole, Fields, NewRequest
<1>3. NewRequest.phase = "idle" /\ NewRequest.reserved = 0
  BY DEF NewRequest
<1>4. Books(NewRequest) /\ ~KeepsSlot(NewRequest)
  BY <1>3 DEF Books, Ends, KeepsSlot, InFlight
<1> QED  BY <1>1, <1>2, <1>4 DEF Init, ExitInv

(* Every step is one of those above.                                       *)
LEMMA StepWhole ==
    ASSUME ExitInv, [Next]_vars
    PROVE  ExitInv'
<1>1. CASE UNCHANGED vars
  BY <1>1 DEF vars, ExitInv
<1>2. CASE Next
  <2> PICK r \in Requests : \/ \E options \in Options : Admit(r, options)
                            \/ Choose(r)
                            \/ Returns(r)
                            \/ VerifierRaises(r)
    BY <1>2 DEF Next
  <2>1. CASE \E options \in Options : Admit(r, options)
    BY <2>1, RouteWhole, RefuseWhole, RouteRaisesWhole DEF Admit
  <2>2. CASE Choose(r)
    BY <2>2, GiveUpWhole, SkipWhole, CallWhole, StartCascadeWhole DEF Choose
  <2>3. CASE Returns(r)
    BY <2>3, SucceedWhole, FailWhole, RejectKeyWhole, AbortWhole, TierAnswersWhole,
       TierFailsWhole DEF Returns
  <2>4. CASE VerifierRaises(r)
    BY <2>4, VerifierRaisesWhole
  <2> QED  BY <2>1, <2>2, <2>3, <2>4
<1> QED  BY <1>1, <1>2

(* Whichever way a request ends in Flux.complete(), it leaves no slot and  *)
(* no reservation behind, but the slot of one whose routing raised behind  *)
(* the gate and the reservation of a cascade whose verifier raised.        *)
THEOREM NothingStays == Spec => []NothingLeftBehind
<1>1. ExitInv => NothingLeftBehind
  BY DEF ExitInv, Books, NothingLeftBehind, MisroutedInRun, InCascade, KeepsSlot, InFlight, Ends
<1> QED  BY <1>1, InitWhole, StepWhole, PTL DEF Spec

-----------------------------------------------------------------------------
(* The limits.                                                             *)
(* The models a request has still to take its turn with.                   *)
Rest(q) == IF q.phase = "calling" THEN Tail(q.queue) ELSE q.queue

(* No model twice, neither among the calls made nor among those to come,   *)
(* and all of them seen.                                                   *)
Apart(made, rest, seen) ==
    /\ made \in Seq(Models) /\ rest \in Seq(Models) /\ seen \subseteq Models
    /\ IsFiniteSet(seen)
    /\ IsInjective(made) /\ IsInjective(rest)
    /\ ToSet(made) \cap ToSet(rest) = {}
    /\ ToSet(made) \cup ToSet(rest) \subseteq seen

(* A request on its fallback chains: every model seen has had its turn or  *)
(* is in the queue, and each attempt that is over made at most one call.   *)
ChainTurn(q) ==
    /\ q.attempts \in Nat /\ Len(q.called) <= 1 + MaxRetries
    /\ InFlight(q) =>
           /\ q.attempts + Len(q.queue) = Cardinality(q.seen)
           /\ Len(q.called) <= q.attempts + Open(q)
           /\ q.error \in Errors => ToSet(q.decision.chain) \subseteq q.seen
    /\ q.phase = "calling" => q.attempts <= MaxRetries /\ q.reserved = Cost[Head(q.queue)]
    /\ q.phase = "failed" /\ q.error \in Errors =>
           \/ q.attempts > MaxRetries
           \/ ToSet(q.decision.chain) \subseteq q.seen /\ q.attempts = Cardinality(q.seen)

(* A cascade on its ladder: what it owes and what the tiers to come may    *)
(* cost is reserved.                                                       *)
LadderTurn(q) ==
    /\ Len(q.called) + Len(Rest(q)) <= 1 + MaxEscalations
    /\ q.phase = "choosing" => q.called = <<>> /\ q.due = 0
    /\ q.phase = "calling" => q.due + TotalCost(q.queue) <= q.reserved

Turn(q) ==
    /\ q.reserved \in Nat /\ q.due \in Nat
    /\ q.phase = "idle" => q = NewRequest
    /\ InFlight(q) => q.queue \in Seq(Models) /\ q.decision \in Decisions
    /\ q.phase = "calling" => q.queue # <<>>
    /\ Apart(q.called, Rest(q), q.seen)
    /\ IF q.options.cascade THEN LadderTurn(q) ELSE ChainTurn(q)

(* Together with what the user has spent, all that is reserved is within   *)
(* the plan.                                                               *)
WithinPlan == spent \in Nat /\ spent + Reserved <= PlanLimit

LimitInv == (\A r \in Requests : Turn(req[r])) /\ WithinPlan

-----------------------------------------------------------------------------
(* The lists of models.                                                    *)

(* The first model to come is called.                                      *)
LEMMA NextCalled ==
    ASSUME NEW made, NEW rest, NEW seen, Apart(made, rest, seen), rest # <<>>
    PROVE  /\ Apart(Append(made, Head(rest)), Tail(rest), seen) /\ Head(rest) \in Models
           /\ Len(Append(made, Head(rest))) = Len(made) + 1 /\ Len(Tail(rest)) = Len(rest) - 1
           /\ Len(made) \in Nat /\ Len(rest) \in Nat
<1>1. PICK x, t : x = Head(rest) /\ t = Tail(rest)
  OBVIOUS
<1>2. /\ t \in Seq(Models) /\ Len(t) = Len(rest) - 1 /\ x \in Models
      /\ ToSet(rest) = {x} \cup ToSet(t) /\ IsInjective(t) /\ x \notin ToSet(t)
  BY <1>1, TailList DEF Apart
<1>3. PICK c : c = Append(made, x)
  OBVIOUS
<1>4. /\ c \in Seq(Models) /\ Len(c) = Len(made) + 1 /\ ToSet(c) = ToSet(made) \cup {x}
      /\ x \notin ToSet(made) => IsInjective(c)
  BY <1>2, <1>3, AppendList DEF Apart
<1>5. Apart(c, t, seen)
  BY <1>2, <1>4 DEF Apart
<1>6. Len(made) \in Nat /\ Len(rest) \in Nat
  BY DEF Apart
<1> QED  BY <1>1, <1>2, <1>3, <1>4, <1>5, <1>6

(* It is passed over.                                                      *)
LEMMA NextSkipped ==
    ASSUME NEW made, NEW rest, NEW seen, Apart(made, rest, seen), rest # <<>>
    PROVE  Apart(made, Tail(rest), seen) /\ Len(Tail(rest)) = Len(rest) - 1 /\ Len(rest) \in Nat
<1>1. PICK t : t = Tail(rest)
  OBVIOUS
<1>2. /\ t \in Seq(Models) /\ Len(t) = Len(rest) - 1
      /\ ToSet(rest) = {Head(rest)} \cup ToSet(t) /\ IsInjective(t)
  BY <1>1, TailList DEF Apart
<1>3. Apart(made, t, seen) /\ Len(rest) \in Nat
  BY <1>2 DEF Apart
<1> QED  BY <1>1, <1>2, <1>3

(* More models join those to come.                                         *)
LEMMA MoreJoin ==
    ASSUME NEW made, NEW rest, NEW seen, Apart(made, rest, seen),
           NEW more \in Seq(Models), IsInjective(more), ToSet(more) \cap seen = {}
    PROVE  /\ Apart(made, rest \o more, seen \cup ToSet(more))
           /\ Len(rest \o more) = Len(rest) + Len(more) /\ Len(rest) \in Nat /\ Len(more) \in Nat
           /\ Cardinality(seen \cup ToSet(more)) = Cardinality(seen) + Len(more)
           /\ Cardinality(seen) \in Nat
<1>1. PICK t, new : t = rest \o more /\ new = ToSet(more)
  OBVIOUS
<1>2. /\ t \in Seq(Models) /\ Len(t) = Len(rest) + Len(more) /\ ToSet(t) = ToSet(rest) \cup new
      /\ ToSet(rest) \cap new = {} => IsInjective(t)
  BY <1>1, ConcatList DEF Apart
<1>3. IsFiniteSet(new) /\ new \subseteq Models /\ Cardinality(new) = Len(more)
  BY <1>1, DistinctList
<1>4. IsFiniteSet(seen \cup new) /\ Cardinality(seen \cup new) = Cardinality(seen) + Cardinality(new)
  <2>1. IsFiniteSet(seen) /\ seen \cap new = {}
    BY <1>1 DEF Apart
  <2>2. Cardinality(seen) \in Nat /\ Cardinality(new) \in Nat
    BY <1>3, <2>1, FS_CardinalityType
  <2>3. Cardinality(seen \cap new) = 0
    BY <2>1, FS_EmptySet
  <2>4. /\ IsFiniteSet(seen \cup new)
        /\ Cardinality(seen \cup new) = Cardinality(seen) + Cardinality(new) - Cardinality(seen \cap new)
    BY <1>3, <2>1, FS_Union
  <2> QED  BY <2>2, <2>3, <2>4
<1>5. Apart(made, t, seen \cup new)
  <2>1. ToSet(rest) \cap new = {} /\ ToSet(made) \cap new = {}
    BY <1>1 DEF Apart
  <2> QED  BY <1>2, <1>3, <1>4, <2>1 DEF Apart
<1>6. Len(rest) \in Nat /\ Len(more) \in Nat /\ Cardinality(seen) \in Nat
  BY FS_CardinalityType DEF Apart
<1> QED  BY <1>1, <1>2, <1>3, <1>4, <1>5, <1>6

(* What a failure adds is new, and leaves nothing of the generic chain     *)
(* out.                                                                    *)
LEMMA MoreIsNew ==
    ASSUME NEW q, NEW error \in Errors, q.decision \in Decisions, NEW more, more = More(q, error)
    PROVE  /\ more \in Seq(Models) /\ IsInjective(more) /\ ToSet(more) \cap q.seen = {}
           /\ ToSet(q.decision.chain) \subseteq q.seen \cup ToSet(more)
<1>1. PICK chain, first : chain = q.decision.chain /\ first = TypedChain(q.decision, error)
  OBVIOUS
<1>2. chain \in Seq(Models) /\ IsInjective(chain)
  BY <1>1, DispatchAssumption DEF Decision
<1>3. first \in Seq(Models) /\ IsInjective(first)
  <2>1. CASE error = "unknown"
    BY <1>1, <2>1 DEF TypedChain, IsInjective
  <2>2. CASE error # "unknown"
    <3>1. PICK c \in Chains : first = q.decision.typed[c]
      BY <1>1, <2>2 DEF TypedChain, Errors, Chains
    <3> QED  BY <3>1, DispatchAssumption DEF Decision
  <2> QED  BY <2>1, <2>2
<1>4. PICK typed : typed = Without(first, q.seen)
  OBVIOUS
<1>5. typed \in Seq(Models) /\ ToSet(typed) = ToSet(first) \ q.seen /\ IsInjective(typed)
  BY <1>3, <1>4, WithoutList
<1>6. PICK gone, last : gone = q.seen \cup ToSet(typed) /\ last = Without(chain, gone)
  OBVIOUS
<1>7. last \in Seq(Models) /\ ToSet(last) = ToSet(chain) \ gone /\ IsInjective(last)
  BY <1>2, <1>6, WithoutList
<1>8. more = typed \o last
  BY <1>1, <1>4, <1>6 DEF More
<1>9. /\ more \in Seq(Models) /\ ToSet(more) = ToSet(typed) \cup ToSet(last)
      /\ ToSet(typed) \cap ToSet(last) = {} => IsInjective(more)
  BY <1>5, <1>7, <1>8, ConcatList
<1> QED  BY <1>1, <1>5, <1>6, <1>7, <1>9

(* A ladder is of distinct models, and no longer than the code allows.     *)
LEMMA LadderFits ==
    ASSUME NEW decision \in Decisions, decision.chosen # NoModel, NEW ladder,
           ladder = Ladder(decision)
    PROVE  ladder \in Seq(Models) /\ IsInjective(ladder) /\ Len(ladder) <= MaxEscalations + 1
<1>1. PICK x, chain : x = decision.chosen /\ chain = decision.chain
  OBVIOUS
<1>2. x \in Models /\ chain \in Seq(Models) /\ IsInjective(chain) /\ MaxEscalations \in Nat
  BY <1>1, DispatchAssumption DEF Decision
<1>3. PICK others, one : others = Without(chain, {x}) /\ one = <<x>>
  OBVIOUS
<1>4. others \in Seq(Models) /\ ToSet(others) = ToSet(chain) \ {x} /\ IsInjective(others)
  BY <1>2, <1>3, WithoutList
<1>5. one \in Seq(Models) /\ ToSet(one) = {x} /\ IsInjective(one)
  BY <1>2, <1>3, ShortList
<1>6. PICK models : models = one \o others
  OBVIOUS
<1>7. models \in Seq(Models) /\ IsInjective(models) /\ Len(models) \in Nat
  BY <1>4, <1>5, <1>6, ConcatList
<1>8. PICK k \in 0..Len(models) : /\ k <= MaxEscalations + 1
                                  /\ k = IF Len(models) > MaxEscalations + 1 THEN MaxEscalations + 1
                                         ELSE Len(models)
  BY <1>2, <1>7
<1>9. ladder = SubSeq(models, 1, k)
  BY <1>1, <1>3, <1>6, <1>8 DEF Ladder
<1> QED  BY <1>7, <1>8, <1>9, PrefixList

(* What the tiers of a ladder cost: the first one's estimate, then the     *)
(* others'.                                                                *)
LEMMA CostOfTiers ==
    ASSUME NEW s \in Seq(Models)
    PROVE  TotalCost(s) \in Nat /\ (s # <<>> => TotalCost(s) = Cost[Head(s)] + TotalCost(Tail(s)))
<1>1. \A m \in Models : Cost[m] \in Nat
  BY DispatchAssumption
<1>2. \A t : TotalCost(t) = SumAlong(Cost, t)
  BY DEF TotalCost, SumAlong
<1> QED  BY <1>1, <1>2, AlongList

-----------------------------------------------------------------------------
(* The reservations.                                                       *)

(* What is reserved is a sum over the requests.                            *)
LEMMA ReservesSum ==
    ASSUME NEW all, NEW v, v = [r \in Requests |-> all[r].reserved]
    PROVE  MapThenSumSet(LAMBDA r : all[r].reserved, Requests) = SumOver(v, Requests)
BY DEF SumOver, MapThenSumSet, MapThenFoldSet

(* One request's reservation changes.                                      *)
LEMMA ReservedChanges ==
    ASSUME ExitInv, LimitInv, NEW r \in Requests, NEW q, Become(r, q), q.reserved \in Nat
    PROVE  /\ Reserved \in Nat /\ req[r].reserved \in Nat
           /\ Reserved' = Reserved - req[r].reserved + q.reserved
<1>1. PICK v, w : v = [s \in Requests |-> req[s].reserved] /\ w = [s \in Requests |-> req'[s].reserved]
  OBVIOUS
<1>2. Reserved = SumOver(v, Requests)
  BY <1>1, ReservesSum DEF Reserved
<1>3. Reserved' = SumOver(w, Requests)
  <2>1. PICK all : all = req'
    OBVIOUS
  <2>2. w = [s \in Requests |-> all[s].reserved]
    BY <1>1, <2>1
  <2>3. MapThenSumSet(LAMBDA s : all[s].reserved, Requests) = SumOver(w, Requests)
    BY <2>2, ReservesSum
  <2>4. Reserved' = MapThenSumSet(LAMBDA s : all[s].reserved, Requests)
    BY <2>1 DEF Reserved, MapThenSumSet, MapThenFoldSet
  <2> QED  BY <2>3, <2>4
<1>4. /\ req'[r] = q /\ \A s \in Requests \ {r} : req'[s] = req[s]
  BY OneBecomes
<1>5. \A s \in Requests : req[s].reserved \in Nat
  BY DEF LimitInv, Turn
<1>6. /\ \A s \in Requests : v[s] \in Nat /\ w[s] \in Nat
      /\ \A s \in Requests \ {r} : v[s] = w[s]
      /\ v[r] = req[r].reserved /\ w[r] = q.reserved
  BY <1>1, <1>4, <1>5
<1>7. IsFiniteSet(Requests)
  BY DispatchAssumption
<1>8. SumOver(v, Requests) \in Nat
  BY <1>6, <1>7, SumNatural
<1>9. SumOver(w, Requests) = SumOver(v, Requests) - v[r] + w[r]
  <2>1. \A s \in Requests : v[s] \in Int /\ w[s] \in Int
    BY <1>6
  <2> QED  BY <1>6, <1>7, <2>1, SumChanges
<1> QED  BY <1>2, <1>3, <1>5, <1>6, <1>8, <1>9

(* A step that pays from its reservation keeps within the plan.            *)
LEMMA StaysWithin ==
    ASSUME ExitInv, LimitInv, NEW r \in Requests, NEW q, Become(r, q), Turn(q),
           NEW amount \in Nat, spent' = spent + amount, q.reserved + amount <= req[r].reserved
    PROVE  LimitInv'
<1>1. q.reserved \in Nat
  BY DEF Turn
<1>2. /\ Reserved \in Nat /\ req[r].reserved \in Nat
      /\ Reserved' = Reserved - req[r].reserved + q.reserved
  BY <1>1, ReservedChanges
<1>3. spent \in Nat /\ spent + Reserved <= PlanLimit /\ PlanLimit \in Nat
  BY DispatchAssumption DEF LimitInv, WithinPlan
<1>4. WithinPlan'
  BY <1>1, <1>2, <1>3 DEF WithinPlan
<1>5. \A s \in Requests : Turn(req'[s])
  BY OneBecomes DEF LimitInv
<1> QED  BY <1>4, <1>5 DEF LimitInv

(* So does one that reserves nothing more.                                 *)
LEMMA ReservesNoMore ==
    ASSUME ExitInv, LimitInv, NEW r \in Requests, NEW q, Become(r, q), Turn(q),
           UNCHANGED spent, q.reserved <= req[r].reserved
    PROVE  LimitInv'
<1>1. q.reserved \in Nat /\ spent \in Nat
  BY DEF Turn, LimitInv, WithinPlan
<1>2. 0 \in Nat /\ spent' = spent + 0 /\ q.reserved + 0 <= req[r].reserved
  BY <1>1
<1> QED  BY <1>2, StaysWithin

(* A step that reserves what fits keeps within the plan.                   *)
LEMMA ReservesWithin ==
    ASSUME ExitInv, LimitInv, NEW r \in Requests, NEW q, Become(r, q), Turn(q),
           UNCHANGED spent, Fits(q.reserved)
    PROVE  LimitInv'
<1>1. q.reserved \in Nat
  BY DEF Turn
<1>2. /\ Reserved \in Nat /\ req[r].reserved \in Nat
      /\ Reserved' = Reserved - req[r].reserved + q.reserved
  BY <1>1, ReservedChanges
<1>3. spent \in Nat /\ spent + Reserved + q.reserved <= PlanLimit /\ PlanLimit \in Nat
  BY DispatchAssumption DEF LimitInv, WithinPlan, Fits
<1>4. WithinPlan'
  BY <1>1, <1>2, <1>3 DEF WithinPlan
<1>5. \A s \in Requests : Turn(req'[s])
  BY OneBecomes DEF LimitInv
<1> QED  BY <1>4, <1>5 DEF LimitInv

-----------------------------------------------------------------------------
(* The steps.  An end calls nobody, and waits for nobody.                  *)
Ended(q, was) ==
    /\ q.phase \in Ends /\ q.queue = <<>>
    /\ q.options = was.options /\ q.called = was.called /\ q.seen = was.seen
    /\ q.attempts = was.attempts /\ q.reserved \in Nat /\ q.due \in Nat

(* It keeps what held of the calls, and of a failure must say why.         *)
LEMMA EndTurn ==
    ASSUME NEW was, Turn(was), NEW q, Ended(q, was),
           q.phase = "failed" /\ ~q.options.cascade /\ q.error \in Errors =>
               \/ q.attempts > MaxRetries
               \/ ToSet(q.decision.chain) \subseteq q.seen /\ q.attempts = Cardinality(q.seen)
    PROVE  Turn(q)
<1>1. Apart(was.called, Rest(was), was.seen)
  BY DEF Turn
<1>2. ToSet(<<>>) = {} /\ IsInjective(<<>>) /\ <<>> \in Seq(Models) /\ Len(<<>>) = 0
  BY DEF ToSet, IsInjective
<1>3. Rest(q) = <<>> /\ ~InFlight(q) /\ q.phase \notin {"idle", "choosing", "calling"}
  BY DEF Ended, Ends, Rest, InFlight
<1>4. Apart(q.called, Rest(q), q.seen)
  BY <1>1, <1>2, <1>3 DEF Apart, Ended
<1>5. ASSUME q.options.cascade PROVE LadderTurn(q)
  <2>1. Len(was.called) + Len(Rest(was)) <= 1 + MaxEscalations
    BY <1>5 DEF Turn, LadderTurn, Ended
  <2>2. Len(was.called) \in Nat /\ Len(Rest(was)) \in Nat /\ MaxEscalations \in Nat
    BY <1>1, DispatchAssumption DEF Apart
  <2> QED  BY <1>2, <1>3, <2>1, <2>2 DEF LadderTurn, Ended
<1>6. ASSUME ~q.options.cascade PROVE ChainTurn(q)
  BY <1>3, <1>6 DEF Turn, ChainTurn, Ended
<1> QED  BY <1>3, <1>4, <1>5, <1>6 DEF Turn, Ended

(* A request that raises keeps within the plan what it does not give back. *)
LEMMA RaiseTurn ==
    ASSUME ExitInv, LimitInv, NEW r \in Requests, NEW n, Raise(r, n), Whole(n),
           Ended([n EXCEPT !.queue = <<>>], req[r]), n.reserved <= req[r].reserved,
           n.phase = "failed" /\ ~n.options.cascade /\ n.error \in Errors =>
               \/ n.attempts > MaxRetries
               \/ ToSet(n.decision.chain) \subseteq n.seen /\ n.attempts = Cardinality(n.seen)
    PROVE  LimitInv'
<1>1. PICK q : q = [n EXCEPT !.queue = <<>>]
  OBVIOUS
<1>2. /\ q.phase = n.phase /\ q.options = n.options /\ q.error = n.error
      /\ q.attempts = n.attempts /\ q.decision = n.decision /\ q.seen = n.seen
      /\ q.reserved = n.reserved
  BY <1>1 DEF Whole, Fields, NewRequest
<1>3. Turn(q)
  BY <1>1, <1>2, EndTurn DEF LimitInv
<1>4. Become(r, q) /\ UNCHANGED spent
  BY <1>1 DEF Raise, ledgers
<1> QED  BY <1>2, <1>3, <1>4, ReservesNoMore

(* A request that is answered pays from its reservation.                   *)
LEMMA SettleTurn ==
    ASSUME ExitInv, LimitInv, NEW r \in Requests, NEW n, NEW amount \in Nat,
           Settle(r, n, amount), Whole(n),
           Ended([n EXCEPT !.phase = "answered", !.queue = <<>>, !.reserved = 0], req[r]),
           amount <= req[r].reserved
    PROVE  LimitInv'
<1>1. PICK q : q = [n EXCEPT !.phase = "answered", !.queue = <<>>, !.reserved = 0]
  OBVIOUS
<1>2. q.phase = "answered" /\ q.reserved = 0
  BY <1>1 DEF Whole, Fields, NewRequest
<1>3. Turn(q)
  BY <1>1, <1>2, EndTurn DEF LimitInv
<1>4. Become(r, q) /\ spent' = spent + amount
  BY <1>1 DEF Settle
<1> QED  BY <1>2, <1>3, <1>4, StaysWithin

(* What holds of a request in the middle of its work.                      *)
LEMMA InTurn ==
    ASSUME ExitInv, LimitInv, NEW r \in Requests
    PROVE  Whole(req[r]) /\ Turn(req[r]) /\ req[r].reserved \in Nat /\ req[r].due \in Nat
  BY DEF ExitInv, LimitInv, Turn

(* Out of models, or out of budget for a ladder.                           *)
LEMMA GiveUpTurn ==
    ASSUME ExitInv, LimitInv, NEW r \in Requests, GiveUp(r) \/ NoLadder(r)
    PROVE  LimitInv'
<1> DEFINE n == [req[r] EXCEPT !.phase = "failed"]
<1>1. /\ Whole(req[r]) /\ Turn(req[r]) /\ req[r].phase = "choosing" /\ Raise(r, n)
      /\ req[r].options.cascade \/ Exhausted(req[r])
      /\ req[r].reserved \in Nat /\ req[r].due \in Nat
  BY InTurn DEF GiveUp, NoLadder, InCascade
<1>2. /\ Whole(n) /\ n.phase = "failed" /\ n.options = req[r].options /\ n.error = req[r].error
      /\ n.attempts = req[r].attempts /\ n.decision = req[r].decision /\ n.seen = req[r].seen
      /\ n.reserved = req[r].reserved /\ n.called = req[r].called /\ n.due = req[r].due
  BY <1>1 DEF Whole, Fields, NewRequest
<1> HIDE DEF n
<1>3. Ended([n EXCEPT !.queue = <<>>], req[r])
  <2>1. PICK q : q = [n EXCEPT !.queue = <<>>]
    OBVIOUS
  <2>2. /\ q.phase = n.phase /\ q.options = n.options /\ q.called = n.called /\ q.seen = n.seen
        /\ q.attempts = n.attempts /\ q.reserved = n.reserved /\ q.due = n.due /\ q.queue = <<>>
    BY <1>2, <2>1 DEF Whole, Fields, NewRequest
  <2> QED  BY <1>1, <1>2, <2>1, <2>2 DEF Ended, Ends
<1>4. ASSUME ~n.options.cascade, n.error \in Errors
      PROVE  \/ n.attempts > MaxRetries
             \/ ToSet(n.decision.chain) \subseteq n.seen /\ n.attempts = Cardinality(n.seen)
  <2>1. ChainTurn(req[r]) /\ InFlight(req[r])
    BY <1>1, <1>2, <1>4 DEF Turn, InFlight
  <2>2. req[r].queue = <<>> => Len(req[r].queue) = 0
    OBVIOUS
  <2> QED  BY <1>1, <1>2, <1>4, <2>1, <2>2 DEF ChainTurn, Exhausted
<1>5. n.reserved <= req[r].reserved
  BY <1>1, <1>2
<1> QED  BY <1>1, <1>2, <1>3, <1>4, <1>5, RaiseTurn

(* A model passed over has had its turn.                                   *)
LEMMA SkipTurn ==
    ASSUME ExitInv, LimitInv, NEW r \in Requests, Skip(r)
    PROVE  LimitInv'
<1> PICK fits : fits = Fits(Cost[Head(req[r].queue)])
  OBVIOUS
<1> DEFINE why == IF fits THEN "daily_cap_exceeded" ELSE "budget_exceeded"
           n == [req[r] EXCEPT !.error = why, !.queue = Tail(@), !.attempts = @ + 1]
<1>1. /\ Whole(req[r]) /\ Turn(req[r]) /\ req[r].phase = "choosing" /\ ~req[r].options.cascade
      /\ req[r].queue # <<>>
  BY InTurn DEF Skip, InCascade, Exhausted
<1>2. PICK q : q = n
  OBVIOUS
<1>3. /\ q.phase = "choosing" /\ q.options = req[r].options /\ q.decision = req[r].decision
      /\ q.queue = Tail(req[r].queue) /\ q.seen = req[r].seen /\ q.attempts = req[r].attempts + 1
      /\ q.error = why /\ q.reserved = req[r].reserved /\ q.due = req[r].due
      /\ q.called = req[r].called
  BY <1>1, <1>2 DEF Whole, Fields, NewRequest
<1>4. Become(r, q) /\ UNCHANGED spent
  BY <1>2, Zenon DEF Skip, ledgers
<1>5. why \notin Errors
  BY DEF Errors, Chains
<1> HIDE DEF why, n
<1>6. /\ Apart(q.called, Rest(q), q.seen) /\ Len(q.queue) = Len(req[r].queue) - 1
      /\ Len(req[r].queue) \in Nat /\ Rest(q) = q.queue
  <2>1. Apart(req[r].called, req[r].queue, req[r].seen)
    BY <1>1 DEF Turn, Rest
  <2> QED  BY <1>1, <1>3, <2>1, NextSkipped DEF Rest
<1>7. ChainTurn(req[r]) /\ InFlight(req[r]) /\ req[r].decision \in Decisions
  BY <1>1 DEF Turn, InFlight
<1>8. Len(req[r].called) \in Nat
  BY <1>1 DEF Turn, Apart
<1>9. ChainTurn(q)
  <2>1. /\ req[r].attempts \in Nat /\ Len(req[r].called) <= 1 + MaxRetries
        /\ req[r].attempts + Len(req[r].queue) = Cardinality(req[r].seen)
        /\ Len(req[r].called) <= req[r].attempts
    BY <1>1, <1>7, <1>8 DEF ChainTurn, Open
  <2>2. /\ q.attempts \in Nat /\ q.attempts + Len(q.queue) = Cardinality(q.seen)
        /\ Len(q.called) <= 1 + MaxRetries /\ Len(q.called) <= q.attempts + 0
    BY <1>3, <1>6, <1>8, <2>1
  <2> QED  BY <1>3, <1>5, <2>2 DEF ChainTurn, Open
<1>10. Turn(q)
  BY <1>1, <1>3, <1>6, <1>7, <1>9 DEF Turn, Apart
<1>11. q.reserved <= req[r].reserved
  BY <1>1, <1>3 DEF Turn
<1> QED  BY <1>4, <1>10, <1>11, ReservesNoMore

(* A model called reserves its estimate, which fits.                       *)
LEMMA CallTurn ==
    ASSUME ExitInv, LimitInv, NEW r \in Requests, Call(r)
    PROVE  LimitInv'
<1> PICK model : model = Head(req[r].queue)
  OBVIOUS
<1> DEFINE n == [req[r] EXCEPT !.phase = "calling", !.reserved = Cost[model],
                               !.called = Append(@, model)]
<1>1. /\ Whole(req[r]) /\ Turn(req[r]) /\ req[r].phase = "choosing" /\ ~req[r].options.cascade
      /\ req[r].queue # <<>> /\ ~(req[r].attempts > MaxRetries) /\ Fits(Cost[model])
  BY InTurn DEF Call, InCascade, Exhausted
<1>2. PICK q : q = n
  OBVIOUS
<1>3. /\ q.phase = "calling" /\ q.options = req[r].options /\ q.decision = req[r].decision
      /\ q.queue = req[r].queue /\ q.seen = req[r].seen /\ q.attempts = req[r].attempts
      /\ q.error = req[r].error /\ q.reserved = Cost[model] /\ q.due = req[r].due
      /\ q.called = Append(req[r].called, model)
  BY <1>1, <1>2 DEF Whole, Fields, NewRequest
<1>4. Become(r, q) /\ UNCHANGED spent
  BY <1>2, Zenon DEF Call, ledgers
<1> HIDE DEF n
<1>6. /\ Apart(q.called, Rest(q), q.seen) /\ Len(q.called) = Len(req[r].called) + 1
      /\ model \in Models /\ Len(req[r].called) \in Nat
  <2>1. Apart(req[r].called, req[r].queue, req[r].seen)
    BY <1>1 DEF Turn, Rest
  <2> QED  BY <1>1, <1>3, <2>1, NextCalled DEF Rest
<1>7. ChainTurn(req[r]) /\ InFlight(req[r]) /\ req[r].decision \in Decisions
  BY <1>1 DEF Turn, InFlight
<1>8. Cost[model] \in Nat /\ MaxRetries \in Nat
  BY <1>6, DispatchAssumption
<1>9. ChainTurn(q)
  BY <1>1, <1>3, <1>6, <1>7, <1>8 DEF ChainTurn, Open, InFlight
<1>10. Turn(q)
  BY <1>1, <1>3, <1>6, <1>7, <1>8, <1>9 DEF Turn, InFlight
<1> QED  BY <1>1, <1>3, <1>4, <1>10, ReservesWithin

(* A provider that answers is paid no more than its estimate.              *)
LEMMA SucceedTurn ==
    ASSUME ExitInv, LimitInv, NEW r \in Requests, NEW paid \in Charges(r), Succeed(r, paid)
    PROVE  LimitInv'
<1> PICK report : report = Report(req[r], "success")
  OBVIOUS
<1> DEFINE n == [req[r] EXCEPT !.outcomes = Append(@, "success"), !.reports = Append(@, report)]
<1>1. /\ Whole(req[r]) /\ Turn(req[r]) /\ req[r].phase = "calling" /\ ~req[r].options.cascade
      /\ Settle(r, n, paid) /\ req[r].reserved \in Nat /\ req[r].due \in Nat
  BY InTurn DEF Succeed, Calling, InCascade
<1>2. Whole(n)
  BY <1>1 DEF Whole, Fields, NewRequest
<1>3. Ended([n EXCEPT !.phase = "answered", !.queue = <<>>, !.reserved = 0], req[r])
  <2>1. PICK q : q = [n EXCEPT !.phase = "answered", !.queue = <<>>, !.reserved = 0]
    OBVIOUS
  <2>2. /\ q.phase = "answered" /\ q.options = req[r].options /\ q.called = req[r].called
        /\ q.seen = req[r].seen /\ q.attempts = req[r].attempts /\ q.reserved = 0
        /\ q.due = req[r].due /\ q.queue = <<>>
    BY <1>1, <2>1 DEF Whole, Fields, NewRequest
  <2> QED  BY <1>1, <2>1, <2>2 DEF Ended, Ends
<1>4. paid \in Nat /\ paid <= req[r].reserved
  <2>1. req[r].reserved = Cost[Head(req[r].queue)]
    BY <1>1 DEF Turn, ChainTurn
  <2> QED  BY <1>1, <2>1 DEF Charges
<1> HIDE DEF n
<1> QED  BY <1>1, <1>2, <1>3, <1>4, SettleTurn

(* A failure gives the reservation back and brings the next models in.     *)
LEMMA FailTurn ==
    ASSUME ExitInv, LimitInv, NEW r \in Requests, NEW error \in Errors, Fail(r, error)
    PROVE  LimitInv'
<1> PICK more, report : more = More(req[r], error) /\ report = Report(req[r], "failure")
  OBVIOUS
<1> DEFINE n == [req[r] EXCEPT !.phase = "choosing", !.reserved = 0, !.error = error,
                               !.queue = Tail(@) \o more, !.seen = @ \cup ToSet(more),
                               !.attempts = @ + 1, !.outcomes = Append(@, "failure"),
                               !.reports = Append(@, report)]
<1>1. /\ Whole(req[r]) /\ Turn(req[r]) /\ req[r].phase = "calling" /\ ~req[r].options.cascade
      /\ req[r].due \in Nat /\ req[r].reserved \in Nat
  BY InTurn DEF Fail, Calling, InCascade
<1>2. PICK q : q = n
  OBVIOUS
<1>3. /\ q.phase = "choosing" /\ q.options = req[r].options /\ q.decision = req[r].decision
      /\ q.queue = Tail(req[r].queue) \o more /\ q.seen = req[r].seen \cup ToSet(more)
      /\ q.attempts = req[r].attempts + 1
      /\ q.error = error /\ q.reserved = 0 /\ q.due = req[r].due
      /\ q.called = req[r].called
  BY <1>1, <1>2 DEF Whole, Fields, NewRequest
<1>4. Become(r, q) /\ UNCHANGED spent
  BY <1>2, Zenon DEF Fail, ledgers
<1> HIDE DEF n
<1>5. ChainTurn(req[r]) /\ InFlight(req[r]) /\ req[r].decision \in Decisions
  BY <1>1 DEF Turn, InFlight
<1>6. /\ more \in Seq(Models) /\ IsInjective(more) /\ ToSet(more) \cap req[r].seen = {}
      /\ ToSet(req[r].decision.chain) \subseteq q.seen
  BY <1>3, <1>5, MoreIsNew
<1>7. PICK rest : rest = Tail(req[r].queue)
  OBVIOUS
<1>8. /\ Apart(req[r].called, rest, req[r].seen)
      /\ Len(rest) = Len(req[r].queue) - 1 /\ Len(req[r].queue) \in Nat
      /\ Len(req[r].called) \in Nat
  <2>1. req[r].queue \in Seq(Models) /\ req[r].queue # <<>>
    BY <1>1, <1>5 DEF Turn
  <2>2. Len(rest) = Len(req[r].queue) - 1 /\ Len(req[r].queue) \in Nat
    BY <1>7, <2>1, TailList
  <2> QED  BY <1>1, <1>7, <2>2 DEF Turn, Rest, Apart
<1>9. /\ Apart(q.called, q.queue, q.seen) /\ Len(q.queue) = Len(rest) + Len(more)
      /\ Len(rest) \in Nat /\ Len(more) \in Nat
      /\ Cardinality(q.seen) = Cardinality(req[r].seen) + Len(more)
      /\ Cardinality(req[r].seen) \in Nat
  <2>1. PICK made, seen : made = req[r].called /\ seen = req[r].seen
    OBVIOUS
  <2>2. Apart(made, rest, seen) /\ ToSet(more) \cap seen = {}
    BY <1>6, <1>8, <2>1
  <2>3. /\ Apart(made, rest \o more, seen \cup ToSet(more))
        /\ Len(rest \o more) = Len(rest) + Len(more) /\ Len(rest) \in Nat /\ Len(more) \in Nat
        /\ Cardinality(seen \cup ToSet(more)) = Cardinality(seen) + Len(more)
        /\ Cardinality(seen) \in Nat
    BY <1>6, <2>2, MoreJoin
  <2> QED  BY <1>3, <1>7, <2>1, <2>3
<1>10. ChainTurn(q)
  <2>1. /\ req[r].attempts \in Nat /\ Len(req[r].called) <= 1 + MaxRetries
        /\ req[r].attempts + Len(req[r].queue) = Cardinality(req[r].seen)
        /\ Len(req[r].called) <= req[r].attempts + 1
    BY <1>1, <1>5 DEF ChainTurn, Open
  <2>2. /\ q.attempts \in Nat /\ q.attempts + Len(q.queue) = Cardinality(q.seen)
        /\ Len(q.called) <= 1 + MaxRetries /\ Len(q.called) <= q.attempts + 0
    <3>1. q.attempts = req[r].attempts + 1 /\ q.called = req[r].called
      BY <1>3
    <3>2. PICK a, l, c : a = req[r].attempts /\ l = Len(req[r].queue) /\ c = Cardinality(req[r].seen)
      OBVIOUS
    <3>3. /\ a \in Nat /\ l \in Nat /\ c \in Nat /\ a + l = c /\ Len(more) \in Nat
          /\ Len(q.queue) = (l - 1) + Len(more) /\ Cardinality(q.seen) = c + Len(more)
      BY <1>8, <1>9, <2>1, <3>2
    <3>7. PICK m : m = Len(more)
      OBVIOUS
    <3>8. q.attempts = a + 1 /\ Len(q.queue) = (l - 1) + m /\ Cardinality(q.seen) = c + m
      BY <3>1, <3>2, <3>3, <3>7
    <3>9. a \in Nat /\ l \in Nat /\ c \in Nat /\ m \in Nat /\ a + l = c
      BY <3>3, <3>7
    <3>10. a + 1 \in Nat /\ (a + 1) + ((l - 1) + m) = c + m
      BY <3>9
    <3>4. q.attempts \in Nat /\ q.attempts + Len(q.queue) = Cardinality(q.seen)
      BY <3>8, <3>10
    <3>5. PICK k : k = Len(req[r].called) /\ k = Len(q.called) /\ k \in Nat
      BY <1>8, <3>1
    <3>6. k <= 1 + MaxRetries /\ k <= q.attempts + 0
      BY <2>1, <3>1, <3>5
    <3> QED  BY <3>4, <3>5, <3>6
  <2> QED  BY <1>3, <1>6, <2>2 DEF ChainTurn, Open
<1>11. Turn(q)
  BY <1>1, <1>3, <1>5, <1>9, <1>10 DEF Turn, Rest, Apart
<1>12. q.reserved <= req[r].reserved
  BY <1>1, <1>3
<1> QED  BY <1>4, <1>11, <1>12, ReservesNoMore

(* A call that raises ends the request, with or without its reservation.   *)
LEMMA RaisedTurn ==
    ASSUME ExitInv, LimitInv, NEW r \in Requests, RejectKey(r) \/ Abort(r) \/ VerifierRaises(r)
    PROVE  LimitInv'
<1>1. Whole(req[r]) /\ Turn(req[r]) /\ req[r].reserved \in Nat /\ req[r].due \in Nat
  BY InTurn
<1>0. PICK down, up : down = Report(req[r], "failure") /\ up = Report(req[r], "success")
  OBVIOUS
<1>2. PICK n : /\ Raise(r, n)
               /\ \/ n = [req[r] EXCEPT !.phase = "raised", !.reserved = 0,
                                         !.outcomes = Append(@, "failure"),
                                         !.reports = Append(@, down)]
                  \/ n = [req[r] EXCEPT !.phase = "raised", !.reserved = 0, !.aborted = TRUE]
                  \/ n = [req[r] EXCEPT !.phase = "unverified",
                                         !.outcomes = Append(@, "success"),
                                         !.reports = Append(@, up)]
  BY <1>0, Zenon DEF RejectKey, Abort, VerifierRaises
<1>3. /\ Whole(n) /\ n.phase \in {"raised", "unverified"} /\ n.options = req[r].options
      /\ n.attempts = req[r].attempts /\ n.seen = req[r].seen /\ n.called = req[r].called
      /\ n.due = req[r].due /\ (n.reserved = 0 \/ n.reserved = req[r].reserved)
  BY <1>1, <1>2 DEF Whole, Fields, NewRequest
<1>4. Ended([n EXCEPT !.queue = <<>>], req[r])
  <2>1. PICK q : q = [n EXCEPT !.queue = <<>>]
    OBVIOUS
  <2>2. /\ q.phase = n.phase /\ q.options = n.options /\ q.called = n.called /\ q.seen = n.seen
        /\ q.attempts = n.attempts /\ q.reserved = n.reserved /\ q.due = n.due /\ q.queue = <<>>
    BY <1>3, <2>1 DEF Whole, Fields, NewRequest
  <2> QED  BY <1>1, <1>3, <2>1, <2>2 DEF Ended, Ends
<1>5. n.reserved <= req[r].reserved /\ n.phase # "failed"
  BY <1>1, <1>3
<1> QED  BY <1>2, <1>3, <1>4, <1>5, RaiseTurn

(* A cascade reserves for its whole ladder, and calls the first tier.      *)
LEMMA StartCascadeTurn ==
    ASSUME ExitInv, LimitInv, NEW r \in Requests, StartCascade(r)
    PROVE  LimitInv'
<1> PICK model, cost : model = Head(req[r].queue) /\ cost = TotalCost(req[r].queue)
  OBVIOUS
<1> DEFINE n == [req[r] EXCEPT !.phase = "calling", !.reserved = cost, !.called = <<model>>]
<1>1. /\ Whole(req[r]) /\ Turn(req[r]) /\ req[r].phase = "choosing" /\ req[r].options.cascade
      /\ req[r].queue # <<>> /\ Fits(cost)
  BY InTurn DEF StartCascade, InCascade
<1>2. PICK q : q = n
  OBVIOUS
<1>3. /\ q.phase = "calling" /\ q.options = req[r].options /\ q.decision = req[r].decision
      /\ q.queue = req[r].queue /\ q.seen = req[r].seen /\ q.due = req[r].due
      /\ q.reserved = cost /\ q.called = <<model>>
  BY <1>1, <1>2 DEF Whole, Fields, NewRequest
<1>4. Become(r, q) /\ UNCHANGED spent
  BY <1>2, Zenon DEF StartCascade, ledgers
<1> HIDE DEF n
<1>5. /\ LadderTurn(req[r]) /\ InFlight(req[r]) /\ req[r].decision \in Decisions
      /\ req[r].queue \in Seq(Models) /\ req[r].due = 0 /\ req[r].called = <<>>
  BY <1>1 DEF Turn, InFlight, LadderTurn
<1>6. /\ Apart(q.called, Rest(q), q.seen) /\ Len(q.called) = 1
      /\ Len(Rest(q)) = Len(req[r].queue) - 1 /\ Len(req[r].queue) \in Nat
      /\ Len(req[r].queue) <= 1 + MaxEscalations
  <2>1. Apart(<<>>, req[r].queue, req[r].seen)
    BY <1>1, <1>5 DEF Turn, Rest
  <2>2. Append(<<>>, model) = <<model>> /\ Len(<<>>) = 0
    OBVIOUS
  <2>3. PICK made : made = <<>>
    OBVIOUS
  <2>4. /\ Apart(Append(made, model), Tail(req[r].queue), req[r].seen)
        /\ Len(Append(made, model)) = Len(made) + 1
        /\ Len(Tail(req[r].queue)) = Len(req[r].queue) - 1 /\ Len(req[r].queue) \in Nat
    BY <1>1, <2>1, <2>3, NextCalled
  <2>5. Len(req[r].called) + Len(req[r].queue) <= 1 + MaxEscalations
    BY <1>1, <1>5 DEF LadderTurn, Rest
  <2>6. Apart(q.called, Rest(q), q.seen) /\ Len(q.called) = 1
    BY <1>3, <2>2, <2>3, <2>4 DEF Rest
  <2> QED  BY <1>3, <1>5, <2>2, <2>4, <2>5, <2>6 DEF Rest
<1>7. cost \in Nat
  BY <1>5, CostOfTiers
<1>8. LadderTurn(q)
  <2>1. Len(q.called) + Len(Rest(q)) <= 1 + MaxEscalations
    BY <1>6, DispatchAssumption
  <2>2. q.due + TotalCost(q.queue) <= q.reserved
    BY <1>3, <1>5, <1>7
  <2> QED  BY <1>3, <2>1, <2>2 DEF LadderTurn
<1>9. Turn(q)
  BY <1>1, <1>3, <1>5, <1>6, <1>7, <1>8 DEF Turn, InFlight
<1> QED  BY <1>1, <1>3, <1>4, <1>9, ReservesWithin

(* What a tier, once it is over, adds to what is due.                      *)
Tiered(n, was, paid) ==
    /\ Whole(n) /\ n.phase = was.phase /\ n.options = was.options /\ n.decision = was.decision
    /\ n.queue = was.queue /\ n.seen = was.seen /\ n.called = was.called
    /\ n.attempts = was.attempts
    /\ n.reserved = was.reserved /\ n.due = was.due + paid

(* What was reserved for the tier covers it, and more is left for the      *)
(* tiers to come.                                                          *)
LEMMA TierCovered ==
    ASSUME ExitInv, LimitInv, NEW r \in Requests, Calling(r), InCascade(r),
           NEW paid \in 0..Cost[Head(req[r].queue)], NEW n, Tiered(n, req[r], paid)
    PROVE  /\ n.due \in Nat /\ n.due <= req[r].reserved
           /\ n.due + TotalCost(Tail(req[r].queue)) <= req[r].reserved
<1>1. /\ req[r].queue \in Seq(Models) /\ req[r].queue # <<>> /\ req[r].due \in Nat
      /\ req[r].reserved \in Nat /\ req[r].due + TotalCost(req[r].queue) <= req[r].reserved
  BY DEF LimitInv, Turn, LadderTurn, Calling, InCascade, InFlight
<1>2. PICK head, tail : head = Head(req[r].queue) /\ tail = Tail(req[r].queue)
  OBVIOUS
<1>3. head \in Models /\ tail \in Seq(Models)
  BY <1>1, <1>2
<1>4. TotalCost(req[r].queue) = Cost[head] + TotalCost(tail) /\ TotalCost(tail) \in Nat
  BY <1>1, <1>2, <1>3, CostOfTiers
<1>5. Cost[head] \in Nat /\ paid \in Nat /\ paid <= Cost[head]
  BY <1>2, <1>3, DispatchAssumption
<1>6. n.due = req[r].due + paid
  BY DEF Tiered
<1>7. PICK due \in Nat, reserved \in Nat, price \in Nat, rest \in Nat :
        due = req[r].due /\ reserved = req[r].reserved /\ price = Cost[head]
        /\ rest = TotalCost(tail)
  BY <1>1, <1>4, <1>5
<1>8. due + (price + rest) <= reserved
  BY <1>1, <1>4, <1>7
<1>9. /\ due + paid \in Nat /\ due + paid <= reserved
      /\ due + paid + rest <= reserved
  BY <1>5, <1>7, <1>8
<1> QED  BY <1>2, <1>6, <1>7, <1>9

(* On to the next tier.                                                    *)
LEMMA ClimbTurn ==
    ASSUME ExitInv, LimitInv, NEW r \in Requests, Calling(r), InCascade(r), ~LastTier(req[r]),
           NEW paid \in 0..Cost[Head(req[r].queue)], NEW n, Tiered(n, req[r], paid), Climb(r, n)
    PROVE  LimitInv'
<1> PICK second : second = n.queue[2]
  OBVIOUS
<1>1. /\ Turn(req[r]) /\ req[r].phase = "calling" /\ req[r].options.cascade
      /\ InFlight(req[r]) /\ req[r].reserved \in Nat
  BY InTurn DEF Calling, InCascade, InFlight
<1>2. PICK q : q = [n EXCEPT !.queue = Tail(@), !.called = Append(@, second)]
  OBVIOUS
<1>3. /\ q.phase = "calling" /\ q.options = req[r].options /\ q.decision = req[r].decision
      /\ q.queue = Tail(req[r].queue) /\ q.seen = req[r].seen /\ q.due = n.due
      /\ q.reserved = req[r].reserved /\ q.called = Append(req[r].called, second)
  BY <1>1, <1>2 DEF Tiered, Whole, Fields, NewRequest
<1>4. Become(r, q) /\ UNCHANGED spent
  BY <1>2 DEF Climb, ledgers
<1>5. /\ LadderTurn(req[r]) /\ req[r].decision \in Decisions
      /\ req[r].queue \in Seq(Models) /\ req[r].queue # <<>>
  BY <1>1 DEF Turn
<1>6. PICK rest : rest = Tail(req[r].queue)
  OBVIOUS
<1>7. rest \in Seq(Models) /\ rest # <<>> /\ Head(rest) = second
  <2>1. Len(req[r].queue) # 1 /\ n.queue = req[r].queue
    BY DEF LastTier, Tiered
  <2>2. Len(rest) = Len(req[r].queue) - 1 /\ Len(req[r].queue) \in Nat /\ rest \in Seq(Models)
    BY <1>5, <1>6
  <2>3. Len(req[r].queue) # 0
    BY <1>5
  <2>6. rest = <<>> => Len(rest) = 0
    OBVIOUS
  <2>4. rest # <<>>
    BY <2>1, <2>2, <2>6
  <2>5. Head(rest) = rest[1] /\ rest[1] = req[r].queue[2]
    BY <1>5, <1>6, <2>1, <2>2, <2>3, <2>4
  <2> QED  BY <2>1, <2>2, <2>4, <2>5
<1>8. /\ Apart(q.called, Rest(q), q.seen) /\ Len(q.called) = Len(req[r].called) + 1
      /\ Len(Rest(q)) = Len(rest) - 1 /\ Len(rest) \in Nat /\ Len(req[r].called) \in Nat
  <2>1. Apart(req[r].called, rest, req[r].seen)
    BY <1>1, <1>6 DEF Turn, Rest
  <2>2. q.called = Append(req[r].called, Head(rest)) /\ Rest(q) = Tail(rest)
    BY <1>3, <1>6, <1>7 DEF Rest
  <2> QED  BY <1>3, <1>7, <2>1, <2>2, NextCalled
<1>9. LadderTurn(q)
  <2>1. Len(req[r].called) + Len(rest) <= 1 + MaxEscalations
    BY <1>1, <1>5, <1>6 DEF LadderTurn, Rest
  <2>2. Len(q.called) + Len(Rest(q)) <= 1 + MaxEscalations
    BY <1>8, <2>1
  <2>3. q.due + TotalCost(q.queue) <= q.reserved
    BY <1>3, TierCovered
  <2> QED  BY <1>3, <2>2, <2>3 DEF LadderTurn
<1>10. n.due \in Nat
  BY TierCovered
<1>11. Turn(q)
  BY <1>1, <1>3, <1>5, <1>6, <1>7, <1>8, <1>9, <1>10 DEF Turn
<1>12. q.reserved <= req[r].reserved
  BY <1>1, <1>3
<1> QED  BY <1>4, <1>11, <1>12, ReservesNoMore

(* The answer of the cascade pays for the tiers it climbed.                *)
LEMMA SettleCascadeTurn ==
    ASSUME ExitInv, LimitInv, NEW r \in Requests, Calling(r), InCascade(r),
           NEW paid \in 0..Cost[Head(req[r].queue)], NEW n, Tiered(n, req[r], paid),
           Settle(r, n, n.due)
    PROVE  LimitInv'
<1>1. n.due \in Nat /\ n.due <= req[r].reserved
  BY TierCovered
<1>2. Ended([n EXCEPT !.phase = "answered", !.queue = <<>>, !.reserved = 0], req[r])
  <2>1. PICK q : q = [n EXCEPT !.phase = "answered", !.queue = <<>>, !.reserved = 0]
    OBVIOUS
  <2>2. /\ q.phase = "answered" /\ q.options = req[r].options /\ q.called = req[r].called
        /\ q.seen = req[r].seen /\ q.reserved = 0 /\ q.attempts = req[r].attempts
        /\ q.due = n.due /\ q.queue = <<>>
    BY <2>1 DEF Tiered, Whole, Fields, NewRequest
  <2> QED  BY <1>1, <2>1, <2>2 DEF Ended, Ends
<1>3. Whole(n)
  BY DEF Tiered
<1> QED  BY <1>1, <1>2, <1>3, SettleTurn

(* A tier that answers ends the cascade, or hands on to the next.          *)
LEMMA TierAnswersTurn ==
    ASSUME ExitInv, LimitInv, NEW r \in Requests, NEW paid \in Charges(r), NEW verified,
           TierAnswers(r, paid, verified)
    PROVE  LimitInv'
<1> PICK report : report = Report(req[r], "success")
  OBVIOUS
<1> DEFINE n == [req[r] EXCEPT !.outcomes = Append(@, "success"), !.reports = Append(@, report),
                               !.due = @ + paid, !.got = TRUE]
<1>1. /\ Whole(req[r]) /\ Calling(r) /\ InCascade(r)
      /\ Settle(r, n, n.due) \/ (~LastTier(req[r]) /\ Climb(r, n))
  BY InTurn DEF TierAnswers
<1>2. Tiered(n, req[r], paid)
  BY <1>1 DEF Tiered, Whole, Fields, NewRequest
<1>3. paid \in 0..Cost[Head(req[r].queue)]
  <2>1. Head(req[r].queue) \in Models
    <3>1. req[r].queue \in Seq(Models) /\ req[r].queue # <<>>
      BY <1>1, InTurn DEF Turn, InFlight, Calling
    <3> QED  BY <3>1
  <2>2. Cost[Head(req[r].queue)] \in Nat
    BY <2>1, DispatchAssumption
  <2> QED  BY <2>2 DEF Charges
<1> HIDE DEF n
<1> QED  BY <1>1, <1>2, <1>3, ClimbTurn, SettleCascadeTurn

(* So does one that fails, billed at its estimate.                         *)
LEMMA TierFailsTurn ==
    ASSUME ExitInv, LimitInv, NEW r \in Requests, TierFails(r)
    PROVE  LimitInv'
<1> PICK cost, report : cost = Cost[Head(req[r].queue)] /\ report = Report(req[r], "failure")
  OBVIOUS
<1> DEFINE n == [req[r] EXCEPT !.outcomes = Append(@, "failure"), !.reports = Append(@, report),
                               !.due = @ + cost]
           last == [n EXCEPT !.phase = "failed", !.reserved = 0]
<1>1. /\ Whole(req[r]) /\ Calling(r) /\ InCascade(r)
      /\ \/ ~LastTier(req[r]) /\ Climb(r, n)
         \/ Settle(r, n, n.due)
         \/ Raise(r, last)
  BY InTurn DEF TierFails
<1>2. Tiered(n, req[r], cost)
  BY <1>1 DEF Tiered, Whole, Fields, NewRequest
<1>3. /\ Whole(last) /\ last.phase = "failed" /\ last.options = n.options /\ last.reserved = 0
      /\ last.attempts = n.attempts /\ last.seen = n.seen /\ last.called = n.called
      /\ last.due = n.due
  BY <1>1 DEF Whole, Fields, NewRequest
<1> HIDE DEF n, last
<1>4. cost \in 0..Cost[Head(req[r].queue)] /\ req[r].reserved \in Nat
  <2>1. Head(req[r].queue) \in Models /\ req[r].reserved \in Nat
    <3>1. req[r].queue \in Seq(Models) /\ req[r].queue # <<>> /\ req[r].reserved \in Nat
      BY <1>1, InTurn DEF Turn, InFlight, Calling
    <3> QED  BY <3>1
  <2>2. cost \in Nat
    BY <2>1, DispatchAssumption
  <2> QED  BY <2>1, <2>2
<1>5. CASE Raise(r, last)
  <2>1. n.due \in Nat
    BY <1>1, <1>2, <1>4, TierCovered
  <2>2. Ended([last EXCEPT !.queue = <<>>], req[r])
    <3>1. PICK q : q = [last EXCEPT !.queue = <<>>]
      OBVIOUS
    <3>2. /\ q.phase = "failed" /\ q.options = req[r].options /\ q.called = req[r].called
          /\ q.seen = req[r].seen /\ q.reserved = 0 /\ q.attempts = req[r].attempts
          /\ q.due = n.due /\ q.queue = <<>>
      BY <1>2, <1>3, <3>1 DEF Tiered, Whole, Fields, NewRequest
    <3> QED  BY <2>1, <3>1, <3>2 DEF Ended, Ends
  <2>3. last.options.cascade /\ last.reserved <= req[r].reserved
    BY <1>1, <1>2, <1>3, <1>4 DEF Tiered, InCascade
  <2> QED  BY <1>3, <1>5, <2>2, <2>3, RaiseTurn
<1> QED  BY <1>1, <1>2, <1>4, <1>5, ClimbTurn, SettleCascadeTurn

(* A request let in has its chosen model, or its ladder, before it.        *)
LEMMA RouteTurn ==
    ASSUME ExitInv, LimitInv, NEW r \in Requests, NEW options \in Options, NEW decision \in Decisions,
           Route(r, options, decision)
    PROVE  LimitInv'
<1> PICK queue : queue = IF decision.chosen = NoModel THEN <<>>
                         ELSE IF options.cascade THEN Ladder(decision) ELSE <<decision.chosen>>
  OBVIOUS
<1>1. /\ Whole(req[r]) /\ Turn(req[r]) /\ req[r].phase = "idle" /\ req[r] = NewRequest
  BY InTurn DEF Route, Turn
<1>2. PICK q : q = Routed(r, options, decision)
  OBVIOUS
<1>3. /\ q.phase = "choosing" /\ q.options = options /\ q.decision = decision /\ q.queue = queue
      /\ q.seen = ToSet(queue)
  BY <1>1, <1>2 DEF Routed, Whole, Fields, NewRequest
<1>4. /\ q.called = <<>> /\ q.attempts = 0 /\ q.error = "none" /\ q.reserved = 0 /\ q.due = 0
      /\ req[r].reserved = 0
  BY <1>1, <1>2 DEF Routed, NewRequest
<1>5. Become(r, q) /\ UNCHANGED spent
  BY <1>2 DEF Route, ledgers
<1>6. /\ queue \in Seq(Models) /\ IsInjective(queue)
      /\ options.cascade => Len(queue) <= MaxEscalations + 1
      /\ ~options.cascade => Len(queue) <= 1
  <2>1. CASE decision.chosen = NoModel
    BY <2>1, DispatchAssumption DEF IsInjective
  <2>2. CASE decision.chosen # NoModel /\ options.cascade
    BY <2>2, LadderFits
  <2>3. CASE decision.chosen # NoModel /\ ~options.cascade
    <3>1. decision.chosen \in Models
      BY <2>3, DispatchAssumption DEF Decision
    <3>2. queue = <<decision.chosen>>
      BY <2>3
    <3> QED  BY <2>3, <3>1, <3>2, ShortList
  <2> QED  BY <2>1, <2>2, <2>3
<1>7. PICK seen : seen = ToSet(queue)
  OBVIOUS
<1>8. /\ IsFiniteSet(seen) /\ seen \subseteq Models /\ Cardinality(seen) = Len(queue)
      /\ Len(queue) \in Nat
  <2>1. Len(queue) \in Nat
    BY <1>6
  <2> QED  BY <1>6, <1>7, <2>1, DistinctList
<1>9. Apart(q.called, Rest(q), q.seen) /\ Len(q.called) = 0
  <2>1. ToSet(<<>>) = {} /\ IsInjective(<<>>) /\ <<>> \in Seq(Models) /\ Len(<<>>) = 0
    BY DEF ToSet, IsInjective
  <2> QED  BY <1>3, <1>4, <1>6, <1>7, <1>8, <2>1 DEF Apart, Rest
<1>10. ASSUME options.cascade PROVE LadderTurn(q)
  <2>1. Rest(q) = queue /\ Len(queue) <= MaxEscalations + 1 /\ MaxEscalations \in Nat
    BY <1>3, <1>6, <1>10, DispatchAssumption DEF Rest
  <2> QED  BY <1>3, <1>4, <1>8, <1>9, <2>1 DEF LadderTurn
<1>11. ASSUME ~options.cascade PROVE ChainTurn(q)
  <2>1. "none" \notin Errors /\ MaxRetries \in Nat
    BY DispatchAssumption DEF Errors, Chains
  <2>2. q.attempts + Len(q.queue) = Cardinality(q.seen)
    BY <1>3, <1>4, <1>7, <1>8
  <2> QED  BY <1>3, <1>4, <1>9, <2>1, <2>2 DEF ChainTurn, Open
<1>12. Turn(q)
  BY <1>3, <1>4, <1>6, <1>9, <1>10, <1>11 DEF Turn
<1>13. q.reserved <= req[r].reserved
  BY <1>4
<1> QED  BY <1>5, <1>12, <1>13, ReservesNoMore

(* A refused request never begins.                                         *)
LEMMA RefuseTurn ==
    ASSUME ExitInv, LimitInv, NEW r \in Requests, NEW options \in Options, Refuse(r, options)
    PROVE  LimitInv'
<1>1. Whole(req[r]) /\ Turn(req[r]) /\ req[r].phase = "idle" /\ req[r] = NewRequest
  BY InTurn DEF Refuse, Turn
<1>2. PICK q : q = [req[r] EXCEPT !.phase = "refused", !.options = options]
  OBVIOUS
<1>3. q.phase = "refused" /\ q.options = options
  BY <1>1, <1>2 DEF Whole, Fields, NewRequest
<1>4. /\ q.called = <<>> /\ q.attempts = 0 /\ q.reserved = 0 /\ q.due = 0 /\ q.queue = <<>>
      /\ q.seen = {} /\ req[r].reserved = 0
  BY <1>1, <1>2 DEF NewRequest
<1>5. Become(r, q) /\ UNCHANGED spent
  BY <1>2 DEF Refuse, ledgers
<1>6. Apart(q.called, Rest(q), q.seen) /\ Len(q.called) = 0 /\ Len(Rest(q)) = 0
  <2>1. ToSet(<<>>) = {} /\ IsInjective(<<>>) /\ <<>> \in Seq(Models) /\ Len(<<>>) = 0
    BY DEF ToSet, IsInjective
  <2> QED  BY <1>3, <1>4, <2>1, FS_EmptySet DEF Apart, Rest
<1>7. LadderTurn(q) /\ ChainTurn(q)
  <2>1. MaxRetries \in Nat /\ MaxEscalations \in Nat
    BY DispatchAssumption
  <2> QED  BY <1>3, <1>4, <1>6, <2>1 DEF LadderTurn, ChainTurn, InFlight
<1>8. Turn(q)
  BY <1>3, <1>4, <1>6, <1>7 DEF Turn, InFlight
<1>9. q.reserved <= req[r].reserved
  BY <1>4
<1> QED  BY <1>5, <1>8, <1>9, ReservesNoMore

(* Neither does one whose routing raises.                                  *)
LEMMA RouteRaisesTurn ==
    ASSUME ExitInv, LimitInv, NEW r \in Requests, NEW options \in Options, RouteRaises(r, options)
    PROVE  LimitInv'
<1>1. Whole(req[r]) /\ Turn(req[r]) /\ req[r].phase = "idle" /\ req[r] = NewRequest
  BY InTurn DEF RouteRaises, Turn
<1>2. PICK q : q = [req[r] EXCEPT !.phase = "misrouted", !.options = options]
  OBVIOUS
<1>3. q.phase = "misrouted" /\ q.options = options
  BY <1>1, <1>2 DEF Whole, Fields, NewRequest
<1>4. /\ q.called = <<>> /\ q.attempts = 0 /\ q.reserved = 0 /\ q.due = 0 /\ q.queue = <<>>
      /\ q.seen = {} /\ req[r].reserved = 0
  BY <1>1, <1>2 DEF NewRequest
<1>5. Become(r, q) /\ UNCHANGED spent
  BY <1>2 DEF RouteRaises, ledgers
<1>6. Apart(q.called, Rest(q), q.seen) /\ Len(q.called) = 0 /\ Len(Rest(q)) = 0
  <2>1. ToSet(<<>>) = {} /\ IsInjective(<<>>) /\ <<>> \in Seq(Models) /\ Len(<<>>) = 0
    BY DEF ToSet, IsInjective
  <2> QED  BY <1>3, <1>4, <2>1, FS_EmptySet DEF Apart, Rest
<1>7. LadderTurn(q) /\ ChainTurn(q)
  <2>1. MaxRetries \in Nat /\ MaxEscalations \in Nat
    BY DispatchAssumption
  <2> QED  BY <1>3, <1>4, <1>6, <2>1 DEF LadderTurn, ChainTurn, InFlight
<1>8. Turn(q)
  BY <1>3, <1>4, <1>6, <1>7 DEF Turn, InFlight
<1>9. q.reserved <= req[r].reserved
  BY <1>4
<1> QED  BY <1>5, <1>8, <1>9, ReservesNoMore

-----------------------------------------------------------------------------
(* Nothing is called or reserved at first.                                 *)
LEMMA InitLimits == Init => LimitInv
<1> SUFFICES ASSUME Init PROVE LimitInv
  OBVIOUS
<1>1. PICK q : q = NewRequest
  OBVIOUS
<1>2. /\ q.phase = "idle" /\ q.called = <<>> /\ q.attempts = 0 /\ q.reserved = 0 /\ q.due = 0
      /\ q.queue = <<>> /\ q.seen = {} /\ ~q.options.cascade
  BY <1>1 DEF NewRequest
<1>3. Apart(q.called, Rest(q), q.seen) /\ Len(q.called) = 0
  <2>1. ToSet(<<>>) = {} /\ IsInjective(<<>>) /\ <<>> \in Seq(Models) /\ Len(<<>>) = 0
    BY DEF ToSet, IsInjective
  <2> QED  BY <1>2, <2>1, FS_EmptySet DEF Apart, Rest
<1>4. ChainTurn(q)
  <2>1. MaxRetries \in Nat
    BY DispatchAssumption
  <2> QED  BY <1>2, <1>3, <2>1 DEF ChainTurn, InFlight
<1>5. Turn(q)
  BY <1>1, <1>2, <1>3, <1>4 DEF Turn, InFlight
<1>6. \A r \in Requests : Turn(req[r]) /\ req[r].reserved = 0
  BY <1>1, <1>2, <1>5 DEF Init
<1>7. WithinPlan
  <2>1. PICK v : v = [r \in Requests |-> req[r].reserved]
    OBVIOUS
  <2>2. Reserved = SumOver(v, Requests)
    BY <2>1, ReservesSum DEF Reserved
  <2>3. \A r \in Requests : v[r] = 0
    BY <1>6, <2>1
  <2>4. SumOver(v, Requests) = 0
    BY <2>3, DispatchAssumption, SumOfZeros
  <2> QED  BY <2>2, <2>4, DispatchAssumption DEF WithinPlan, Init
<1> QED  BY <1>6, <1>7 DEF LimitInv

(* Every step is one of those above.                                       *)
LEMMA StepLimits ==
    ASSUME ExitInv, LimitInv, [Next]_vars
    PROVE  LimitInv'
<1>1. CASE UNCHANGED vars
  <2>1. PICK v, w : v = [s \in Requests |-> req[s].reserved] /\ w = [s \in Requests |-> req'[s].reserved]
    OBVIOUS
  <2>2. req' = req /\ spent' = spent
    BY <1>1 DEF vars, ledgers
  <2>3. Reserved' = Reserved
    BY <2>2 DEF Reserved, MapThenSumSet, MapThenFoldSet
  <2> QED  BY <2>2, <2>3 DEF LimitInv, WithinPlan
<1>2. CASE Next
  <2> PICK r \in Requests : \/ \E options \in Options : Admit(r, options)
                            \/ Choose(r)
                            \/ Returns(r)
                            \/ VerifierRaises(r)
    BY <1>2 DEF Next
  <2>1. CASE \E options \in Options : Admit(r, options)
    BY <2>1, RouteTurn, RefuseTurn, RouteRaisesTurn DEF Admit
  <2>2. CASE Choose(r)
    BY <2>2, GiveUpTurn, SkipTurn, CallTurn, StartCascadeTurn DEF Choose
  <2>3. CASE Returns(r)
    BY <2>3, SucceedTurn, FailTurn, RaisedTurn, TierAnswersTurn, TierFailsTurn DEF Returns
  <2>4. CASE VerifierRaises(r)
    BY <2>4, RaisedTurn
  <2> QED  BY <2>1, <2>2, <2>3, <2>4
<1> QED  BY <1>1, <1>2

(* The invariant of both arguments.                                        *)
LEMMA LimitsHold == Spec => [](ExitInv /\ LimitInv)
<1>1. Init => ExitInv /\ LimitInv
  BY InitWhole, InitLimits
<1>2. ExitInv /\ LimitInv /\ [Next]_vars => ExitInv' /\ LimitInv'
  BY StepWhole, StepLimits
<1> QED  BY <1>1, <1>2, PTL DEF Spec

(* What a request may still be charged, as PlanLimitKept counts it.        *)
MayPay(q) == IF q.options.cascade THEN StillToPay(q) ELSE q.reserved

(* That is a sum over the requests, too.                                   *)
LEMMA MayPaySums ==
    ASSUME NEW v, v = [r \in Requests |-> MayPay(req[r])]
    PROVE  MapThenSumSet(LAMBDA r : IF InCascade(r) THEN StillToPay(req[r]) ELSE req[r].reserved,
                         Requests) = SumOver(v, Requests)
BY DEF SumOver, MapThenSumSet, MapThenFoldSet, InCascade, MayPay

(* Where no call costs more than its estimate, concurrent requests never   *)
(* spend more than the user's plan allows, whatever their decisions,       *)
(* failures, fallbacks and cascades (check and reserve are one step in     *)
(* reserve_spend()).                                                       *)
THEOREM PlanIsKept == Spec => []PlanLimitKept
<1>1. ASSUME ExitInv, LimitInv PROVE PlanLimitKept
  <2>1. PICK v, w : v = [r \in Requests |-> MayPay(req[r])] /\ w = [r \in Requests |-> req[r].reserved]
    OBVIOUS
  <2>2. \A r \in Requests : MayPay(req[r]) \in Nat /\ MayPay(req[r]) <= req[r].reserved
    <3> SUFFICES ASSUME NEW r \in Requests
                 PROVE  MayPay(req[r]) \in Nat /\ MayPay(req[r]) <= req[r].reserved
      OBVIOUS
    <3>1. Turn(req[r]) /\ req[r].reserved \in Nat /\ req[r].due \in Nat
      BY <1>1, InTurn
    <3>2. CASE req[r].options.cascade /\ req[r].phase = "calling"
      <4>1. req[r].queue \in Seq(Models) /\ req[r].due + TotalCost(req[r].queue) <= req[r].reserved
        BY <3>1, <3>2 DEF Turn, LadderTurn, InFlight
      <4>2. TotalCost(req[r].queue) \in Nat
        BY <4>1, CostOfTiers
      <4> QED  BY <3>1, <3>2, <4>1, <4>2 DEF MayPay, StillToPay
    <3>3. CASE ~(req[r].options.cascade /\ req[r].phase = "calling")
      BY <3>1, <3>3 DEF MayPay, StillToPay
    <3> QED  BY <3>2, <3>3
  <2>3. \A r \in Requests : v[r] \in Int /\ w[r] \in Int /\ v[r] <= w[r]
    BY <1>1, <2>1, <2>2, InTurn
  <2>4. IsFiniteSet(Requests) /\ PlanLimit \in Nat
    BY DispatchAssumption
  <2>5. SumOver(v, Requests) <= SumOver(w, Requests)
    BY <2>3, <2>4, SumMonotonic
  <2>6. SumOver(v, Requests) \in Int /\ SumOver(w, Requests) \in Int
    BY <2>3, <2>4, SumInt
  <2>7. Reserved = SumOver(w, Requests)
    BY <2>1, ReservesSum DEF Reserved
  <2>8. spent \in Nat /\ spent + Reserved <= PlanLimit
    BY <1>1 DEF LimitInv, WithinPlan
  <2>9. spent + SumOver(v, Requests) <= PlanLimit
    BY <2>4, <2>5, <2>6, <2>7, <2>8
  <2> QED  BY <2>1, <2>9, MayPaySums DEF PlanLimitKept
<1> QED  BY <1>1, LimitsHold, PTL

(* No request calls a model twice, whatever its chains repeat, and none    *)
(* makes more calls than its retries, or its escalations, allow.           *)
THEOREM TriesAreBounded == Spec => []TriesBounded
<1>1. ASSUME ExitInv, LimitInv PROVE TriesBounded
  <2> SUFFICES ASSUME NEW r \in Requests
               PROVE  /\ IsInjective(req[r].called)
                      /\ Len(req[r].called) <= 1 + (IF InCascade(r) THEN MaxEscalations ELSE MaxRetries)
    BY DEF TriesBounded
  <2>1. Turn(req[r])
    BY <1>1, InTurn
  <2>2. IsInjective(req[r].called) /\ Len(req[r].called) \in Nat /\ Len(Rest(req[r])) \in Nat
    BY <2>1 DEF Turn, Apart
  <2>3. CASE InCascade(r)
    <3>1. Len(req[r].called) + Len(Rest(req[r])) <= 1 + MaxEscalations /\ MaxEscalations \in Nat
      BY <2>1, <2>3, DispatchAssumption DEF Turn, LadderTurn, InCascade
    <3>2. PICK a, b : a = Len(req[r].called) /\ b = Len(Rest(req[r]))
      OBVIOUS
    <3>3. a \in Nat /\ b \in Nat /\ a + b <= 1 + MaxEscalations /\ MaxEscalations \in Nat
      BY <2>2, <3>1, <3>2
    <3>4. a <= 1 + MaxEscalations
      BY <3>3
    <3> QED  BY <2>2, <2>3, <3>2, <3>4
  <2>4. CASE ~InCascade(r)
    BY <2>1, <2>2, <2>4 DEF Turn, ChainTurn, InCascade
  <2> QED  BY <2>2, <2>3, <2>4
<1> QED  BY <1>1, LimitsHold, PTL

(* A request that gives up on provider errors has used up its retries, or  *)
(* had its turn with every model of its decision's generic chain.          *)
THEOREM FailsOnlyExhausted == Spec => []FailedMeansExhausted
<1>1. ASSUME ExitInv, LimitInv PROVE FailedMeansExhausted
  BY <1>1, InTurn DEF FailedMeansExhausted, Turn, ChainTurn, InCascade
<1> QED  BY <1>1, LimitsHold, PTL

-----------------------------------------------------------------------------
(* What the breaker hears.                                                 *)
(* The reports are those of the calls, in their order and as they ended.   *)
Matched(called, outcomes, reports) ==
    /\ called \in Seq(Models) /\ outcomes \in Seq(Results) /\ reports \in Seq([model : Models, result : Results])
    /\ Len(reports) = Len(outcomes) /\ Len(reports) <= Len(called)
    /\ \A i \in 1..Len(reports) : reports[i] = [model |-> called[i], result |-> outcomes[i]]

(* The last call is of the model whose turn it is, and only that one, or   *)
(* the one that was aborted, is not reported.                              *)
Silent(q) == IF q.phase = "calling" \/ q.aborted THEN 1 ELSE 0
Heard(q) ==
    /\ Matched(q.called, q.outcomes, q.reports)
    /\ Len(q.called) = Len(q.reports) + Silent(q)
    /\ q.phase = "calling" => q.called[Len(q.called)] = Head(q.queue)
    /\ q.aborted \in BOOLEAN /\ (q.aborted => q.phase = "raised")
    /\ q.phase = "answered" \/ q.got => "success" \in ToSet(q.outcomes)

HeardInv == \A r \in Requests : Heard(req[r])

(* A list and one more.                                                    *)
LEMMA Appended ==
    ASSUME NEW S, NEW s \in Seq(S), NEW x \in S
    PROVE  /\ Append(s, x) \in Seq(S) /\ Len(Append(s, x)) = Len(s) + 1
           /\ Append(s, x)[Len(s) + 1] = x /\ \A i \in 1..Len(s) : Append(s, x)[i] = s[i]
  OBVIOUS

(* What is to be reported of the call made last.                           *)
LastReport(called, result) == [model |-> called[Len(called)], result |-> result]

(* The call that ended is reported.                                        *)
LEMMA MatchedMore ==
    ASSUME NEW called, NEW outcomes, NEW reports, Matched(called, outcomes, reports),
           Len(called) = Len(reports) + 1, NEW result \in Results,
           NEW report, report = LastReport(called, result)
    PROVE  /\ Matched(called, Append(outcomes, result), Append(reports, report))
           /\ Len(called) = Len(Append(reports, report))
           /\ ToSet(Append(outcomes, result)) = ToSet(outcomes) \cup {result}
<1>1. PICK n \in Nat : n = Len(reports) /\ n = Len(outcomes) /\ n + 1 = Len(called)
  BY DEF Matched
<1>2. report \in [model : Models, result : Results]
  BY <1>1 DEF Matched, LastReport
<1>3. PICK o, p : o = Append(outcomes, result) /\ p = Append(reports, report)
  OBVIOUS
<1>4. /\ o \in Seq(Results) /\ Len(o) = n + 1 /\ o[n + 1] = result
      /\ \A i \in 1..n : o[i] = outcomes[i]
      /\ ToSet(o) = ToSet(outcomes) \cup {result}
  <2>1. outcomes \in Seq(Results)
    BY DEF Matched
  <2> QED  BY <1>1, <1>3, <2>1, AppendList
<1>5. /\ p \in Seq([model : Models, result : Results]) /\ Len(p) = n + 1 /\ p[n + 1] = report
      /\ \A i \in 1..n : p[i] = reports[i]
  <2>1. PICK Told : Told = [model : Models, result : Results]
    OBVIOUS
  <2>2. reports \in Seq(Told) /\ report \in Told
    BY <1>2, <2>1 DEF Matched
  <2>3. /\ p \in Seq(Told) /\ Len(p) = Len(reports) + 1 /\ p[Len(reports) + 1] = report
        /\ \A i \in 1..Len(reports) : p[i] = reports[i]
    BY <1>3, <2>2, Appended, Zenon
  <2> QED  BY <1>1, <2>1, <2>3, Zenon
<1>6. \A i \in 1..n + 1 : p[i] = [model |-> called[i], result |-> o[i]]
  <2> SUFFICES ASSUME NEW i \in 1..n + 1 PROVE p[i] = [model |-> called[i], result |-> o[i]]
    OBVIOUS
  <2>1. CASE i \in 1..n
    BY <1>1, <1>4, <1>5, <2>1 DEF Matched
  <2>2. CASE i = n + 1
    BY <1>1, <1>4, <1>5, <2>2 DEF LastReport
  <2> QED  BY <1>1, <2>1, <2>2
<1> QED  BY <1>1, <1>3, <1>4, <1>5, <1>6 DEF Matched

(* The next call is under way.                                             *)
LEMMA MatchedCall ==
    ASSUME NEW called, NEW outcomes, NEW reports, Matched(called, outcomes, reports),
           NEW model \in Models
    PROVE  /\ Matched(Append(called, model), outcomes, reports)
           /\ Len(Append(called, model)) = Len(called) + 1
           /\ Append(called, model)[Len(called) + 1] = model
<1>1. called \in Seq(Models) /\ Len(reports) \in Nat /\ Len(reports) <= Len(called)
  BY DEF Matched
<1>2. PICK c : c = Append(called, model)
  OBVIOUS
<1>3. /\ c \in Seq(Models) /\ Len(c) = Len(called) + 1 /\ c[Len(called) + 1] = model
      /\ \A i \in 1..Len(called) : c[i] = called[i]
  BY <1>1, <1>2
<1>4. \A i \in 1..Len(reports) : c[i] = called[i]
  BY <1>1, <1>3
<1> QED  BY <1>1, <1>2, <1>3, <1>4 DEF Matched

(* One request's record changes.                                           *)
LEMMA HeardBecomes ==
    ASSUME ExitInv, HeardInv, NEW r \in Requests, NEW q, Become(r, q), Heard(q)
    PROVE  HeardInv'
  BY OneBecomes DEF HeardInv

(* How many calls are not reported.                                        *)
LEMMA SilentIs ==
    ASSUME NEW q
    PROVE  /\ q.phase = "calling" => Silent(q) = 1
           /\ q.phase # "calling" /\ ~q.aborted => Silent(q) = 0
           /\ q.aborted => Silent(q) = 1
  BY Zenon DEF Silent

(* A step that neither makes a call nor ends one.                          *)
LEMMA HeardQuiet ==
    ASSUME NEW was, Heard(was), NEW q, was.phase # "calling", ~was.aborted,
           q.phase \notin {"calling", "answered"}, q.aborted = was.aborted, q.got = was.got,
           q.called = was.called, q.outcomes = was.outcomes, q.reports = was.reports
    PROVE  Heard(q)
<1>1. q.phase # "calling" /\ q.phase # "answered" /\ ~q.aborted
  OBVIOUS
<1>2. Silent(q) = Silent(was)
  BY <1>1, SilentIs, Zenon
<1> QED  BY <1>1, <1>2, Zenon DEF Heard

(* A step that calls the model whose turn it is.                           *)
LEMMA HeardCalls ==
    ASSUME NEW was, Heard(was), NEW q, was.phase # "calling", ~was.aborted,
           NEW model \in Models, q.phase = "calling", Head(q.queue) = model,
           q.called = Append(was.called, model),
           q.aborted = was.aborted, q.got = was.got,
           q.outcomes = was.outcomes, q.reports = was.reports
    PROVE  Heard(q)
<1>1. /\ Matched(was.called, was.outcomes, was.reports) /\ was.aborted \in BOOLEAN
      /\ Len(was.called) = Len(was.reports) + Silent(was)
      /\ was.got => "success" \in ToSet(was.outcomes)
  BY Zenon DEF Heard
<1>2. Silent(was) = 0 /\ Silent(q) = 1
  BY SilentIs, Zenon
<1>3. Len(was.reports) \in Nat /\ Len(was.called) = Len(was.reports)
  BY <1>1, <1>2 DEF Matched
<1>4. /\ Matched(q.called, q.outcomes, q.reports) /\ Len(q.called) = Len(was.called) + 1
      /\ q.called[Len(was.called) + 1] = model
  BY <1>1, MatchedCall, Zenon
<1>5. Len(q.called) = Len(q.reports) + Silent(q)
  BY <1>2, <1>3, <1>4
<1>6. q.called[Len(q.called)] = Head(q.queue)
  BY <1>4
<1>7. q.phase # "answered" /\ ~q.aborted /\ q.aborted \in BOOLEAN
  BY <1>1
<1> QED  BY <1>1, <1>4, <1>5, <1>6, <1>7, Zenon DEF Heard

(* What a request records of the call that ended with result.              *)
Notes(q, was, result) ==
    /\ q.outcomes = Append(was.outcomes, result)
    /\ q.reports = Append(was.reports, Report(was, result))
    /\ q.aborted = was.aborted
    /\ q.got => was.got \/ result = "success"

(* A step that ends the call, and calls no other.                          *)
LEMMA HeardEnds ==
    ASSUME NEW was, Heard(was), was.phase = "calling", NEW q, NEW result \in Results,
           Notes(q, was, result), q.called = was.called, q.phase # "calling",
           q.phase = "answered" => was.got \/ result = "success"
    PROVE  Heard(q)
<1>1. /\ Matched(was.called, was.outcomes, was.reports) /\ was.aborted \in BOOLEAN
      /\ Len(was.called) = Len(was.reports) + Silent(was)
      /\ was.called[Len(was.called)] = Head(was.queue) /\ (was.aborted => was.phase = "raised")
      /\ was.got => "success" \in ToSet(was.outcomes)
  BY Zenon DEF Heard
<1>2. Silent(was) = 1 /\ ~was.aborted
  BY <1>1, SilentIs, Zenon
<1>3. PICK report : report = Report(was, result)
  OBVIOUS
<1>4. report = LastReport(was.called, result)
  BY <1>1, <1>3 DEF Report, LastReport
<1>5. /\ Matched(was.called, Append(was.outcomes, result), Append(was.reports, report))
      /\ Len(was.called) = Len(Append(was.reports, report))
      /\ ToSet(Append(was.outcomes, result)) = ToSet(was.outcomes) \cup {result}
  <2>1. PICK called, outcomes, reports :
          called = was.called /\ outcomes = was.outcomes /\ reports = was.reports
    OBVIOUS
  <2>2. /\ Matched(called, outcomes, reports) /\ Len(called) = Len(reports) + 1
        /\ report = LastReport(called, result)
    BY <1>1, <1>2, <1>4, <2>1
  <2>3. /\ Matched(called, Append(outcomes, result), Append(reports, report))
        /\ Len(called) = Len(Append(reports, report))
        /\ ToSet(Append(outcomes, result)) = ToSet(outcomes) \cup {result}
    BY <2>2, MatchedMore
  <2> QED  BY <2>1, <2>3
<1>6. /\ q.outcomes = Append(was.outcomes, result) /\ q.reports = Append(was.reports, report)
      /\ q.aborted = was.aborted /\ (q.got => was.got \/ result = "success")
  BY <1>3, Zenon DEF Notes
<1>7. /\ Matched(q.called, q.outcomes, q.reports) /\ Len(q.called) = Len(q.reports)
      /\ ToSet(q.outcomes) = ToSet(was.outcomes) \cup {result}
  BY <1>5, <1>6
<1>8. Len(q.reports) \in Nat
  BY <1>7 DEF Matched
<1>9. Silent(q) = 0
  BY <1>2, <1>6, SilentIs, Zenon
<1>10. Len(q.called) = Len(q.reports) + Silent(q)
  BY <1>7, <1>8, <1>9
<1>11. q.phase = "answered" \/ q.got => "success" \in ToSet(q.outcomes)
  BY <1>1, <1>6, <1>7
<1> QED  BY <1>1, <1>2, <1>6, <1>7, <1>10, <1>11, Zenon DEF Heard

(* A step that ends the call and calls the next model of the ladder.       *)
LEMMA HeardClimbs ==
    ASSUME NEW was, Heard(was), was.phase = "calling", NEW q, NEW result \in Results,
           Notes(q, was, result), NEW model \in Models, q.called = Append(was.called, model),
           q.phase = "calling", Head(q.queue) = model
    PROVE  Heard(q)
<1>1. PICK n : n = [phase |-> "choosing", queue |-> <<>>, called |-> was.called, got |-> q.got,
                    outcomes |-> q.outcomes, reports |-> q.reports, aborted |-> q.aborted]
  OBVIOUS
<1>2. Heard(n)
  <2>1. Notes(n, was, result)
    BY <1>1 DEF Notes
  <2> QED  BY <1>1, <2>1, HeardEnds
<1>3. ~n.aborted
  BY <1>1, <1>2 DEF Heard
<1> QED  BY <1>1, <1>2, <1>3, HeardCalls

(* A list that is neither empty nor its head alone.                        *)
LEMMA SecondOf ==
    ASSUME NEW S, NEW s \in Seq(S), s # <<>>, Len(s) # 1
    PROVE  /\ Len(s) \in Nat /\ Len(s) >= 2 /\ s[2] \in S
           /\ Tail(s) # <<>> /\ Head(Tail(s)) = s[2]
<1>1. Len(s) \in Nat /\ Len(s) >= 1 /\ Len(Tail(s)) = Len(s) - 1
  BY TailList
<1>2. Len(s) >= 2 /\ s[2] \in S
  BY <1>1
<1>3. Tail(s) \in Seq(S) /\ Head(Tail(s)) = s[2]
  BY <1>1, <1>2
<1>4. Tail(s) # <<>>
  BY <1>1, <1>2, <1>3
<1> QED  BY <1>1, <1>2, <1>3, <1>4

(* What is known of a request and of its turn.                             *)
LEMMA InHearing ==
    ASSUME ExitInv, LimitInv, HeardInv, NEW r \in Requests
    PROVE  /\ Whole(req[r]) /\ Turn(req[r]) /\ Heard(req[r])
           /\ req[r].phase # "raised" => ~req[r].aborted
           /\ req[r].phase = "calling" => /\ req[r].queue \in Seq(Models) /\ req[r].queue # <<>>
                                          /\ Head(req[r].queue) \in Models
<1>1. Whole(req[r]) /\ Turn(req[r]) /\ Heard(req[r])
  BY InTurn DEF HeardInv
<1>2. ASSUME req[r].phase = "calling"
      PROVE  /\ req[r].queue \in Seq(Models) /\ req[r].queue # <<>>
             /\ Head(req[r].queue) \in Models
  BY <1>1, <1>2 DEF Turn, InFlight
<1> QED  BY <1>1, <1>2 DEF Heard

(* Admission, refusal and a routing that raises call nobody.               *)
LEMMA AdmitHeard ==
    ASSUME ExitInv, LimitInv, HeardInv, NEW r \in Requests, NEW options, Admit(r, options)
    PROVE  HeardInv'
<1>1. PICK phase, decision, queue, seen, q :
        /\ Become(r, q) /\ phase \notin {"calling", "answered"} /\ req[r].phase = "idle"
        /\ \/ q = [req[r] EXCEPT !.phase = phase, !.options = options]
           \/ q = [req[r] EXCEPT !.phase = phase, !.options = options, !.decision = decision,
                                 !.queue = queue, !.seen = seen]
  <2>1. CASE Refuse(r, options)
    <3>1. PICK next : next = [req[r] EXCEPT !.phase = "refused", !.options = options]
      OBVIOUS
    <3>2. Become(r, next) /\ req[r].phase = "idle" /\ "refused" \notin {"calling", "answered"}
      BY <2>1, <3>1 DEF Refuse
    <3> QED  BY <3>1, <3>2, Zenon
  <2>2. CASE RouteRaises(r, options)
    <3>1. PICK next : next = [req[r] EXCEPT !.phase = "misrouted", !.options = options]
      OBVIOUS
    <3>2. Become(r, next) /\ req[r].phase = "idle" /\ "misrouted" \notin {"calling", "answered"}
      BY <2>2, <3>1 DEF RouteRaises
    <3> QED  BY <3>1, <3>2, Zenon
  <2>3. CASE \E decision \in Decisions : Route(r, options, decision)
    <3>1. PICK decision \in Decisions : Route(r, options, decision)
      BY <2>3
    <3>2. PICK queue : queue = IF decision.chosen = NoModel THEN <<>>
                               ELSE IF options.cascade THEN Ladder(decision) ELSE <<decision.chosen>>
      OBVIOUS
    <3>3. PICK seen, next :
            /\ seen = ToSet(queue)
            /\ next = [req[r] EXCEPT !.phase = "choosing", !.options = options,
                                     !.decision = decision, !.queue = queue, !.seen = seen]
      OBVIOUS
    <3>4. Become(r, next) /\ req[r].phase = "idle" /\ "choosing" \notin {"calling", "answered"}
      BY <3>1, <3>2, <3>3 DEF Route, Routed
    <3> QED  BY <3>3, <3>4, Zenon
  <2> QED  BY <2>1, <2>2, <2>3 DEF Admit
<1>2. /\ q.phase = phase /\ q.aborted = req[r].aborted /\ q.got = req[r].got
      /\ q.called = req[r].called /\ q.outcomes = req[r].outcomes /\ q.reports = req[r].reports
  BY <1>1, InHearing DEF Whole, Fields, NewRequest
<1>3. Heard(q)
  BY <1>1, <1>2, InHearing, HeardQuiet
<1> QED  BY <1>1, <1>3, HeardBecomes

(* Giving up and passing a model over call nobody either.                  *)
LEMMA PassHeard ==
    ASSUME ExitInv, LimitInv, HeardInv, NEW r \in Requests, GiveUp(r) \/ NoLadder(r) \/ Skip(r)
    PROVE  HeardInv'
<1>1. PICK error, attempts, queue, q :
        /\ Become(r, q) /\ req[r].phase = "choosing"
        /\ \/ q = [[req[r] EXCEPT !.phase = "failed"] EXCEPT !.queue = queue]
           \/ q = [req[r] EXCEPT !.error = error, !.queue = queue, !.attempts = attempts]
  <2>1. CASE GiveUp(r) \/ NoLadder(r)
    <3>1. PICK queue : queue = <<>>
      OBVIOUS
    <3>2. /\ Become(r, [[req[r] EXCEPT !.phase = "failed"] EXCEPT !.queue = queue])
          /\ req[r].phase = "choosing"
      BY <2>1, <3>1 DEF GiveUp, NoLadder, Raise
    <3> QED  BY <3>2
  <2>2. CASE Skip(r)
    <3>1. PICK fits : fits = Fits(Cost[Head(req[r].queue)])
      OBVIOUS
    <3>2. PICK error : error = IF fits THEN "daily_cap_exceeded" ELSE "budget_exceeded"
      OBVIOUS
    <3>3. /\ Become(r, [req[r] EXCEPT !.error = error, !.queue = Tail(@), !.attempts = @ + 1])
          /\ req[r].phase = "choosing"
      BY <2>2, <3>1, <3>2, Zenon DEF Skip
    <3> QED  BY <3>3
  <2> QED  BY <2>1, <2>2
<1>2. /\ q.phase \in {"choosing", "failed"} /\ q.aborted = req[r].aborted /\ q.got = req[r].got
      /\ q.called = req[r].called /\ q.outcomes = req[r].outcomes /\ q.reports = req[r].reports
  BY <1>1, InHearing DEF Whole, Fields, NewRequest
<1>3. Heard(q)
  BY <1>1, <1>2, InHearing, HeardQuiet
<1> QED  BY <1>1, <1>3, HeardBecomes

(* A model is called, on its chain or as the first of a ladder.            *)
LEMMA CallHeard ==
    ASSUME ExitInv, LimitInv, HeardInv, NEW r \in Requests, Call(r) \/ StartCascade(r)
    PROVE  HeardInv'
<1>1. PICK model : model = Head(req[r].queue)
  OBVIOUS
<1>2. PICK reserved, called, q :
        /\ Become(r, q) /\ req[r].phase = "choosing" /\ req[r].queue # <<>>
        /\ q = [req[r] EXCEPT !.phase = "calling", !.reserved = reserved, !.called = called]
        /\ called = Append(req[r].called, model)
  <2>1. CASE Call(r)
    <3>1. /\ Become(r, [req[r] EXCEPT !.phase = "calling", !.reserved = Cost[model],
                                      !.called = Append(@, model)])
          /\ req[r].phase = "choosing" /\ req[r].queue # <<>>
      BY <1>1, <2>1, Zenon DEF Call, Exhausted
    <3> QED  BY <3>1
  <2>2. CASE StartCascade(r)
    <3>1. PICK reserved : reserved = TotalCost(req[r].queue)
      OBVIOUS
    <3>2. /\ Become(r, [req[r] EXCEPT !.phase = "calling", !.reserved = reserved,
                                      !.called = <<model>>])
          /\ req[r].phase = "choosing" /\ req[r].queue # <<>> /\ req[r].options.cascade
      BY <1>1, <2>2, <3>1, Zenon DEF StartCascade, InCascade
    <3>3. req[r].called = <<>>
      BY <3>2, InHearing DEF Turn, LadderTurn
    <3>4. <<model>> = Append(req[r].called, model)
      BY <3>3
    <3> QED  BY <3>2, <3>4
  <2> QED  BY <2>1, <2>2
<1>3. /\ q.phase = "calling" /\ q.queue = req[r].queue /\ q.called = called
      /\ q.aborted = req[r].aborted /\ q.got = req[r].got
      /\ q.outcomes = req[r].outcomes /\ q.reports = req[r].reports
  BY <1>2, InHearing DEF Whole, Fields, NewRequest
<1>4. model \in Models
  BY <1>1, <1>2, InHearing DEF Turn, InFlight
<1>5. Heard(q)
  BY <1>1, <1>2, <1>3, <1>4, InHearing, HeardCalls
<1> QED  BY <1>2, <1>5, HeardBecomes

(* A call that is aborted is not reported.                                 *)
LEMMA AbortHeard ==
    ASSUME ExitInv, LimitInv, HeardInv, NEW r \in Requests, Abort(r)
    PROVE  HeardInv'
<1>1. PICK queue, q : /\ q = [[req[r] EXCEPT !.phase = "raised", !.reserved = 0, !.aborted = TRUE]
                                  EXCEPT !.queue = queue]
                      /\ Become(r, q) /\ req[r].phase = "calling"
  BY DEF Abort, Raise, Calling
<1>2. /\ q.phase = "raised" /\ q.aborted = TRUE /\ q.got = req[r].got
      /\ q.called = req[r].called /\ q.outcomes = req[r].outcomes /\ q.reports = req[r].reports
  BY <1>1, InHearing DEF Whole, Fields, NewRequest
<1>3. Silent(req[r]) = 1 /\ Silent(q) = 1
  BY <1>1, <1>2, SilentIs, Zenon
<1>4. Heard(req[r])
  BY InHearing
<1>5. q.phase # "calling" /\ q.phase # "answered" /\ q.aborted \in BOOLEAN
  BY <1>2
<1>6. Heard(q)
  BY <1>2, <1>3, <1>4, <1>5, Zenon DEF Heard
<1> QED  BY <1>1, <1>6, HeardBecomes

(* A request n that has noted the end of its call ends, or tries again.    *)
LEMMA NotedHeard ==
    ASSUME ExitInv, LimitInv, HeardInv, NEW r \in Requests, req[r].phase = "calling",
           NEW n, Whole(n), NEW result \in Results, Notes(n, req[r], result),
           n.called = req[r].called,
           \/ Raise(r, n) /\ n.phase \notin {"calling", "answered"}
           \/ (\E amount : Settle(r, n, amount)) /\ (req[r].got \/ result = "success")
           \/ Become(r, n) /\ n.phase = "choosing"
    PROVE  HeardInv'
<1>1. PICK queue, reserved, q :
        /\ Become(r, q)
        /\ \/ q = [n EXCEPT !.queue = queue] /\ n.phase \notin {"calling", "answered"}
           \/ /\ q = [n EXCEPT !.phase = "answered", !.queue = queue, !.reserved = reserved]
              /\ req[r].got \/ result = "success"
           \/ q = n /\ n.phase = "choosing"
  BY DEF Raise, Settle
<1>2. /\ q.phase # "calling" /\ q.called = n.called /\ q.outcomes = n.outcomes
      /\ q.reports = n.reports /\ q.aborted = n.aborted /\ q.got = n.got
      /\ q.phase = "answered" => req[r].got \/ result = "success"
  BY <1>1 DEF Whole, Fields, NewRequest
<1>3. Notes(q, req[r], result)
  BY <1>2 DEF Notes
<1>4. Heard(req[r]) /\ n.called = req[r].called
  BY InHearing
<1>5. q.called = req[r].called
  BY <1>2, <1>4
<1>6. Heard(q)
  BY <1>2, <1>3, <1>4, <1>5, HeardEnds, Zenon
<1> QED  BY <1>1, <1>6, HeardBecomes

(* A call outside a cascade that answered, failed or found its key         *)
(* rejected is reported as such, and so is the last of a cascade whose     *)
(* verifier raised.                                                        *)
LEMMA ReturnHeard ==
    ASSUME ExitInv, LimitInv, HeardInv, NEW r \in Requests,
           \/ \E paid : Succeed(r, paid)
           \/ \E error : Fail(r, error)
           \/ RejectKey(r)
           \/ VerifierRaises(r)
    PROVE  HeardInv'
<1>0. Whole(req[r])
  BY InHearing
<1>1. PICK up, down : up = Report(req[r], "success") /\ down = Report(req[r], "failure")
  OBVIOUS
<1>2. CASE \E paid : Succeed(r, paid)
  <2> PICK paid : Succeed(r, paid)
    BY <1>2
  <2> DEFINE n == [req[r] EXCEPT !.outcomes = Append(@, "success"), !.reports = Append(@, up)]
  <2>1. req[r].phase = "calling" /\ Settle(r, n, paid)
    BY <1>1 DEF Succeed, Calling
  <2>2. Whole(n) /\ Notes(n, req[r], "success") /\ n.called = req[r].called
    BY <1>0, <1>1 DEF Whole, Fields, NewRequest, Notes
  <2> HIDE DEF n
  <2> QED  BY <2>1, <2>2, NotedHeard DEF Results
<1>3. CASE \E error : Fail(r, error)
  <2> PICK error : Fail(r, error)
    BY <1>3
  <2> PICK more : more = More(req[r], error)
    OBVIOUS
  <2> DEFINE n == [req[r] EXCEPT !.phase = "choosing", !.reserved = 0, !.error = error,
                                 !.queue = Tail(@) \o more, !.seen = @ \cup ToSet(more),
                                 !.attempts = @ + 1, !.outcomes = Append(@, "failure"),
                                 !.reports = Append(@, down)]
  <2>1. req[r].phase = "calling" /\ Become(r, n)
    BY <1>1, Zenon DEF Fail, Calling
  <2>2. /\ Whole(n) /\ Notes(n, req[r], "failure") /\ n.called = req[r].called
        /\ n.phase = "choosing"
    BY <1>0, <1>1 DEF Whole, Fields, NewRequest, Notes
  <2> HIDE DEF n
  <2> QED  BY <2>1, <2>2, NotedHeard DEF Results
<1>4. CASE RejectKey(r)
  <2> DEFINE n == [req[r] EXCEPT !.phase = "raised", !.reserved = 0,
                                 !.outcomes = Append(@, "failure"), !.reports = Append(@, down)]
  <2>1. req[r].phase = "calling" /\ Raise(r, n)
    BY <1>1, <1>4 DEF RejectKey, Calling
  <2>2. /\ Whole(n) /\ Notes(n, req[r], "failure") /\ n.called = req[r].called
        /\ n.phase = "raised"
    BY <1>0, <1>1 DEF Whole, Fields, NewRequest, Notes
  <2> HIDE DEF n
  <2> QED  BY <2>1, <2>2, NotedHeard DEF Results
<1>5. CASE VerifierRaises(r)
  <2> DEFINE n == [req[r] EXCEPT !.phase = "unverified", !.outcomes = Append(@, "success"),
                                 !.reports = Append(@, up)]
  <2>1. req[r].phase = "calling" /\ Raise(r, n)
    BY <1>1, <1>5 DEF VerifierRaises, Calling
  <2>2. /\ Whole(n) /\ Notes(n, req[r], "success") /\ n.called = req[r].called
        /\ n.phase = "unverified"
    BY <1>0, <1>1 DEF Whole, Fields, NewRequest, Notes
  <2> HIDE DEF n
  <2> QED  BY <2>1, <2>2, NotedHeard DEF Results
<1> QED  BY <1>2, <1>3, <1>4, <1>5

(* On to the next tier, whose call is the one under way.                   *)
LEMMA ClimbHeard ==
    ASSUME ExitInv, LimitInv, HeardInv, NEW r \in Requests, req[r].phase = "calling",
           ~LastTier(req[r]), NEW n, Whole(n), NEW result \in Results, Notes(n, req[r], result),
           n.phase = "calling", n.called = req[r].called, n.queue = req[r].queue, Climb(r, n)
    PROVE  HeardInv'
<1>1. PICK next, rest : next = n.queue[2] /\ rest = Tail(req[r].queue)
  OBVIOUS
<1>2. PICK q : q = [n EXCEPT !.queue = Tail(@), !.called = Append(@, next)]
  OBVIOUS
<1>3. /\ q.phase = "calling" /\ q.queue = rest /\ q.called = Append(req[r].called, next)
      /\ q.outcomes = n.outcomes /\ q.reports = n.reports /\ q.aborted = n.aborted /\ q.got = n.got
  BY <1>1, <1>2 DEF Whole, Fields, NewRequest
<1>4. Become(r, q)
  BY <1>1, <1>2 DEF Climb
<1>5. Head(rest) = next /\ next \in Models
  <2>1. PICK s \in Seq(Models) : s = req[r].queue /\ s # <<>> /\ Len(s) # 1
    BY InHearing DEF LastTier
  <2>2. /\ Len(s) \in Nat /\ Len(s) >= 2 /\ s[2] \in Models
        /\ Tail(s) # <<>> /\ Head(Tail(s)) = s[2]
    BY <2>1, SecondOf
  <2> QED  BY <1>1, <2>1, <2>2
<1>6. Notes(q, req[r], result)
  BY <1>3 DEF Notes
<1>7. Heard(q)
  BY <1>3, <1>5, <1>6, InHearing, HeardClimbs
<1> QED  BY <1>4, <1>7, HeardBecomes

(* A tier's end is reported before the next is called.                     *)
LEMMA TierHeard ==
    ASSUME ExitInv, LimitInv, HeardInv, NEW r \in Requests,
           (\E paid, verified : TierAnswers(r, paid, verified)) \/ TierFails(r)
    PROVE  HeardInv'
<1>0. Whole(req[r])
  BY InHearing
<1>1. CASE \E paid, verified : TierAnswers(r, paid, verified)
  <2> PICK paid, verified : TierAnswers(r, paid, verified)
    BY <1>1
  <2> PICK report : report = Report(req[r], "success")
    OBVIOUS
  <2> DEFINE n == [req[r] EXCEPT !.outcomes = Append(@, "success"), !.reports = Append(@, report),
                                 !.due = @ + paid, !.got = TRUE]
  <2>1. /\ req[r].phase = "calling"
        /\ Settle(r, n, n.due) \/ (~LastTier(req[r]) /\ Climb(r, n))
    BY DEF TierAnswers, Calling
  <2>2. /\ Whole(n) /\ Notes(n, req[r], "success") /\ n.called = req[r].called
        /\ n.queue = req[r].queue /\ n.phase = req[r].phase
    BY <1>0 DEF Whole, Fields, NewRequest, Notes
  <2> HIDE DEF n
  <2> QED  BY <2>1, <2>2, NotedHeard, ClimbHeard DEF Results
<1>2. CASE TierFails(r)
  <2> PICK cost, report : cost = Cost[Head(req[r].queue)] /\ report = Report(req[r], "failure")
    OBVIOUS
  <2> DEFINE n == [req[r] EXCEPT !.outcomes = Append(@, "failure"), !.reports = Append(@, report),
                                 !.due = @ + cost]
             last == [n EXCEPT !.phase = "failed", !.reserved = 0]
  <2>1. /\ req[r].phase = "calling"
        /\ \/ ~LastTier(req[r]) /\ Climb(r, n)
           \/ req[r].got /\ Settle(r, n, n.due)
           \/ Raise(r, last)
    BY <1>2 DEF TierFails, Calling
  <2>2. /\ Whole(n) /\ Notes(n, req[r], "failure") /\ n.called = req[r].called
        /\ n.queue = req[r].queue /\ n.phase = req[r].phase
    BY <1>0 DEF Whole, Fields, NewRequest, Notes
  <2>3. /\ Whole(last) /\ Notes(last, req[r], "failure") /\ last.called = req[r].called
        /\ last.phase = "failed"
    BY <1>0 DEF Whole, Fields, NewRequest, Notes
  <2> HIDE DEF n, last
  <2>4. CASE ~LastTier(req[r]) /\ Climb(r, n)
    BY <2>1, <2>2, <2>4, ClimbHeard DEF Results
  <2>5. CASE req[r].got /\ Settle(r, n, n.due)
    BY <2>1, <2>2, <2>5, NotedHeard DEF Results
  <2>6. CASE Raise(r, last)
    BY <2>1, <2>3, <2>6, NotedHeard DEF Results
  <2> QED  BY <2>1, <2>4, <2>5, <2>6
<1> QED  BY <1>1, <1>2

(* Nothing was called at first.                                            *)
LEMMA InitHeard == Init => HeardInv
<1> SUFFICES ASSUME Init PROVE HeardInv
  OBVIOUS
<1>1. PICK q : q = NewRequest
  OBVIOUS
<1>2. /\ q.phase = "idle" /\ q.called = <<>> /\ q.outcomes = <<>> /\ q.reports = <<>>
      /\ q.aborted = FALSE /\ q.got = FALSE
  BY <1>1 DEF NewRequest
<1>3. Matched(q.called, q.outcomes, q.reports) /\ Len(q.called) = 0 /\ Len(q.reports) = 0
  BY <1>2 DEF Matched
<1>4. Silent(q) = 0
  BY <1>2, SilentIs, Zenon
<1>5. Len(q.called) = Len(q.reports) + Silent(q) /\ q.phase # "calling" /\ q.phase # "answered"
  BY <1>2, <1>3, <1>4
<1>6. q.aborted \in BOOLEAN /\ ~q.aborted /\ ~q.got
  BY <1>2
<1>7. Heard(q)
  BY <1>3, <1>5, <1>6, Zenon DEF Heard
<1> QED  BY <1>1, <1>7 DEF Init, HeardInv

(* Every step is one of those above.                                       *)
LEMMA StepHeard ==
    ASSUME ExitInv, LimitInv, HeardInv, [Next]_vars
    PROVE  HeardInv'
<1>1. CASE UNCHANGED vars
  BY <1>1 DEF vars, HeardInv
<1>2. CASE Next
  <2> PICK r \in Requests : \/ \E options \in Options : Admit(r, options)
                            \/ Choose(r)
                            \/ Returns(r)
                            \/ VerifierRaises(r)
    BY <1>2 DEF Next
  <2>1. CASE \E options \in Options : Admit(r, options)
    BY <2>1, AdmitHeard
  <2>2. CASE Choose(r)
    BY <2>2, PassHeard, CallHeard DEF Choose
  <2>3. CASE Returns(r)
    BY <2>3, ReturnHeard, AbortHeard, TierHeard DEF Returns
  <2>4. CASE VerifierRaises(r)
    BY <2>4, ReturnHeard
  <2> QED  BY <2>1, <2>2, <2>3, <2>4
<1> QED  BY <1>1, <1>2

(* The breaker hears of every call that ended, in order, of the model that *)
(* was called, as a success only if it answered; of the call under way and *)
(* of one that was aborted it does not hear.                               *)
THEOREM EveryCallHeard == Spec => []BreakerHearsEveryCall
<1>1. ASSUME HeardInv PROVE BreakerHearsEveryCall
  <2> SUFFICES ASSUME NEW r \in Requests, NEW q, q = req[r], Heard(q)
               PROVE  LET silent == IF q.phase = "calling" \/ q.aborted THEN 1 ELSE 0
                      IN  /\ Len(q.reports) + silent = Len(q.called)
                          /\ \A i \in 1..Len(q.reports) :
                                q.reports[i] = [model |-> q.called[i], result |-> q.outcomes[i]]
                          /\ q.aborted => q.phase = "raised"
                          /\ q.phase = "answered" => "success" \in ToSet(q.outcomes)
    BY <1>1 DEF HeardInv, BreakerHearsEveryCall
  <2>1. Len(q.called) = Len(q.reports) + Silent(q) /\ Len(q.reports) \in Nat
    BY DEF Heard, Matched
  <2>2. Silent(q) = IF q.phase = "calling" \/ q.aborted THEN 1 ELSE 0
    BY Zenon DEF Silent
  <2>3. Silent(q) \in {0, 1}
    BY Zenon DEF Silent
  <2>4. Len(q.reports) + Silent(q) = Len(q.called)
    BY <2>1, <2>3
  <2>5. /\ \A i \in 1..Len(q.reports) :
              q.reports[i] = [model |-> q.called[i], result |-> q.outcomes[i]]
        /\ q.aborted => q.phase = "raised"
        /\ q.phase = "answered" => "success" \in ToSet(q.outcomes)
    BY DEF Heard, Matched
  <2> QED  BY <2>2, <2>4, <2>5, Zenon
<1>2. Init => ExitInv /\ LimitInv /\ HeardInv
  BY InitWhole, InitLimits, InitHeard
<1>3. ExitInv /\ LimitInv /\ HeardInv /\ [Next]_vars => ExitInv' /\ LimitInv' /\ HeardInv'
  BY StepWhole, StepLimits, StepHeard
<1> QED  BY <1>1, <1>2, <1>3, PTL DEF Spec
=============================================================================
