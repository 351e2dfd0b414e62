--------------------------- MODULE ServingProofs ----------------------------
(***************************************************************************)
(* That every way of serving a call gives back the slot routing took for   *)
(* it, but for the five that are known not to, and that the steps of a run *)
(* stay bounded: for any requests, callers, decisions, prices and limits.  *)
(*                                                                         *)
(* The invariant says which requests hold a slot: all that are at work,    *)
(* but for those that complete() dispatches a second time.  Only they can  *)
(* give back a slot they do not hold.                                      *)
(*                                                                         *)
(* And that the books are kept: a call is billed once if it is answered or *)
(* its client leaves it and else never, the plan's total covers the bills, *)
(* and the daily ledger of a bound tenant is that total but for what the   *)
(* library spent.                                                          *)
(***************************************************************************)
EXTENDS Serving, DataLemmas

Fields == {"phase", "kind", "how"}
Working == {"ready", "opening", "asking", "choosing", "calling"}
Leaking == {"never started", "swept", "cancelled", "early", "misrouted"}

(* A request with record q may hold a slot, or not.                        *)
SlotFits(q, holds) ==
    /\ q.phase = "new" => ~holds /\ q.kind = "none"
    /\ q.phase \in Working => holds
    /\ q.phase = "dispatching" => holds \/ q.kind = "twice"
    /\ q.phase = "ended" /\ holds => q.how \in Leaking

(* The slots of a run: h are held, p are counted, s steps are recorded,    *)
(* and u came back from requests that held none.                           *)
HeldOf(run) == {r \in held : RunOf(r) = run}
Counted(h, p, s, u) == h <= p + u /\ s + h <= MaxSteps + u
SomeTwice(run) == \E r \in Requests : RunOf(r) = run /\ req[r].kind = "twice"

RunFits(run) ==
    /\ Counted(Cardinality(HeldOf(run)), pending[run], steps[run], unearned[run])
    /\ unearned[run] > 0 => SomeTwice(run)

Inv ==
    /\ req = [r \in Requests |-> req[r]]
    /\ \A r \in Requests : Fields \subseteq DOMAIN req[r] /\ SlotFits(req[r], r \in held)
    /\ held \subseteq Requests
    /\ {pending, steps, unearned} \subseteq [Runs -> Nat]
    /\ \A run \in Runs : RunFits(run)
-----------------------------------------------------------------------------
(* The slots held can be counted.                                          *)
LEMMA HeldFinite ==
    ASSUME held \subseteq Requests, NEW run
    PROVE  IsFiniteSet(HeldOf(run)) /\ Cardinality(HeldOf(run)) \in Nat
<1>1. HeldOf(run) \subseteq Requests /\ IsFiniteSet(Requests)
  BY ServingAssumption DEF HeldOf
<1> QED  BY <1>1, FS_Subset, FS_CardinalityType

(* One request goes on as q; the tenants and runs of all stay.             *)
LEMMA OneGoes ==
    ASSUME Inv, NEW r \in Requests, NEW q, Goes(r, q)
    PROVE  /\ req' = [p \in Requests |-> req'[p]] /\ req'[r] = q
           /\ \A p \in Requests \ {r} : req'[p] = req[p]
           /\ Runs' = Runs /\ \A p : RunOf(p)' = RunOf(p)
<1>1. req' = [req EXCEPT ![r] = q] /\ caller' = caller /\ req = [p \in Requests |-> req[p]]
  BY DEF Goes, Inv
<1>2. /\ req' = [p \in Requests |-> req'[p]] /\ req'[r] = q
      /\ \A p \in Requests \ {r} : req'[p] = req[p]
  BY <1>1
<1>3. \A p : RunOf(p)' = RunOf(p)
  BY <1>1 DEF RunOf, TenantOf, Bound, BoundTenant
<1> QED  BY <1>2, <1>3 DEF Runs

(* A request of complete() in proxy mode remains one.                      *)
LEMMA TwiceStays ==
    ASSUME Inv, NEW r \in Requests, NEW q, Goes(r, q), req[r].kind = "twice" => q.kind = "twice",
           NEW run, SomeTwice(run)
    PROVE  SomeTwice(run)'
<1>1. PICK p \in Requests : RunOf(p) = run /\ req[p].kind = "twice"
  BY DEF SomeTwice
<1>2. RunOf(p)' = run /\ req'[p].kind = "twice"
  BY <1>1, OneGoes
<1> QED  BY <1>2 DEF SomeTwice

(* A step that leaves the slots as they are.                               *)
LEMMA KeepsOK ==
    ASSUME Inv, NEW r \in Requests, NEW q, Goes(r, q), KeepsSlot, Fields \subseteq DOMAIN q,
           req[r].kind = "twice" => q.kind = "twice", SlotFits(q, r \in held)
    PROVE  Inv'
<1>1. UNCHANGED <<pending, steps, held, unearned>>
  BY DEF KeepsSlot
<1>2. \A run : HeldOf(run)' = HeldOf(run)
  BY <1>1, OneGoes DEF HeldOf
<1>3. ASSUME NEW run \in Runs PROVE RunFits(run)'
  BY <1>1, <1>2, TwiceStays DEF Inv, RunFits
<1>4. \A p \in Requests : Fields \subseteq DOMAIN req'[p] /\ SlotFits(req'[p], p \in held')
  BY <1>1, OneGoes DEF Inv
<1> QED  BY <1>1, <1>3, <1>4, OneGoes DEF Inv

(* A slot is taken, for which there was room.                              *)
LEMMA TakesOK ==
    ASSUME Inv, NEW r \in Requests, NEW q, Goes(r, q), TakesSlot(r), Fields \subseteq DOMAIN q,
           HasRoom(RunOf(r)), r \notin held, req[r].kind # "twice", SlotFits(q, TRUE)
    PROVE  Inv'
<1> PICK mine : mine = RunOf(r)
  OBVIOUS
<1>1. /\ pending' = [pending EXCEPT ![mine] = @ + 1] /\ held' = held \cup {r}
      /\ UNCHANGED <<steps, unearned>> /\ mine \in Runs
      /\ {pending, steps, unearned} \subseteq [Runs -> Nat] /\ held \subseteq Requests
  BY DEF TakesSlot, Runs, Inv
<1>2. steps[mine] + pending[mine] < MaxSteps
  BY DEF HasRoom
<1>3. /\ pending' \in [Runs -> Nat] /\ pending'[mine] = pending[mine] + 1
      /\ \A run \in Runs \ {mine} : pending'[run] = pending[run]
  BY <1>1
<1>4. ASSUME NEW run \in Runs \ {mine} PROVE RunFits(run)'
  <2>1. HeldOf(run)' = HeldOf(run)
    BY <1>1, OneGoes DEF HeldOf
  <2> QED  BY <1>1, <1>3, <2>1, TwiceStays DEF Inv, RunFits
<1>5. RunFits(mine)'
  <2> DEFINE h == Cardinality(HeldOf(mine))
             p == pending[mine]
             s == steps[mine]
             u == unearned[mine]
  <2>1. IsFiniteSet(HeldOf(mine)) /\ h \in Nat /\ p \in Nat /\ s \in Nat /\ u \in Nat
    BY <1>1, HeldFinite
  <2>2. HeldOf(mine)' = HeldOf(mine) \cup {r} /\ r \notin HeldOf(mine)
    BY <1>1, OneGoes DEF HeldOf
  <2>3. Cardinality(HeldOf(mine)') = h + 1
    BY <2>1, <2>2, FS_AddElement
  <2>4. Counted(h, p, s, u) /\ (u > 0 => SomeTwice(mine))
    BY <1>1 DEF Inv, RunFits
  <2>5. s + p < MaxSteps /\ MaxSteps \in Nat
    BY <1>2, ServingAssumption
  <2>6. Counted(h + 1, p + 1, s, u)
    <3> HIDE DEF h, p, s, u
    <3> QED  BY <2>1, <2>4, <2>5 DEF Counted
  <2>7. u > 0 => SomeTwice(mine)'
    BY <2>4, TwiceStays
  <2> QED  BY <1>1, <1>3, <2>3, <2>6, <2>7 DEF RunFits
<1>6. \A p \in Requests : Fields \subseteq DOMAIN req'[p] /\ SlotFits(req'[p], p \in held')
  <2>1. SlotFits(req'[r], r \in held')
    BY <1>1, OneGoes DEF SlotFits
  <2>2. \A p \in Requests \ {r} : p \in held' <=> p \in held
    BY <1>1
  <2> QED  BY <2>1, <2>2, OneGoes DEF Inv, SlotFits
<1>7. Runs' = Runs /\ \A run \in Runs : RunFits(run)'
  BY <1>4, <1>5, OneGoes
<1> QED  BY <1>1, <1>3, <1>6, <1>7, OneGoes DEF Inv

(* A slot comes back, with a step or without one.                          *)
LEMMA BackOK ==
    ASSUME Inv, NEW r \in Requests, NEW q, Goes(r, q), ReleasesSlot(r) \/ RecordsStep(r),
           Fields \subseteq DOMAIN q, q.kind = req[r].kind, r \in held \/ req[r].kind = "twice",
           q.phase = "ended" \/ (q.phase = "dispatching" /\ q.kind = "twice")
    PROVE  Inv'
<1> PICK mine : mine = RunOf(r)
  OBVIOUS
<1>1. /\ pending' = [pending EXCEPT ![mine] = IF @ > 0 THEN @ - 1 ELSE 0] /\ held' = held \ {r}
      /\ unearned' = IF r \in held THEN unearned ELSE [unearned EXCEPT ![mine] = @ + 1]
      /\ steps' = steps \/ steps' = [steps EXCEPT ![mine] = @ + 1]
      /\ mine \in Runs /\ {pending, steps, unearned} \subseteq [Runs -> Nat] /\ held \subseteq Requests
  BY DEF ReleasesSlot, RecordsStep, SlotComesBack, Runs, Inv
<1> DEFINE p == pending[mine]
           s == steps[mine]
           u == unearned[mine]
           p1 == IF p > 0 THEN p - 1 ELSE 0
           u1 == IF r \in held THEN u ELSE u + 1
<1>2. p \in Nat /\ s \in Nat /\ u \in Nat /\ p1 \in Nat /\ u1 \in Nat /\ s + 1 \in Nat
  <2>1. p \in Nat /\ s \in Nat /\ u \in Nat
    BY <1>1
  <2> HIDE DEF p, s, u
  <2> QED  BY <2>1
<1> HIDE DEF p1, u1
<1>3. pending' \in [Runs -> Nat] /\ pending'[mine] = p1
      /\ \A run \in Runs \ {mine} : pending'[run] = pending[run]
  BY <1>1, <1>2 DEF p1
<1>4. unearned' \in [Runs -> Nat] /\ unearned'[mine] = u1
      /\ \A run \in Runs \ {mine} : unearned'[run] = unearned[run]
  BY <1>1, <1>2 DEF u1
<1>5. steps' \in [Runs -> Nat] /\ steps'[mine] \in {s, s + 1}
      /\ \A run \in Runs \ {mine} : steps'[run] = steps[run]
  BY <1>1, <1>2
<1>6. ASSUME NEW run \in Runs \ {mine} PROVE RunFits(run)'
  <2>1. HeldOf(run)' = HeldOf(run)
    BY <1>1, OneGoes DEF HeldOf
  <2> QED  BY <1>3, <1>4, <1>5, <2>1, TwiceStays DEF Inv, RunFits
<1>7. RunFits(mine)'
  <2> DEFINE h == Cardinality(HeldOf(mine))
             h1 == Cardinality(HeldOf(mine)')
  <2>1. IsFiniteSet(HeldOf(mine)) /\ h \in Nat
    BY <1>1, HeldFinite
  <2>2. Counted(h, p, s, u) /\ (u > 0 => SomeTwice(mine))
    BY <1>1 DEF Inv, RunFits
  <2>3. h1 \in Nat /\ (r \in held => h = h1 + 1 /\ u1 = u) /\ (r \notin held => h1 = h /\ u1 = u + 1)
    <3>1. CASE r \in held
      <4>1. HeldOf(mine)' = HeldOf(mine) \ {r} /\ r \in HeldOf(mine)
        BY <1>1, <3>1, OneGoes DEF HeldOf
      <4>2. h1 = h - 1 /\ h1 \in Nat
        BY <2>1, <4>1, FS_RemoveElement, FS_CardinalityType
      <4> HIDE DEF h, h1
      <4> QED  BY <2>1, <3>1, <4>2 DEF u1
    <3>2. CASE r \notin held
      <4>1. HeldOf(mine)' = HeldOf(mine)
        BY <1>1, <3>2, OneGoes DEF HeldOf
      <4> QED  BY <2>1, <3>2, <4>1 DEF u1
    <3> QED  BY <3>1, <3>2
  <2> HIDE DEF h, h1, p, s, u
  <2>4. Counted(h1, p1, s + 1, u1) /\ Counted(h1, p1, s, u1)
    <3>1. MaxSteps \in Nat /\ p <= p1 + 1 /\ p1 <= p
      BY <1>2, ServingAssumption DEF p1
    <3>2. h <= p + u /\ s + h <= MaxSteps + u
      BY <2>2 DEF Counted
    <3>3. CASE r \in held
      <4>1. h1 <= p1 + u1
        BY <1>2, <2>1, <2>3, <3>1, <3>2, <3>3
      <4>2. s + 1 + h1 <= MaxSteps + u1 /\ s + h1 <= MaxSteps + u1
        BY <1>2, <2>1, <2>3, <3>1, <3>2, <3>3
      <4> QED  BY <4>1, <4>2 DEF Counted
    <3>4. CASE r \notin held
      <4>1. h1 <= p1 + u1
        BY <1>2, <2>1, <2>3, <3>1, <3>2, <3>4
      <4>2. s + 1 + h1 <= MaxSteps + u1 /\ s + h1 <= MaxSteps + u1
        BY <1>2, <2>1, <2>3, <3>1, <3>2, <3>4
      <4> QED  BY <4>1, <4>2 DEF Counted
    <3> QED  BY <3>3, <3>4
  <2>5. u1 > 0 => SomeTwice(mine)'
    <3>1. CASE r \in held
      BY <2>2, <2>3, <3>1, TwiceStays
    <3>2. CASE r \notin held
      BY <3>2, OneGoes DEF SomeTwice
    <3> QED  BY <3>1, <3>2
  <2>6. Counted(Cardinality(HeldOf(mine)'), pending'[mine], steps'[mine], unearned'[mine])
    BY <1>3, <1>4, <1>5, <2>4 DEF h1
  <2> QED  BY <1>4, <2>5, <2>6 DEF RunFits
<1>8. \A x \in Requests : Fields \subseteq DOMAIN req'[x] /\ SlotFits(req'[x], x \in held')
  <2>1. SlotFits(req'[r], r \in held')
    BY <1>1, OneGoes DEF SlotFits, Working
  <2>2. \A x \in Requests \ {r} : x \in held' <=> x \in held
    BY <1>1
  <2> QED  BY <2>1, <2>2, OneGoes DEF Inv, SlotFits
<1>9. Runs' = Runs /\ \A run \in Runs : RunFits(run)'
  BY <1>6, <1>7, OneGoes
<1> QED  BY <1>1, <1>3, <1>4, <1>5, <1>8, <1>9, OneGoes DEF Inv
-----------------------------------------------------------------------------
(* What the steps make of a request's record.                              *)

(* The record of a request that ends.                                      *)
LEMMA EndsRecord ==
    ASSUME NEW r \in Requests, Fields \subseteq DOMAIN req[r], NEW how
    PROVE  /\ Fields \subseteq DOMAIN Ends(r, how)
           /\ Ends(r, how).phase = "ended" /\ Ends(r, how).how = how
           /\ Ends(r, how).kind = req[r].kind
  BY DEF Ends, Fields

(* The record of one whose proxy call is done with.                        *)
LEMMA ProxyDoneRecord ==
    ASSUME NEW r \in Requests, Fields \subseteq DOMAIN req[r], NEW how
    PROVE  /\ Fields \subseteq DOMAIN ProxyDone(r, how)
           /\ ProxyDone(r, how).kind = req[r].kind
           /\ \/ ProxyDone(r, how).phase = "ended"
              \/ (ProxyDone(r, how).phase = "dispatching" /\ req[r].kind = "twice")
<1>1. CASE req[r].kind = "twice"
  <2>1. ProxyDone(r, how) = [req[r] EXCEPT !.phase = "dispatching", !.reserved = 0, !.how = how]
    BY <1>1 DEF ProxyDone
  <2> QED  BY <1>1, <2>1 DEF Fields
<1>2. CASE req[r].kind # "twice"
  <2>1. ProxyDone(r, how) = Ends(r, how)
    BY <1>2 DEF ProxyDone
  <2> QED  BY <2>1, EndsRecord
<1> QED  BY <1>1, <1>2

(* What a step notes besides is neither phase, kind nor way out.           *)
LEMMA NotesRecord ==
    ASSUME NEW q, Fields \subseteq DOMAIN q, NEW a, NEW b
    PROVE  /\ \A x \in {[q EXCEPT !.billed = a], [q EXCEPT !.told = a],
                        [q EXCEPT !.told = a, !.billed = b], [q EXCEPT !.billed = a, !.told = b],
                        [q EXCEPT !.report = a], [q EXCEPT !.queue = a],
                        [q EXCEPT !.reserved = a, !.swept = b]} :
                Fields \subseteq DOMAIN x /\ x.phase = q.phase /\ x.kind = q.kind /\ x.how = q.how
           /\ Fields \subseteq DOMAIN [q EXCEPT !.kind = a]
           /\ [q EXCEPT !.kind = a].phase = q.phase /\ [q EXCEPT !.kind = a].how = q.how
  BY DEF Fields

(* The records a call of the proxy mode ends with.                         *)
SomeDone(r, q) ==
    \E how, a, b : \/ q = ProxyDone(r, how)
                   \/ q = [ProxyDone(r, how) EXCEPT !.told = a]
                   \/ q = [ProxyDone(r, how) EXCEPT !.told = a, !.billed = b]

(* The proxy loop hands over a request that is ended or, under complete(), *)
(* dispatched a second time.                                               *)
LEMMA DoneRecord ==
    ASSUME NEW r \in Requests, Fields \subseteq DOMAIN req[r], NEW q, SomeDone(r, q)
    PROVE  /\ Fields \subseteq DOMAIN q /\ q.kind = req[r].kind
           /\ \/ q.phase = "ended"
              \/ (q.phase = "dispatching" /\ q.kind = "twice")
<1>1. PICK how, a, b : \/ q = ProxyDone(r, how)
                       \/ q = [ProxyDone(r, how) EXCEPT !.told = a]
                       \/ q = [ProxyDone(r, how) EXCEPT !.told = a, !.billed = b]
  BY DEF SomeDone
<1> DEFINE e == ProxyDone(r, how)
<1>2. /\ Fields \subseteq DOMAIN e /\ e.kind = req[r].kind
      /\ e.phase = "ended" \/ (e.phase = "dispatching" /\ e.kind = "twice")
  BY ProxyDoneRecord
<1>3. q \in {e, [e EXCEPT !.told = a], [e EXCEPT !.told = a, !.billed = b]}
  BY <1>1
<1> HIDE DEF e
<1>4. Fields \subseteq DOMAIN q /\ q.kind = e.kind /\ q.phase = e.phase
  <2>1. CASE q = e
    BY <1>2, <2>1
  <2>2. CASE q = [e EXCEPT !.told = a]
    BY <1>2, <2>2, NotesRecord
  <2>3. CASE q = [e EXCEPT !.told = a, !.billed = b]
    BY <1>2, <2>3, NotesRecord
  <2> QED  BY <1>3, <2>1, <2>2, <2>3
<1> QED  BY <1>2, <1>4
-----------------------------------------------------------------------------
(* A request that is turned away takes no slot; one that is let in does.   *)
LEMMA AdmitOK ==
    ASSUME Inv, NEW r \in Requests, Admit(r)
    PROVE  Inv'
<1>1. PICK kind \in Kinds[r] :
        \/ Misnamed(r, kind) \/ TurnedAway(r, kind) \/ Invalid(r, kind) \/ Refused(r, kind)
        \/ RoutingRaises(r, kind)
        \/ \E d \in Decisions : Routed(r, kind, d)
  BY DEF Admit
<1>2. req[r].phase = "new" /\ Fields \subseteq DOMAIN req[r] /\ SlotFits(req[r], r \in held)
  BY <1>1 DEF Misnamed, TurnedAway, Invalid, Refused, RoutingRaises, Routed, LetIn, At, Inv
<1>3. r \notin held /\ req[r].kind # "twice"
  BY <1>2 DEF SlotFits
<1> DEFINE Out(how) == [Ends(r, how) EXCEPT !.kind = kind]
<1>4. \A how : Fields \subseteq DOMAIN Out(how) /\ Out(how).phase = "ended" /\ Out(how).how = how
  BY <1>2, EndsRecord, NotesRecord
<1> HIDE DEF Out
<1>5. ASSUME NEW how, Goes(r, Out(how)), KeepsSlot PROVE Inv'
  <2>1. SlotFits(Out(how), r \in held)
    BY <1>3, <1>4 DEF SlotFits, Working
  <2> QED  BY <1>3, <1>4, <1>5, <2>1, KeepsOK
<1>6. CASE Misnamed(r, kind) \/ TurnedAway(r, kind) \/ Invalid(r, kind) \/ Refused(r, kind)
  BY <1>5, <1>6 DEF Misnamed, TurnedAway, Invalid, Refused, Out
<1>7. CASE RoutingRaises(r, kind)
  <2>1. HasRoom(RunOf(r)) /\ Goes(r, Out("misrouted")) /\ TakesSlot(r)
    BY <1>7 DEF RoutingRaises, Out
  <2>2. SlotFits(Out("misrouted"), TRUE)
    BY <1>4 DEF SlotFits, Leaking, Working
  <2> QED  BY <1>3, <1>4, <2>1, <2>2, TakesOK
<1>8. ASSUME NEW d \in Decisions, Routed(r, kind, d) PROVE Inv'
  <2> DEFINE q == [req[r] EXCEPT !.kind = kind, !.decision = d, !.phase = Led(kind, d),
                                 !.queue = <<d.chosen>>, !.seen = {d.chosen}]
  <2>1. Fields \subseteq DOMAIN q /\ q.phase = Led(kind, d)
    BY <1>2 DEF Fields
  <2>2. Led(kind, d) \in {"ready", "dispatching", "choosing"}
    BY DEF Led
  <2>3. HasRoom(RunOf(r)) /\ (\/ Goes(r, Out("no model")) /\ KeepsSlot
                              \/ (Goes(r, Out("early")) /\ TakesSlot(r))
                              \/ (Goes(r, q) /\ TakesSlot(r)))
    BY <1>8 DEF Routed, Out
  <2> HIDE DEF q
  <2>4. CASE Goes(r, q) /\ TakesSlot(r)
    <3>1. SlotFits(q, TRUE)
      BY <2>1, <2>2 DEF SlotFits
    <3> QED  BY <1>3, <2>1, <2>3, <2>4, <3>1, TakesOK
  <2>5. CASE Goes(r, Out("early")) /\ TakesSlot(r)
    <3>1. SlotFits(Out("early"), TRUE)
      BY <1>4 DEF SlotFits, Leaking
    <3> QED  BY <1>3, <1>4, <2>3, <2>5, <3>1, TakesOK
  <2> QED  BY <1>5, <2>3, <2>4, <2>5
<1> QED  BY <1>1, <1>6, <1>7, <1>8

(* A request at work goes on, or goes out one of the ways that leak.       *)
LEMMA WorksOn ==
    ASSUME Inv, NEW r \in Requests, NEW q, Goes(r, q), KeepsSlot, Fields \subseteq DOMAIN q,
           q.kind = req[r].kind, req[r].phase \in Working,
           q.phase \in Working \/ (q.phase = "ended" /\ q.how \in Leaking)
    PROVE  Inv'
<1>1. SlotFits(q, r \in held)
  BY DEF Inv, SlotFits, Working
<1> QED  BY <1>1, KeepsOK

(* A request at work, or dispatched again, gives a slot back.              *)
LEMMA EndsWell ==
    ASSUME Inv, NEW r \in Requests, NEW q, Goes(r, q), ReleasesSlot(r) \/ RecordsStep(r),
           Fields \subseteq DOMAIN q, q.kind = req[r].kind,
           req[r].phase \in Working \cup {"dispatching"},
           q.phase = "ended" \/ (q.phase = "dispatching" /\ q.kind = "twice")
    PROVE  Inv'
<1>1. r \in held \/ req[r].kind = "twice"
  BY DEF Inv, SlotFits
<1> QED  BY <1>1, BackOK

(* A charge that finds its reservation swept keeps the slot.               *)
LEMMA UsageOK ==
    ASSUME Inv, NEW r \in Requests, NEW amount, NEW trifle, NEW ended,
           RecordUsage(r, amount, trifle, ended),
           req[r].phase \in Working, Fields \subseteq DOMAIN ended, ended.phase = "ended",
           ended.kind = req[r].kind
    PROVE  Inv'
<1>1. Fields \subseteq DOMAIN req[r]
  BY DEF Inv
<1>2. CASE req[r].swept
  <2>1. Goes(r, Ends(r, "swept")) /\ KeepsSlot
    BY <1>2 DEF RecordUsage
  <2>2. "swept" \in Leaking
    BY DEF Leaking
  <2> QED  BY <1>1, <2>1, <2>2, EndsRecord, WorksOn
<1>3. CASE ~req[r].swept
  <2> DEFINE q == [ended EXCEPT !.billed = ended.billed + 1]
  <2>1. Goes(r, q) /\ RecordsStep(r)
    BY <1>3 DEF RecordUsage
  <2>2. Fields \subseteq DOMAIN q /\ q.phase = "ended" /\ q.kind = req[r].kind
    BY NotesRecord
  <2> HIDE DEF q
  <2> QED  BY <2>1, <2>2, EndsWell
<1> QED  BY <1>2, <1>3

(* The steps of each way of serving, one by one.                           *)
LEMMA StreamOK ==
    ASSUME Inv, NEW r \in Requests, Stream(r)
    PROVE  Inv'
<1>1. Fields \subseteq DOMAIN req[r] /\ "never started" \in Leaking
  BY DEF Inv, Leaking
<1>2. CASE NeverStarts(r)
  <2>1. Goes(r, Ends(r, "never started")) /\ KeepsSlot /\ req[r].phase \in Working
    BY <1>2 DEF NeverStarts, At, Working
  <2> QED  BY <1>1, <2>1, EndsRecord, WorksOn
<1>3. CASE Start(r)
  <2> DEFINE q == [req[r] EXCEPT !.phase = IF Model(r) \in Native THEN "opening" ELSE "asking",
                                 !.reserved = Cost[Model(r)]]
  <2>1. /\ req[r].phase \in Working
        /\ (Goes(r, q) /\ KeepsSlot) \/ (Goes(r, Ends(r, "over budget")) /\ ReleasesSlot(r))
    BY <1>3 DEF Start, At, Working
  <2>2. Fields \subseteq DOMAIN q /\ q.phase \in Working /\ q.kind = req[r].kind
    BY <1>1 DEF Fields, Working
  <2> HIDE DEF q
  <2> QED  BY <1>1, <2>1, <2>2, EndsRecord, WorksOn, EndsWell
<1>4. CASE Opened(r)
  <2> DEFINE q == [req[r] EXCEPT !.phase = "asking"]
  <2>1. Goes(r, q) /\ KeepsSlot /\ req[r].phase \in Working
    BY <1>4 DEF Opened, At, Working
  <2>2. Fields \subseteq DOMAIN q /\ q.phase \in Working /\ q.kind = req[r].kind
    BY <1>1 DEF Fields, Working
  <2> HIDE DEF q
  <2> QED  BY <2>1, <2>2, WorksOn
<1>5. ASSUME NEW report \in Reports, Captures(r, report) PROVE Inv'
  <2> DEFINE q == [req[r] EXCEPT !.report = report]
  <2>1. Goes(r, q) /\ KeepsSlot /\ req[r].phase \in Working
    BY <1>5 DEF Captures, At, Working
  <2>2. Fields \subseteq DOMAIN q /\ q.phase = req[r].phase /\ q.kind = req[r].kind
    BY <1>1, NotesRecord
  <2> HIDE DEF q
  <2> QED  BY <2>1, <2>2, WorksOn
<1>6. ASSUME NEW report \in Reports, StreamEnds(r, report) PROVE Inv'
  <2> DEFINE e == Ends(r, "answered")
             q == [e EXCEPT !.told = e.told + 1]
  <2>1. /\ RecordUsage(r, Bill(Model(r), report), Negligible(Model(r), report), q)
        /\ req[r].phase \in Working
    BY <1>6 DEF StreamEnds, At, Working
  <2>2. Fields \subseteq DOMAIN q /\ q.phase = "ended" /\ q.kind = req[r].kind
    <3>1. Fields \subseteq DOMAIN e /\ e.phase = "ended" /\ e.kind = req[r].kind
      BY <1>1, EndsRecord
    <3> HIDE DEF e
    <3> QED  BY <3>1, NotesRecord
  <2> HIDE DEF q
  <2> QED  BY <2>1, <2>2, UsageOK
<1>7. CASE StreamFails(r)
  <2> DEFINE e == Ends(r, "failed")
             q == [e EXCEPT !.told = e.told + 1]
  <2>1. Goes(r, q) /\ ReleasesSlot(r) /\ req[r].phase \in Working
    BY <1>7 DEF StreamFails, At, Working
  <2>2. Fields \subseteq DOMAIN q /\ q.phase = "ended" /\ q.kind = req[r].kind
    <3>1. Fields \subseteq DOMAIN e /\ e.phase = "ended" /\ e.kind = req[r].kind
      BY <1>1, EndsRecord
    <3> HIDE DEF e
    <3> QED  BY <3>1, NotesRecord
  <2> HIDE DEF q
  <2> QED  BY <2>1, <2>2, EndsWell
<1>8. CASE Leaves(r)
  <2>1. RecordUsage(r, Cost[Model(r)], FALSE, Ends(r, "left")) /\ req[r].phase \in Working
    BY <1>8 DEF Leaves, At, Working
  <2> QED  BY <1>1, <2>1, EndsRecord, UsageOK
<1> QED  BY <1>2, <1>3, <1>4, <1>5, <1>6, <1>7, <1>8 DEF Stream

(* The buffered proxy loop keeps the slots counted: it releases one only   *)
(* where it ends.                                                          *)
LEMMA ProxyOK ==
    ASSUME Inv, NEW r \in Requests, Proxy(r)
    PROVE  Inv'
<1>1. Fields \subseteq DOMAIN req[r]
  BY DEF Inv
<1>2. CASE ProxyCalls(r)
  <2> DEFINE asks == [req[r] EXCEPT !.phase = "calling", !.reserved = Cost[Model(r)],
                                    !.swept = FALSE]
             skips == [req[r] EXCEPT !.queue = Tail(req[r].queue)]
  <2>1. /\ Goes(r, asks) \/ Goes(r, skips)
        /\ KeepsSlot /\ req[r].phase \in Working
    BY <1>2 DEF ProxyCalls, At, Working
  <2>2. Fields \subseteq DOMAIN asks /\ asks.phase \in Working /\ asks.kind = req[r].kind
    BY <1>1 DEF Fields, Working
  <2>3. Fields \subseteq DOMAIN skips /\ skips.phase = req[r].phase /\ skips.kind = req[r].kind
    BY <1>1, NotesRecord
  <2> HIDE DEF asks, skips
  <2> QED  BY <2>1, <2>2, <2>3, WorksOn
<1>3. ASSUME req[r].phase \in Working, ReleasesSlot(r) \/ RecordsStep(r),
             NEW q, Goes(r, q), SomeDone(r, q)
      PROVE  Inv'
  BY <1>1, <1>3, DoneRecord, EndsWell
<1>4. CASE ProxyGivesUp(r)
  BY <1>3, <1>4 DEF ProxyGivesUp, At, Working, SomeDone
<1>5. ASSUME NEW report \in Reports, ProxyAnswers(r, report) PROVE Inv'
  <2>1. req[r].phase \in Working
    BY <1>5 DEF ProxyAnswers, At, Working
  <2>2. CASE req[r].swept
    <3>1. PICK q : Goes(r, q) /\ \E a : q = [ProxyDone(r, "failed") EXCEPT !.told = a]
      BY <1>5, <2>2 DEF ProxyAnswers
    <3>2. SomeDone(r, q) /\ ReleasesSlot(r)
      BY <1>5, <2>2, <3>1 DEF ProxyAnswers, SomeDone
    <3> QED  BY <1>3, <2>1, <3>1, <3>2
  <2>3. CASE ~req[r].swept
    <3>1. PICK q : Goes(r, q) /\ \E a, b : q = [ProxyDone(r, "answered") EXCEPT !.told = a,
                                                                               !.billed = b]
      BY <1>5, <2>3 DEF ProxyAnswers
    <3>2. SomeDone(r, q) /\ RecordsStep(r)
      BY <1>5, <2>3, <3>1 DEF ProxyAnswers, SomeDone
    <3> QED  BY <1>3, <2>1, <3>1, <3>2
  <2> QED  BY <2>2, <2>3
<1>6. ASSUME NEW error, ProxyFails(r, error) PROVE Inv'
  <2>1. PICK a, b, c : Goes(r, [req[r] EXCEPT !.phase = "choosing", !.reserved = 0, !.told = a,
                                              !.queue = b, !.seen = c])
    BY <1>6 DEF ProxyFails
  <2> DEFINE q == [req[r] EXCEPT !.phase = "choosing", !.reserved = 0, !.told = a,
                                 !.queue = b, !.seen = c]
  <2>2. KeepsSlot /\ req[r].phase \in Working
    BY <1>6 DEF ProxyFails, At, Working
  <2>3. Fields \subseteq DOMAIN q /\ q.phase \in Working /\ q.kind = req[r].kind
    BY <1>1 DEF Fields, Working
  <2>4. Goes(r, q)
    BY <2>1
  <2> HIDE DEF q
  <2> QED  BY <2>2, <2>3, <2>4, WorksOn
<1>7. CASE ProxyCancelled(r)
  <2>1. Goes(r, Ends(r, "cancelled")) /\ KeepsSlot /\ req[r].phase \in Working
        /\ "cancelled" \in Leaking
    BY <1>7 DEF ProxyCancelled, At, Working, Leaking
  <2> QED  BY <1>1, <2>1, EndsRecord, WorksOn
<1>8. CASE ProxyBreaks(r)
  BY <1>3, <1>8 DEF ProxyBreaks, At, Working, SomeDone
<1> QED  BY <1>2, <1>4, <1>5, <1>6, <1>7, <1>8 DEF Proxy

(* The second dispatch of complete() records a step for a slot the request *)
(* may no longer hold: unearned counts it.                                 *)
LEMMA DispatchingOK ==
    ASSUME Inv, NEW r \in Requests, Dispatching(r)
    PROVE  Inv'
<1>1. Fields \subseteq DOMAIN req[r]
  BY DEF Inv
<1>2. ASSUME NEW m \in Models, NEW report \in Reports, Dispatched(r, m, report) PROVE Inv'
  <2> DEFINE e == Ends(r, "answered")
             q == [e EXCEPT !.billed = e.billed + 1, !.told = e.told + 1]
  <2>1. Goes(r, q) /\ RecordsStep(r) /\ req[r].phase = "dispatching"
    BY <1>2 DEF Dispatched, At
  <2>2. Fields \subseteq DOMAIN q /\ q.phase = "ended" /\ q.kind = req[r].kind
    BY <1>1, EndsRecord, NotesRecord
  <2> HIDE DEF q
  <2> QED  BY <2>1, <2>2, EndsWell
<1>3. CASE NotDispatched(r)
  BY <1>1, <1>3, EndsRecord, EndsWell DEF NotDispatched, At
<1> QED  BY <1>2, <1>3 DEF Dispatching

(* A lapsed reservation of money leaves the slots alone.                   *)
LEMMA LapsesOK ==
    ASSUME Inv, NEW r \in Requests, Lapses(r)
    PROVE  Inv'
<1> DEFINE q == [req[r] EXCEPT !.reserved = 0, !.swept = TRUE]
<1>1. Goes(r, q) /\ KeepsSlot
  BY DEF Lapses
<1>2. Fields \subseteq DOMAIN req[r] /\ SlotFits(req[r], r \in held)
  BY DEF Inv
<1>3. Fields \subseteq DOMAIN q /\ q.phase = req[r].phase /\ q.kind = req[r].kind /\ q.how = req[r].how
  BY <1>2, NotesRecord
<1> HIDE DEF q
<1>4. SlotFits(q, r \in held)
  BY <1>2, <1>3 DEF SlotFits
<1> QED  BY <1>1, <1>3, <1>4, KeepsOK

(* No request holds a slot before it is admitted.                          *)
LEMMA InitOK == Init => Inv
<1> SUFFICES ASSUME Init PROVE Inv
  OBVIOUS
<1>1. \A r \in Requests : Fields \subseteq DOMAIN req[r] /\ SlotFits(req[r], r \in held)
  BY DEF Init, Fields, SlotFits, Working
<1>2. MaxSteps \in Nat
  BY ServingAssumption
<1>3. ASSUME NEW run \in Runs PROVE RunFits(run)
  <2>1. HeldOf(run) = {} /\ pending[run] = 0 /\ steps[run] = 0 /\ unearned[run] = 0
    BY DEF Init, HeldOf
  <2>2. Cardinality(HeldOf(run)) = 0
    BY <2>1, FS_EmptySet
  <2> QED  BY <1>2, <2>1, <2>2 DEF RunFits, Counted
<1>4. {pending, steps, unearned} \subseteq [Runs -> Nat] /\ held \subseteq Requests
  BY DEF Init
<1>5. req = [r \in Requests |-> req[r]]
  BY DEF Init
<1> QED  BY <1>1, <1>3, <1>4, <1>5 DEF Inv

(* Requests at work hold their slots, and each run counts them, whichever  *)
(* way calls are served.                                                   *)
THEOREM Invariance == Spec => []Inv
<1>1. Init => Inv
  BY InitOK
<1>2. Inv /\ [Next]_vars => Inv'
  <2> SUFFICES ASSUME Inv, [Next]_vars PROVE Inv'
    OBVIOUS
  <2>1. CASE Next
    BY <2>1, AdmitOK, StreamOK, ProxyOK, DispatchingOK, LapsesOK DEF Next
  <2>2. CASE UNCHANGED vars
    <3>1. UNCHANGED <<caller, req, pending, steps, held, unearned>>
      BY <2>2 DEF vars
    <3>2. Runs' = Runs /\ \A r : RunOf(r)' = RunOf(r)
      BY <3>1 DEF Runs, RunOf, TenantOf, Bound, BoundTenant
    <3>3. \A run : HeldOf(run)' = HeldOf(run) /\ SomeTwice(run)' = SomeTwice(run)
      BY <3>1, <3>2 DEF HeldOf, SomeTwice
    <3>4. \A run \in Runs : RunFits(run)'
      BY <3>1, <3>3 DEF Inv, RunFits
    <3> QED  BY <3>1, <3>2, <3>4 DEF Inv
  <2> QED  BY <2>1, <2>2
<1> QED  BY <1>1, <1>2, PTL DEF Spec

(* However a call is served and ends, its slot is given back, once, but    *)
(* for the five ways out that are known to keep it.                        *)
THEOREM Returned == Spec => []SlotsReturned
<1>1. Inv => SlotsReturned
  BY DEF Inv, SlotsReturned, SlotFits, At, Leaking
<1> QED  BY <1>1, Invariance, PTL

(* The steps of a run, recorded and in flight, exceed its limit by no more *)
(* than the steps that complete() records in proxy mode for a slot it does *)
(* not hold.                                                               *)
THEOREM Bounded == Spec => []StepsBounded
<1>1. Inv => StepsBounded
  BY DEF Inv, RunFits, Counted, HeldOf, SomeTwice, StepsBounded
<1> QED  BY <1>1, Invariance, PTL

-----------------------------------------------------------------------------
(* The accounts: what the records, the plans and the daily ledgers hold.   *)

AllFields == {"phase", "kind", "decision", "queue", "seen", "reserved", "swept", "report",
              "how", "told", "billed"}

(* How often a request with record q may have been billed where it is, and *)
(* that it knows the model it calls.                                       *)
BillFits(q) ==
    /\ q.billed \in Nat /\ q.told \in Nat
    /\ q.phase \in Working \cup {"new"} => q.billed = 0
    /\ q.phase = "dispatching" => q.billed <= IF q.kind = "twice" THEN 1 ELSE 0
    /\ q.phase = "ended" =>
        /\ q.kind # "twice" => q.billed = IF q.how \in {"answered", "left"} THEN 1 ELSE 0
        /\ q.kind = "twice" => q.billed <= 2
        /\ q.how = "answered" => q.told >= 1

CallFits(q) ==
    /\ q.phase \in {"ready", "opening", "asking", "choosing", "calling"} => q.queue \in Seq(Models)
    /\ q.phase \in {"ready", "opening", "asking", "calling"} => q.queue # <<>>
    /\ q.phase \in {"choosing", "calling"} => q.decision \in Decisions

RecordFits(q) == AllFields \subseteq DOMAIN q /\ BillFits(q) /\ CallFits(q)

(* The tenants a ledger may be of, and the ledgers: one of each.           *)
Tenants == {BoundTenant(r) : r \in Requests}
Entries == [who : Tenants, total : Int]
OnePerTenant(list) ==
    /\ list \in Seq(Entries) /\ IsInjective(list)
    /\ \A e, f \in ToSet(list) : e.who = f.who => e = f
Totals(list, t) == IF \E e \in ToSet(list) : e.who = t
                   THEN (CHOOSE e \in ToSet(list) : e.who = t).total ELSE 0

(* A deployment in which a call of any model is estimated to cost          *)
(* something.                                                              *)
NoFreeModel == \A m \in Models : Cost[m] > 0

(* What the bills of a user come to.                                       *)
BillsOf(u) == [r \in Requests |-> IF UserOf(r) = u THEN req[r].billed ELSE 0]

Accounts ==
    /\ caller \in Callers
    /\ \A r \in Requests : RecordFits(req[r])
    /\ {spent, library} \subseteq [Users -> Int]
    /\ OnePerTenant(daily)
    /\ daily # <<>> => \A r \in Requests : Bound(r)
    /\ \A r \in Requests : Bound(r) /\ BoundTenant(r) \notin evicted =>
          Totals(daily, BoundTenant(r)) = spent[BoundTenant(r)] - library[BoundTenant(r)]
    /\ trifles \in [Users -> Int]
    /\ NoFreeModel => \A u \in Users : SumOver(BillsOf(u), Requests) <= spent[u] + trifles[u]

-----------------------------------------------------------------------------
(* The daily ledgers, as lists.                                            *)

(* A list of ledgers of different tenants says what each of them holds.    *)
LEMMA TotalIs ==
    ASSUME OnePerTenant(daily), NEW t
    PROVE  /\ Total(t) = Totals(daily, t) /\ Total(t) \in Int
           /\ LedgerOf(t) \in Seq(Entries) /\ IsInjective(LedgerOf(t))
           /\ ToSet(LedgerOf(t)) = Ledgers(t)
<1>1. PICK s \in Seq(Entries) : s = daily /\ IsInjective(s)
  BY DEF OnePerTenant
<1>2. PICK l : l = LedgerOf(t)
  OBVIOUS
<1>3. l \in Seq(Entries) /\ ToSet(l) = ToSet(s) \ (ToSet(s) \ Ledgers(t)) /\ IsInjective(l)
  BY <1>1, <1>2, WithoutList DEF LedgerOf, Only
<1>4. Ledgers(t) \subseteq ToSet(s) /\ ToSet(s) \subseteq Entries
  BY <1>1, DistinctList DEF Ledgers
<1>5. ToSet(l) = Ledgers(t)
  BY <1>3, <1>4
<1>6. CASE l = <<>>
  <2>1. ToSet(l) = {}
    BY <1>6 DEF ToSet
  <2>2. ~ \E e \in ToSet(daily) : e.who = t
    BY <1>5, <2>1 DEF Ledgers
  <2> QED  BY <1>2, <1>3, <1>5, <1>6, <2>2 DEF Total, Totals
<1>7. CASE l # <<>>
  <2>1. 1 \in DOMAIN l
    BY <1>3, <1>7
  <2>2. l[1] \in Ledgers(t)
    BY <1>5, <2>1 DEF ToSet
  <2>3. PICK e \in ToSet(daily) : e.who = t /\ e = l[1]
    BY <2>2 DEF Ledgers
  <2>4. \A f \in ToSet(daily) : f.who = t => f = e
    BY <2>3 DEF OnePerTenant
  <2>5. Totals(daily, t) = e.total
    BY <2>3, <2>4 DEF Totals
  <2>6. e.total \in Int
    BY <1>1, <1>4, <2>3 DEF Entries
  <2>7. Total(t) = e.total
    BY <1>2, <1>7, <2>3 DEF Total
  <2> QED  BY <1>2, <1>3, <1>5, <2>5, <2>6, <2>7
<1> QED  BY <1>6, <1>7

(* The ledgers of the others, as a list: one of each, all but the          *)
(* tenant's.                                                               *)
LEMMA OthersAre ==
    ASSUME OnePerTenant(daily), NEW t
    PROVE  /\ OthersOf(t) \in Seq(Entries) /\ IsInjective(OthersOf(t))
           /\ ToSet(OthersOf(t)) = ToSet(daily) \ Ledgers(t)
  BY WithoutList DEF OthersOf, OnePerTenant

(* The same ledgers hold the same.                                         *)
LEMMA SameTotals ==
    ASSUME NEW list, NEW other, NEW t,
           \A e \in ToSet(list), f \in ToSet(list) : e.who = f.who => e = f,
           \A e \in ToSet(other), f \in ToSet(other) : e.who = f.who => e = f,
           {e \in ToSet(other) : e.who = t} = {e \in ToSet(list) : e.who = t}
    PROVE  Totals(other, t) = Totals(list, t)
<1>1. CASE \E e \in ToSet(list) : e.who = t
  <2>1. PICK e \in ToSet(list) : e.who = t
    BY <1>1
  <2>2. e \in ToSet(other)
    BY <2>1
  <2> QED  BY <2>1, <2>2 DEF Totals
<1>2. CASE ~ \E e \in ToSet(list) : e.who = t
  BY <1>2 DEF Totals
<1> QED  BY <1>1, <1>2

(* Reading a ledger moves it, and changes none.                            *)
LEMMA ReadingKeeps ==
    ASSUME OnePerTenant(daily), NEW t
    PROVE  /\ OnePerTenant(ReadsDaily(t))
           /\ \A x : Totals(ReadsDaily(t), x) = Totals(daily, x)
           /\ daily = <<>> => ReadsDaily(t) = <<>>
<1>1. PICK s \in Seq(Entries), l \in Seq(Entries) : s = OthersOf(t) /\ l = LedgerOf(t)
  BY TotalIs, OthersAre
<1>2. /\ IsInjective(s) /\ IsInjective(l)
      /\ ToSet(s) = ToSet(daily) \ Ledgers(t) /\ ToSet(l) = Ledgers(t)
  BY <1>1, TotalIs, OthersAre
<1>3. Ledgers(t) \subseteq ToSet(daily)
  BY DEF Ledgers
<1>4. /\ s \o l \in Seq(Entries) /\ ToSet(s \o l) = ToSet(s) \cup ToSet(l)
      /\ IsInjective(s \o l)
  BY <1>1, <1>2, ConcatList
<1>5. ToSet(s \o l) = ToSet(daily)
  BY <1>2, <1>3, <1>4
<1>6. ReadsDaily(t) = s \o l
  BY <1>1 DEF ReadsDaily
<1>7. OnePerTenant(s \o l)
  BY <1>4, <1>5 DEF OnePerTenant
<1>8. ASSUME daily = <<>> PROVE s \o l = <<>>
  <2>1. ToSet(daily) = {}
    BY <1>8 DEF ToSet
  <2>2. PICK u : u = s \o l
    OBVIOUS
  <2>3. u \in Seq(Entries) /\ ToSet(u) = {}
    BY <1>4, <1>5, <2>1, <2>2
  <2>4. u = <<>>
    <3>1. u # <<>> => 1 \in DOMAIN u
      BY <2>3
    <3> QED  BY <2>3, <3>1 DEF ToSet
  <2> QED  BY <2>2, <2>4
<1> QED  BY <1>5, <1>6, <1>7, <1>8 DEF Totals

(* Charging a tenant adds to its ledger and to no other; the one that makes *)
(* room for it is gone.                                                    *)
LEMMA AddingCharges ==
    ASSUME OnePerTenant(daily), NEW t \in Tenants, NEW amount \in Int
    PROVE  /\ OnePerTenant(AddsDaily(t, amount))
           /\ t \notin Victim(t) => Totals(AddsDaily(t, amount), t) = Totals(daily, t) + amount
           /\ \A x : x # t /\ x \notin Victim(t) =>
                 Totals(AddsDaily(t, amount), x) = Totals(daily, x)
<1>1. PICK s \in Seq(Entries) : s = OthersOf(t)
  BY OthersAre
<1>2. PICK gone : gone = UNION {Ledgers(v) : v \in Victim(t)}
  OBVIOUS
<1>3. PICK k : k = Without(s, gone)
  OBVIOUS
<1>4. PICK new : new = [who |-> t, total |-> Total(t) + amount]
  OBVIOUS
<1>5. IsInjective(s) /\ ToSet(s) = ToSet(daily) \ Ledgers(t)
  BY <1>1, OthersAre
<1>6. k \in Seq(Entries) /\ ToSet(k) = ToSet(s) \ gone /\ IsInjective(k)
  BY <1>1, <1>3, <1>5, WithoutList
<1>7. Total(t) \in Int /\ Total(t) = Totals(daily, t)
  BY TotalIs
<1>8. new \in Entries /\ new.who = t /\ new.total = Total(t) + amount
  BY <1>4, <1>7 DEF Entries
<1>9. \A e \in ToSet(k) : e.who # t /\ e \in ToSet(daily)
  BY <1>5, <1>6 DEF Ledgers
<1>10. new \notin ToSet(k)
  BY <1>8, <1>9
<1>11. PICK a : a = Append(k, new)
  OBVIOUS
<1>12. a \in Seq(Entries) /\ ToSet(a) = ToSet(k) \cup {new} /\ IsInjective(a)
  BY <1>6, <1>8, <1>10, <1>11, AppendList
<1>13. \A e \in ToSet(a), f \in ToSet(a) : e.who = f.who => e = f
  BY <1>8, <1>9, <1>12 DEF OnePerTenant
<1>14. OnePerTenant(a)
  BY <1>12, <1>13 DEF OnePerTenant
<1>15. AddsDaily(t, amount) = a
  BY <1>1, <1>2, <1>3, <1>4, <1>11 DEF AddsDaily
<1>16. Totals(a, t) = Totals(daily, t) + amount
  <2>1. new \in ToSet(a) /\ \A e \in ToSet(a) : e.who = t => e = new
    BY <1>8, <1>12, <1>13
  <2>2. Totals(a, t) = new.total
    BY <1>8, <2>1 DEF Totals
  <2> QED  BY <1>7, <1>8, <2>2
<1>17. ASSUME NEW x, x # t, x \notin Victim(t)
       PROVE  Totals(a, x) = Totals(daily, x)
  <2>1. ASSUME NEW e \in ToSet(daily), e.who = x PROVE e \in ToSet(a)
    <3>1. e \in ToSet(s)
      BY <1>5, <1>17, <2>1 DEF Ledgers
    <3>2. e \notin gone
      BY <1>2, <1>17, <2>1 DEF Ledgers
    <3> QED  BY <1>6, <1>12, <3>1, <3>2
  <2>2. \A e \in ToSet(a) : e.who = x => e \in ToSet(daily)
    BY <1>8, <1>9, <1>12, <1>17
  <2>3. {e \in ToSet(a) : e.who = x} = {e \in ToSet(daily) : e.who = x}
    BY <2>1, <2>2
  <2> QED  BY <1>13, <2>3, SameTotals DEF OnePerTenant
<1> QED  BY <1>14, <1>15, <1>16, <1>17
-----------------------------------------------------------------------------
(* The steps keep the accounts.                                            *)

(* What a step of request r that leaves it as q does to the accounts: it   *)
(* bills nothing and at most reads a ledger, or bills once and charges.    *)
NoCharge(r, q) ==
    /\ q.billed = req[r].billed
    /\ UNCHANGED <<spent, trifles, library, evicted>>
    /\ daily' = daily \/ (Bound(r) /\ daily' = ReadsDaily(BoundTenant(r)))
OneCharge(r, q) ==
    /\ q.billed = req[r].billed + 1
    /\ \E amount \in Nat, trifle \in BOOLEAN :
          /\ NoFreeModel => amount >= 1 \/ trifle
          /\ ChargesPlan(r, amount, trifle)
          /\ ChargesTenant(r, amount) \/ ChargesNoTenant(r, amount)
Settles(r, q) == RecordFits(q) /\ (NoCharge(r, q) \/ OneCharge(r, q))

(* A step changes nothing of who the callers are.                          *)
LEMMA SameCallers ==
    ASSUME caller' = caller
    PROVE  /\ \A r : /\ BoundTenant(r)' = BoundTenant(r) /\ Bound(r)' = Bound(r)
                     /\ UserOf(r)' = UserOf(r)
           /\ Users' = Users /\ Tenants' = Tenants /\ Entries' = Entries
<1>1. \A r : BoundTenant(r)' = BoundTenant(r) /\ Bound(r)' = Bound(r) /\ UserOf(r)' = UserOf(r)
  BY DEF BoundTenant, Bound, UserOf
<1>2. Users' = Users /\ Tenants' = Tenants
  BY <1>1 DEF Users, Tenants
<1> QED  BY <1>1, <1>2 DEF Entries

(* All tokens are bound or none is, and a bound one is charged as its      *)
(* tenant.                                                                 *)
LEMMA AllBound ==
    ASSUME Accounts, NEW r \in Requests, Bound(r)
    PROVE  /\ \A p \in Requests : Bound(p)
           /\ UserOf(r) = BoundTenant(r) /\ UserOf(r) \in Users /\ BoundTenant(r) \in Tenants
<1>1. \A p \in Requests : caller[p].bound = NoTenant => caller[r].bound = NoTenant
  BY ServingAssumption DEF Accounts
<1> QED  BY <1>1 DEF Bound, BoundTenant, UserOf, Users, Tenants

(* The ledgers of the tenants, after a charge.                             *)
LEMMA ChargeAgrees ==
    ASSUME Accounts, NEW r \in Requests, caller' = caller,
           NEW amount \in Nat, NEW trifle \in BOOLEAN,
           ChargesPlan(r, amount, trifle), ChargesTenant(r, amount) \/ ChargesNoTenant(r, amount)
    PROVE  /\ {spent', library'} \subseteq [Users -> Int]
           /\ trifles' \in [Users -> Int]
           /\ trifles'[UserOf(r)] = trifles[UserOf(r)] + IF trifle THEN 1 ELSE 0
           /\ \A u \in Users : u # UserOf(r) => trifles'[u] = trifles[u]
           /\ OnePerTenant(daily)'
           /\ daily' # <<>> => \A p \in Requests : Bound(p)'
           /\ \A p \in Requests : Bound(p)' /\ BoundTenant(p)' \notin evicted' =>
                 Totals(daily', BoundTenant(p)') = spent'[BoundTenant(p)'] - library'[BoundTenant(p)']
<1>1. PICK mine : mine = UserOf(r) /\ mine \in Users
  BY DEF Users
<1>2. /\ spent \in [Users -> Int] /\ library \in [Users -> Int] /\ OnePerTenant(daily)
      /\ daily # <<>> => \A p \in Requests : Bound(p)
  BY DEF Accounts
<1>3. spent' \in [Users -> Int] /\ spent'[mine] = spent[mine] + amount
      /\ \A u \in Users : u # mine => spent'[u] = spent[u]
  BY <1>1, <1>2 DEF ChargesPlan
<1>3a. /\ trifles' \in [Users -> Int]
       /\ trifles'[UserOf(r)] = trifles[UserOf(r)] + IF trifle THEN 1 ELSE 0
       /\ \A u \in Users : u # UserOf(r) => trifles'[u] = trifles[u]
  <2>1. trifles \in [Users -> Int]
    BY DEF Accounts
  <2>2. CASE trifle
    <3>1. trifles' = [trifles EXCEPT ![mine] = trifles[mine] + 1]
      BY <1>1, <2>2 DEF ChargesPlan
    <3> QED  BY <1>1, <2>1, <2>2, <3>1
  <2>3. CASE ~trifle
    <3>1. trifles' = trifles
      BY <2>3 DEF ChargesPlan
    <3> QED  BY <1>1, <2>1, <2>3, <3>1
  <2> QED  BY <2>2, <2>3
<1>4. \A x : OnePerTenant(x) => (x = daily' => OnePerTenant(daily)')
  BY SameCallers DEF OnePerTenant
<1>5. \A p \in Requests : Bound(p) /\ BoundTenant(p) \notin evicted =>
          /\ BoundTenant(p) \in Users
          /\ Totals(daily, BoundTenant(p)) = spent[BoundTenant(p)] - library[BoundTenant(p)]
  BY AllBound DEF Accounts
<1>6. CASE ChargesTenant(r, amount) /\ Bound(r)
  <2>1. PICK t \in Tenants : t = BoundTenant(r) /\ t = mine
    BY <1>1, <1>6, AllBound
  <2>2. daily' = AddsDaily(t, amount) /\ evicted' = evicted \cup Victim(t) /\ library' = library
    BY <1>6, <2>1 DEF ChargesTenant
  <2>3. /\ OnePerTenant(daily')
        /\ t \notin Victim(t) => Totals(daily', t) = Totals(daily, t) + amount
        /\ \A x : x # t /\ x \notin Victim(t) => Totals(daily', x) = Totals(daily, x)
    BY <1>2, <2>2, AddingCharges
  <2>4. ASSUME NEW p \in Requests, Bound(p), BoundTenant(p) \notin evicted'
        PROVE  Totals(daily', BoundTenant(p)) = spent'[BoundTenant(p)] - library'[BoundTenant(p)]
    <3>1. PICK x : x = BoundTenant(p)
      OBVIOUS
    <3>2. /\ x \in Users /\ x \notin Victim(t)
          /\ Totals(daily, x) = spent[x] - library[x]
      BY <1>5, <2>2, <2>4, <3>1
    <3>3. spent[x] \in Int /\ library[x] \in Int /\ library'[x] = library[x]
      BY <1>2, <2>2, <3>2
    <3>4. CASE x = t
      <4>1. Totals(daily', x) = (spent[x] - library[x]) + amount /\ spent'[x] = spent[x] + amount
        BY <1>3, <2>1, <2>3, <3>2, <3>4
      <4> QED  BY <3>1, <3>3, <4>1
    <3>5. CASE x # t
      <4>1. Totals(daily', x) = spent[x] - library[x] /\ spent'[x] = spent[x]
        BY <1>3, <2>1, <2>3, <3>2, <3>5
      <4> QED  BY <3>1, <3>3, <4>1
    <3> QED  BY <3>4, <3>5
  <2>5. \A p \in Requests : Bound(p)
    BY <1>6, AllBound
  <2> QED  BY <1>3a, <1>2, <1>3, <1>4, <2>2, <2>3, <2>4, <2>5, SameCallers
<1>7. CASE ChargesTenant(r, amount) /\ ~Bound(r)
  <2>1. daily' = daily /\ evicted' = evicted /\ library' = library
    BY <1>7 DEF ChargesTenant
  <2>2. \A p \in Requests : ~Bound(p)
    BY <1>7, AllBound
  <2> QED  BY <1>3a, <1>2, <1>3, <1>4, <2>1, <2>2, SameCallers
<1>8. CASE ChargesNoTenant(r, amount)
  <2>1. /\ daily' = daily /\ evicted' = evicted
        /\ library' = [library EXCEPT ![mine] = library[mine] + amount]
    BY <1>1, <1>8 DEF ChargesNoTenant
  <2>2. library' \in [Users -> Int] /\ library'[mine] = library[mine] + amount
        /\ \A u \in Users : u # mine => library'[u] = library[u]
    BY <1>1, <1>2, <2>1
  <2>3. ASSUME NEW p \in Requests, Bound(p), BoundTenant(p) \notin evicted'
        PROVE  Totals(daily', BoundTenant(p)) = spent'[BoundTenant(p)] - library'[BoundTenant(p)]
    <3>1. PICK x : x = BoundTenant(p)
      OBVIOUS
    <3>2. x \in Users /\ Totals(daily', x) = spent[x] - library[x]
      BY <1>5, <2>1, <2>3, <3>1
    <3>3. spent[x] \in Int /\ library[x] \in Int
      BY <1>2, <3>2
    <3>4. CASE x = mine
      BY <1>3, <2>2, <3>1, <3>2, <3>3, <3>4
    <3>5. CASE x # mine
      BY <1>3, <2>2, <3>1, <3>2, <3>3, <3>5
    <3> QED  BY <3>4, <3>5
  <2> QED  BY <1>3a, <1>2, <1>3, <1>4, <2>1, <2>2, <2>3, SameCallers
<1> QED  BY <1>6, <1>7, <1>8

(* The bills of a user grow by the bill of the request, if it is theirs.   *)
LEMMA BillsGrow ==
    ASSUME Inv, Accounts, NEW r \in Requests, NEW q, Goes(r, q), RecordFits(q),
           NEW u \in Users
    PROVE  /\ SumOver(BillsOf(u), Requests) \in Int
           /\ SumOver(BillsOf(u)', Requests)
                = SumOver(BillsOf(u), Requests)
                  + IF UserOf(r) = u THEN q.billed - req[r].billed ELSE 0
<1>1. PICK v, w : v = BillsOf(u) /\ w = BillsOf(u)'
  OBVIOUS
<1>2. caller' = caller /\ req'[r] = q /\ \A p \in Requests \ {r} : req'[p] = req[p]
  BY OneGoes DEF Goes
<1>3. \A p \in Requests : req[p].billed \in Nat
  BY DEF Accounts, RecordFits, BillFits
<1>4. q.billed \in Nat
  BY DEF RecordFits, BillFits
<1>5. \A p \in Requests : v[p] = IF UserOf(p) = u THEN req[p].billed ELSE 0
  BY <1>1 DEF BillsOf
<1>6. \A p \in Requests : w[p] = IF UserOf(p) = u THEN req'[p].billed ELSE 0
  <2>1. \A p : UserOf(p)' = UserOf(p)
    BY <1>2, SameCallers
  <2> QED  BY <1>1, <2>1 DEF BillsOf
<1>7. /\ \A p \in Requests : v[p] \in Int /\ w[p] \in Int
      /\ \A p \in Requests \ {r} : v[p] = w[p]
  BY <1>2, <1>3, <1>4, <1>5, <1>6
<1>8. IsFiniteSet(Requests)
  BY ServingAssumption
<1>9. SumOver(w, Requests) = SumOver(v, Requests) - v[r] + w[r] /\ SumOver(v, Requests) \in Int
  <2>1. \A p \in Requests : v[p] \in Int /\ w[p] \in Int
    BY <1>7
  <2>2. \A p \in Requests \ {r} : v[p] = w[p]
    BY <1>7
  <2>3. SumOver(w, Requests) = SumOver(v, Requests) - v[r] + w[r]
    BY <1>8, <2>1, <2>2, SumChanges
  <2>4. \A p \in Requests : v[p] \in Int
    BY <2>1
  <2>5. SumOver(v, Requests) \in Int
    BY <1>8, <2>4, SumInt
  <2> QED  BY <2>3, <2>5
<1>10. PICK a, b, s : a = req[r].billed /\ b = q.billed /\ s = SumOver(v, Requests)
  OBVIOUS
<1>11. a \in Nat /\ b \in Nat /\ s \in Int
  BY <1>3, <1>4, <1>9, <1>10
<1>12. v[r] = (IF UserOf(r) = u THEN a ELSE 0) /\ w[r] = (IF UserOf(r) = u THEN b ELSE 0)
  BY <1>2, <1>5, <1>6, <1>10
<1>13. SumOver(w, Requests) = s + IF UserOf(r) = u THEN b - a ELSE 0
  <2>1. CASE UserOf(r) = u
    BY <1>9, <1>10, <1>11, <1>12, <2>1
  <2>2. CASE UserOf(r) # u
    BY <1>9, <1>10, <1>11, <1>12, <2>2
  <2> QED  BY <2>1, <2>2
<1> QED  BY <1>1, <1>10, <1>11, <1>13

(* A request that changes, charged or not, keeps the accounts when its own *)
(* record fits and the charge is one of the three known.                   *)
LEMMA SettlesOK ==
    ASSUME Inv, Accounts, NEW r \in Requests, NEW q, Goes(r, q), Settles(r, q)
    PROVE  Accounts'
<1>1. /\ caller' = caller /\ RecordFits(q)
      /\ req' = [p \in Requests |-> req'[p]] /\ req'[r] = q
      /\ \A p \in Requests \ {r} : req'[p] = req[p]
  BY OneGoes DEF Goes, Settles
<1>2. \A p \in Requests : RecordFits(req'[p])
  BY <1>1 DEF Accounts
<1>3. \A p \in Requests : RecordFits(req[p])'
  BY <1>1, <1>2 DEF RecordFits, BillFits, CallFits
<1>4. /\ spent \in [Users -> Int] /\ library \in [Users -> Int] /\ OnePerTenant(daily)
      /\ daily # <<>> => \A p \in Requests : Bound(p)
  BY DEF Accounts
<1>5. /\ {spent', library', trifles'} \subseteq [Users -> Int]
      /\ OnePerTenant(daily)'
      /\ daily' # <<>> => \A p \in Requests : Bound(p)'
      /\ \A p \in Requests : Bound(p)' /\ BoundTenant(p)' \notin evicted' =>
            Totals(daily', BoundTenant(p)') = spent'[BoundTenant(p)'] - library'[BoundTenant(p)']
  <2>1. CASE OneCharge(r, q)
    <3>1. PICK amount \in Nat, trifle \in BOOLEAN :
             ChargesPlan(r, amount, trifle) /\ (ChargesTenant(r, amount) \/ ChargesNoTenant(r, amount))
      BY <2>1 DEF OneCharge
    <3> QED  BY <1>1, <3>1, ChargeAgrees
  <2>2. CASE NoCharge(r, q)
    <3>1. UNCHANGED <<spent, trifles, library, evicted>>
      BY <2>2 DEF NoCharge
    <3>2. /\ OnePerTenant(daily') /\ \A x : Totals(daily', x) = Totals(daily, x)
          /\ daily = <<>> => daily' = <<>>
      BY <1>4, <2>2, ReadingKeeps DEF NoCharge
    <3>3. OnePerTenant(daily)'
      BY <1>1, <3>2, SameCallers DEF OnePerTenant
    <3>4. trifles' \in [Users -> Int]
      BY <3>1 DEF Accounts
    <3> QED  BY <1>1, <1>4, <3>1, <3>2, <3>3, <3>4, SameCallers DEF Accounts
  <2> QED  BY <2>1, <2>2 DEF Settles
<1>6. ASSUME NoFreeModel, NEW u \in Users
      PROVE  SumOver(BillsOf(u)', Requests) <= spent'[u] + trifles'[u]
  <2>1. PICK s, x : s = SumOver(BillsOf(u), Requests) /\ x = SumOver(BillsOf(u)', Requests)
    OBVIOUS
  <2>2. /\ s \in Int
        /\ x = s + IF UserOf(r) = u THEN q.billed - req[r].billed ELSE 0
    BY <1>1, <2>1, BillsGrow
  <2>3. s <= spent[u] + trifles[u] /\ spent[u] \in Int /\ trifles[u] \in Int
    BY <1>4, <1>6, <2>1 DEF Accounts
  <2>4. PICK b : b = req[r].billed /\ b \in Nat
    BY DEF Accounts, RecordFits, BillFits
  <2>5. CASE NoCharge(r, q)
    <3>1. spent' = spent /\ trifles' = trifles /\ q.billed = b
      BY <2>4, <2>5 DEF NoCharge
    <3>2. x = s
      BY <2>2, <2>4, <3>1
    <3> QED  BY <2>1, <2>3, <3>1, <3>2
  <2>6. CASE OneCharge(r, q)
    <3>1. PICK amount \in Nat, trifle \in BOOLEAN :
             /\ amount >= 1 \/ trifle
             /\ ChargesPlan(r, amount, trifle)
             /\ ChargesTenant(r, amount) \/ ChargesNoTenant(r, amount)
      BY <1>6, <2>6 DEF OneCharge
    <3>5. /\ trifles'[UserOf(r)] = trifles[UserOf(r)] + IF trifle THEN 1 ELSE 0
          /\ \A v \in Users : v # UserOf(r) => trifles'[v] = trifles[v]
      BY <1>1, <3>1, ChargeAgrees
    <3>2. q.billed = b + 1
      BY <2>4, <2>6 DEF OneCharge
    <3>3. CASE UserOf(r) = u
      <4>1. spent'[u] = spent[u] + amount
        BY <1>4, <3>1, <3>3 DEF ChargesPlan
      <4>2. x = s + 1
        BY <2>2, <2>4, <3>2, <3>3
      <4>3. trifles'[u] = trifles[u] + IF trifle THEN 1 ELSE 0
        BY <3>3, <3>5
      <4> QED  BY <2>1, <2>2, <2>3, <3>1, <4>1, <4>2, <4>3
    <3>4. CASE UserOf(r) # u
      <4>1. spent'[u] = spent[u]
        BY <1>4, <3>1, <3>4 DEF ChargesPlan
      <4>2. x = s
        BY <2>2, <3>4
      <4>3. trifles'[u] = trifles[u]
        BY <3>4, <3>5
      <4> QED  BY <2>1, <2>3, <4>1, <4>2, <4>3
    <3> QED  BY <3>3, <3>4
  <2> QED  BY <2>5, <2>6 DEF Settles
<1>7. caller' \in Callers /\ Users' = Users
  BY <1>1, SameCallers DEF Accounts
<1>8. NoFreeModel => \A u \in Users : SumOver(BillsOf(u), Requests)' <= spent'[u] + trifles'[u]
  <2>1. \A u : SumOver(BillsOf(u), Requests)' = SumOver(BillsOf(u)', Requests)
    OBVIOUS
  <2> QED  BY <1>6, <2>1
<1> QED  BY <1>3, <1>5, <1>7, <1>8 DEF Accounts
-----------------------------------------------------------------------------
(* What each step writes down.                                             *)

(* Rounding gives a natural number, and none for half the smallest amount  *)
(* or less only.                                                           *)
LEMMA RoundedIs ==
    ASSUME NEW x \in Nat
    PROVE  Rounded(x) \in Nat /\ (2 * x <= Grain \/ Rounded(x) >= 1)
<1>1. PICK g \in Nat \ {0} : g = Grain
  BY AccountsAssumption
<1>2. x \div g \in Nat /\ x % g \in Nat /\ x = g * (x \div g) + (x % g)
  OBVIOUS
<1>3. PICK w \in Nat, k \in Nat : w = x \div g /\ k = x % g
  BY <1>2
<1>4. x = g * w + k
  BY <1>2, <1>3
<1>5. Rounded(x) = IF 2 * k > g \/ (2 * k = g /\ w % 2 = 1) THEN w + 1 ELSE w
  BY <1>1, <1>3 DEF Rounded
<1>6. CASE w = 0
  <2>1. x = k
    BY <1>4, <1>6
  <2> QED  BY <1>1, <1>5, <1>6, <2>1
<1>7. CASE w >= 1
  BY <1>5, <1>7
<1> QED  BY <1>6, <1>7

(* A call of a model costs a natural number, and something if no model is  *)
(* free and its usage is not negligible.                                   *)
LEMMA BillIs ==
    ASSUME NEW m \in Models, NEW report \in Reports
    PROVE  /\ Bill(m, report) \in Nat /\ Negligible(m, report) \in BOOLEAN
           /\ NoFreeModel => Bill(m, report) >= 1 \/ Negligible(m, report)
<1>1. Cost[m] \in Nat /\ (NoFreeModel => Cost[m] >= 1)
  BY ServingAssumption DEF NoFreeModel
<1>2. CASE ~Reported(report)
  BY <1>1, <1>2 DEF Bill, Negligible
<1>3. CASE Reported(report)
  <2>1. PICK i, o : i = report.in /\ o = report.out
    OBVIOUS
  <2>2. i \in Nat \ {0} /\ o \in Nat \ {0}
    BY <1>3, <2>1, AccountsAssumption DEF Reported, Trusted
  <2>3. PICK pi \in Nat, po \in Nat : pi = Price[m].in /\ po = Price[m].out
    BY AccountsAssumption
  <2>4. i * pi \in Nat /\ o * po \in Nat
    BY <2>2
  <2>5. PICK x \in Nat : x = Used(m, report)
    BY <2>1, <2>3, <2>4 DEF Used
  <2>6. Bill(m, report) = Rounded(x)
    BY <1>3, <2>5 DEF Bill, ActualCost
  <2>7. Negligible(m, report) <=> 2 * x <= Grain
    BY <2>1, <2>2, <2>5 DEF Negligible
  <2>8. Negligible(m, report) \in BOOLEAN
    BY DEF Negligible
  <2> QED  BY <2>6, <2>7, <2>8, RoundedIs
<1> QED  BY <1>2, <1>3

(* The fields of a request that ends.                                      *)
LEMMA EndsFields ==
    ASSUME NEW r \in Requests, RecordFits(req[r]), NEW how
    PROVE  /\ AllFields \subseteq DOMAIN Ends(r, how)
           /\ Ends(r, how).phase = "ended" /\ Ends(r, how).how = how
           /\ Ends(r, how).kind = req[r].kind /\ Ends(r, how).billed = req[r].billed
           /\ Ends(r, how).told = req[r].told
<1>1. AllFields \subseteq DOMAIN req[r]
  BY DEF RecordFits
<1> QED  BY <1>1 DEF Ends, AllFields

(* A record that ends may be told of once more, and billed once more.      *)
Noted(e, told, billed) == [[e EXCEPT !.told = told] EXCEPT !.billed = billed]

(* Noting that the breaker heard, or a bill, changes no other field.       *)
LEMMA NotedFields ==
    ASSUME NEW e, AllFields \subseteq DOMAIN e, NEW a, NEW b
    PROVE  /\ \A x \in {Noted(e, a, b), [e EXCEPT !.told = a, !.billed = b],
                        [e EXCEPT !.billed = b, !.told = a]} :
                /\ AllFields \subseteq DOMAIN x /\ x.phase = e.phase /\ x.how = e.how
                /\ x.kind = e.kind /\ x.told = a /\ x.billed = b
                /\ x.queue = e.queue /\ x.decision = e.decision
           /\ \A x \in {[e EXCEPT !.told = a]} :
                /\ AllFields \subseteq DOMAIN x /\ x.phase = e.phase /\ x.how = e.how
                /\ x.kind = e.kind /\ x.told = a /\ x.billed = e.billed
                /\ x.queue = e.queue /\ x.decision = e.decision
           /\ \A x \in {[e EXCEPT !.billed = b]} :
                /\ AllFields \subseteq DOMAIN x /\ x.phase = e.phase /\ x.how = e.how
                /\ x.kind = e.kind /\ x.told = e.told /\ x.billed = b
                /\ x.queue = e.queue /\ x.decision = e.decision
           /\ \A x \in {[e EXCEPT !.kind = a]} :
                /\ AllFields \subseteq DOMAIN x /\ x.phase = e.phase /\ x.how = e.how
                /\ x.kind = a /\ x.told = e.told /\ x.billed = e.billed
  BY DEF AllFields, Noted

(* A record that has ended needs no model any more.                        *)
LEMMA EndedFits ==
    ASSUME NEW q, AllFields \subseteq DOMAIN q, q.phase = "ended", BillFits(q)
    PROVE  RecordFits(q)
  BY DEF RecordFits, CallFits

(* A request at work that ends unbilled, in any way but with an answer.    *)
LEMMA EndsUnbilled ==
    ASSUME Inv, Accounts, NEW r \in Requests, NEW q, Goes(r, q),
           AllFields \subseteq DOMAIN q, q.phase = "ended", q.how \notin {"answered", "left"},
           q.billed = 0, q.told \in Nat, req[r].billed = 0,
           UNCHANGED <<spent, trifles, library, evicted>>,
           daily' = daily \/ (Bound(r) /\ daily' = ReadsDaily(BoundTenant(r)))
    PROVE  Accounts'
<1>1. BillFits(q)
  BY DEF BillFits, Working
<1>2. Settles(r, q)
  BY <1>1, EndedFits DEF Settles, NoCharge
<1> QED  BY <1>2, SettlesOK

(* A request at work goes on, knowing what it calls.                       *)
LEMMA GoesUnbilled ==
    ASSUME Inv, Accounts, NEW r \in Requests, NEW q, Goes(r, q),
           AllFields \subseteq DOMAIN q, CallFits(q),
           q.phase \in Working \cup {"dispatching"},
           q.billed = 0, q.told \in Nat, req[r].billed = 0,
           UNCHANGED <<spent, trifles, library, evicted>>,
           daily' = daily \/ (Bound(r) /\ daily' = ReadsDaily(BoundTenant(r)))
    PROVE  Accounts'
<1>1. BillFits(q)
  BY DEF BillFits, Working
<1>2. Settles(r, q)
  BY <1>1 DEF Settles, NoCharge, RecordFits
<1> QED  BY <1>2, SettlesOK

(* Routing a request reads the daily ledger and charges nobody.            *)
LEMMA AdmitPays ==
    ASSUME Inv, Accounts, NEW r \in Requests, Admit(r)
    PROVE  Accounts'
<1>1. PICK kind \in Kinds[r] :
        \/ Misnamed(r, kind) \/ TurnedAway(r, kind) \/ Invalid(r, kind) \/ Refused(r, kind)
        \/ RoutingRaises(r, kind)
        \/ \E d \in Decisions : Routed(r, kind, d)
  BY DEF Admit
<1>2. /\ req[r].phase = "new" /\ UNCHANGED <<spent, trifles, library, evicted>>
      /\ daily' = daily \/ (Bound(r) /\ daily' = ReadsDaily(BoundTenant(r)))
  <2>1. CASE Misnamed(r, kind)
    BY <2>1 DEF Misnamed, At, ledgers
  <2>2. CASE TurnedAway(r, kind)
    BY <2>2 DEF TurnedAway, At, Looks
  <2>3. CASE \/ Invalid(r, kind) \/ Refused(r, kind) \/ RoutingRaises(r, kind)
             \/ \E d \in Decisions : Routed(r, kind, d)
    <3>1. LetIn(r, kind)
      BY <2>3 DEF Invalid, Refused, RoutingRaises, Routed
    <3> QED  BY <3>1 DEF LetIn, At, Looks
  <2> QED  BY <1>1, <2>1, <2>2, <2>3
<1>3. RecordFits(req[r]) /\ req[r].billed = 0 /\ req[r].told \in Nat
  BY <1>2 DEF Accounts, RecordFits, BillFits
<1> DEFINE Out(how) == [Ends(r, how) EXCEPT !.kind = kind]
<1>4. \A how : /\ AllFields \subseteq DOMAIN Out(how) /\ Out(how).phase = "ended"
               /\ Out(how).how = how /\ Out(how).billed = 0 /\ Out(how).told \in Nat
  <2>1. ASSUME NEW how
        PROVE  /\ AllFields \subseteq DOMAIN Out(how) /\ Out(how).phase = "ended"
               /\ Out(how).how = how /\ Out(how).billed = 0 /\ Out(how).told \in Nat
    <3>1. PICK e : e = Ends(r, how)
      OBVIOUS
    <3>2. /\ AllFields \subseteq DOMAIN e /\ e.phase = "ended" /\ e.how = how
          /\ e.billed = 0 /\ e.told \in Nat
      BY <1>3, <3>1, EndsFields
    <3> QED  BY <3>1, <3>2, NotedFields
  <2> QED  BY <2>1
<1> HIDE DEF Out
<1>5. ASSUME NEW how, how \notin {"answered", "left"}, Goes(r, Out(how)) PROVE Accounts'
  BY <1>2, <1>3, <1>4, <1>5, EndsUnbilled
<1>6. CASE \/ Misnamed(r, kind) \/ TurnedAway(r, kind) \/ Invalid(r, kind) \/ Refused(r, kind)
           \/ RoutingRaises(r, kind)
  BY <1>5, <1>6 DEF Misnamed, TurnedAway, Invalid, Refused, RoutingRaises, Out
<1>7. ASSUME NEW d \in Decisions, Routed(r, kind, d) PROVE Accounts'
  <2> DEFINE q == [req[r] EXCEPT !.kind = kind, !.decision = d, !.phase = Led(kind, d),
                                 !.queue = <<d.chosen>>, !.seen = {d.chosen}]
  <2>1. \/ Goes(r, Out("no model"))
        \/ Goes(r, Out("early"))
        \/ (Goes(r, q) /\ d.chosen # NoModel)
        \/ (Goes(r, q) /\ kind = "proxy" /\ ~d.early)
    BY <1>7 DEF Routed, Out
  <2>2. CASE Goes(r, Out("no model")) \/ Goes(r, Out("early"))
    BY <1>5, <2>2
  <2>3. CASE Goes(r, q) /\ (d.chosen # NoModel \/ (kind = "proxy" /\ ~d.early))
    <3>1. d.chosen \in Models
      BY <2>3, ServingAssumption, AccountsAssumption
    <3>2. /\ AllFields \subseteq DOMAIN q /\ q.phase = Led(kind, d) /\ q.billed = req[r].billed
          /\ q.told = req[r].told /\ q.decision = d /\ q.queue = <<d.chosen>>
      BY <1>3 DEF RecordFits, AllFields
    <3>3. Led(kind, d) \in {"ready", "dispatching", "choosing"}
      BY DEF Led
    <3> HIDE DEF q
    <3>4. q.queue \in Seq(Models) /\ q.queue # <<>>
      BY <3>1, <3>2
    <3>5. CallFits(q)
      BY <3>2, <3>4 DEF CallFits
    <3>6. q.phase \in Working \cup {"dispatching"}
      BY <3>2, <3>3 DEF Working
    <3> QED  BY <1>2, <1>3, <2>3, <3>2, <3>5, <3>6, GoesUnbilled
  <2> QED  BY <2>1, <2>2, <2>3
<1> QED  BY <1>1, <1>6, <1>7

(* What is known of a request that streams or calls.                       *)
LEMMA AtWork ==
    ASSUME Accounts, NEW r \in Requests,
           req[r].phase \in {"ready", "opening", "asking", "calling"}
    PROVE  /\ RecordFits(req[r]) /\ req[r].billed = 0 /\ req[r].told \in Nat
           /\ req[r].queue \in Seq(Models) /\ req[r].queue # <<>> /\ Model(r) \in Models
           /\ req[r].phase \in Working
<1>1. /\ RecordFits(req[r]) /\ req[r].billed = 0 /\ req[r].told \in Nat
      /\ req[r].queue \in Seq(Models) /\ req[r].queue # <<>>
      /\ req[r].phase \in Working
  BY DEF Accounts, RecordFits, BillFits, CallFits, Working
<1>2. PICK s \in Seq(Models) : s = req[r].queue /\ s # <<>>
  BY <1>1
<1>3. Head(s) \in Models
  BY <1>2
<1> QED  BY <1>1, <1>2, <1>3 DEF Model

(* An answer, or a client that left, is billed.                            *)
LEMMA EndsBilled ==
    ASSUME Inv, Accounts, NEW r \in Requests, NEW q, Goes(r, q),
           AllFields \subseteq DOMAIN q, q.phase = "ended", q.how \in {"answered", "left"},
           q.billed = req[r].billed + 1, q.told \in Nat, q.how = "answered" => q.told >= 1,
           q.kind = req[r].kind,
           req[r].billed = 0 \/ (req[r].billed = 1 /\ req[r].kind = "twice"),
           NEW amount \in Nat, NEW trifle \in BOOLEAN, NoFreeModel => amount >= 1 \/ trifle,
           ChargesPlan(r, amount, trifle), ChargesTenant(r, amount) \/ ChargesNoTenant(r, amount)
    PROVE  Accounts'
<1>1. BillFits(q)
  <2>1. q.billed \in {1, 2} /\ (q.kind # "twice" => q.billed = 1)
    OBVIOUS
  <2>3. q.phase \notin Working \cup {"new"} /\ q.phase # "dispatching"
    BY DEF Working
  <2>4. PICK b \in {1, 2} : b = q.billed /\ (q.kind # "twice" => b = 1)
    BY <2>1
  <2>5. b \in Nat /\ b <= 2
    BY <2>4
  <2>6. q.billed \in Nat /\ (q.kind # "twice" => q.billed = 1) /\ q.billed <= 2
    BY <2>4, <2>5
  <2> QED  BY <2>3, <2>6 DEF BillFits
<1>2. OneCharge(r, q)
  BY DEF OneCharge
<1>3. Settles(r, q)
  BY <1>1, <1>2, EndedFits DEF Settles
<1> QED  BY <1>3, SettlesOK

(* A stream's usage is recorded with a charge, unless its reservation was  *)
(* swept.                                                                  *)
LEMMA UsagePays ==
    ASSUME Inv, Accounts, NEW r \in Requests, NEW amount \in Nat, NEW trifle \in BOOLEAN,
           NEW ended, RecordUsage(r, amount, trifle, ended),
           NoFreeModel => amount >= 1 \/ trifle,
           RecordFits(req[r]), req[r].billed = 0, req[r].told \in Nat,
           AllFields \subseteq DOMAIN ended, ended.phase = "ended",
           ended.how \in {"answered", "left"}, ended.how = "answered" => ended.told >= 1,
           ended.told \in Nat, ended.billed = 0, ended.kind = req[r].kind
    PROVE  Accounts'
<1>1. CASE req[r].swept
  <2>1. Goes(r, Ends(r, "swept")) /\ UNCHANGED ledgers
    BY <1>1 DEF RecordUsage
  <2>2. PICK e : e = Ends(r, "swept")
    OBVIOUS
  <2>3. /\ AllFields \subseteq DOMAIN e /\ e.phase = "ended" /\ e.how = "swept"
        /\ e.billed = 0 /\ e.told \in Nat
    BY <2>2, EndsFields
  <2>4. UNCHANGED <<spent, trifles, library, evicted>> /\ daily' = daily
    BY <2>1 DEF ledgers
  <2>5. e.how \notin {"answered", "left"}
    BY <2>3
  <2> QED  BY <2>1, <2>2, <2>3, <2>4, <2>5, EndsUnbilled
<1>2. CASE ~req[r].swept
  <2>1. /\ Goes(r, [ended EXCEPT !.billed = @ + 1])
        /\ ChargesPlan(r, amount, trifle) /\ ChargesTenant(r, amount)
    BY <1>2 DEF RecordUsage
  <2>2. PICK q : q = [ended EXCEPT !.billed = 1]
    OBVIOUS
  <2>3. q = [ended EXCEPT !.billed = @ + 1]
    BY <2>2
  <2>4. /\ AllFields \subseteq DOMAIN q /\ q.phase = "ended" /\ q.how = ended.how
        /\ q.kind = ended.kind /\ q.told = ended.told /\ q.billed = 1
    BY <2>2, NotedFields
  <2>5. Goes(r, q) /\ q.billed = req[r].billed + 1
    BY <2>1, <2>3, <2>4
  <2> QED  BY <2>1, <2>4, <2>5, EndsBilled
<1> QED  BY <1>1, <1>2

(* A stream is billed where it ends or where its client leaves it, and     *)
(* nowhere else.                                                           *)
LEMMA StreamPays ==
    ASSUME Inv, Accounts, NEW r \in Requests, Stream(r)
    PROVE  Accounts'
<1>1. req[r].phase \in {"ready", "opening", "asking"}
  BY DEF Stream, NeverStarts, Start, Opened, StreamFails, Leaves, StreamEnds, Captures, At
<1>2. /\ RecordFits(req[r]) /\ req[r].billed = 0 /\ req[r].told \in Nat
      /\ req[r].queue \in Seq(Models) /\ req[r].queue # <<>> /\ Model(r) \in Models
      /\ AllFields \subseteq DOMAIN req[r]
  BY <1>1, AtWork DEF RecordFits
<1>3. ASSUME NEW how, how \notin {"answered", "left"}, Goes(r, Ends(r, how)), UNCHANGED ledgers
      PROVE  Accounts'
  <2>1. PICK e : e = Ends(r, how)
    OBVIOUS
  <2>2. /\ AllFields \subseteq DOMAIN e /\ e.phase = "ended" /\ e.how = how
        /\ e.billed = 0 /\ e.told \in Nat
    BY <1>2, <2>1, EndsFields
  <2>3. UNCHANGED <<spent, trifles, library, evicted>> /\ daily' = daily
    BY <1>3 DEF ledgers
  <2> QED  BY <1>2, <1>3, <2>1, <2>2, <2>3, EndsUnbilled
<1>4. ASSUME NEW q, Goes(r, q), UNCHANGED ledgers, AllFields \subseteq DOMAIN q,
             q.phase \in {"ready", "opening", "asking"}, q.queue = req[r].queue,
             q.billed = 0, q.told \in Nat
      PROVE  Accounts'
  <2>1. CallFits(q) /\ q.phase \in Working \cup {"dispatching"}
    BY <1>2, <1>4 DEF CallFits, Working
  <2>2. UNCHANGED <<spent, trifles, library, evicted>> /\ daily' = daily
    BY <1>4 DEF ledgers
  <2> QED  BY <1>2, <1>4, <2>1, <2>2, GoesUnbilled
<1>5. CASE NeverStarts(r)
  BY <1>3, <1>5 DEF NeverStarts
<1>6. CASE Start(r)
  <2> DEFINE q == [req[r] EXCEPT !.phase = IF Model(r) \in Native THEN "opening" ELSE "asking",
                                 !.reserved = Cost[Model(r)]]
  <2>1. UNCHANGED ledgers /\ (Goes(r, q) \/ Goes(r, Ends(r, "over budget")))
    BY <1>6 DEF Start
  <2>2. /\ AllFields \subseteq DOMAIN q /\ q.phase \in {"opening", "asking"}
        /\ q.queue = req[r].queue /\ q.billed = req[r].billed /\ q.told = req[r].told
    BY <1>2 DEF AllFields
  <2> HIDE DEF q
  <2> QED  BY <1>2, <1>3, <1>4, <2>1, <2>2
<1>7. CASE Opened(r)
  <2> DEFINE q == [req[r] EXCEPT !.phase = "asking"]
  <2>1. UNCHANGED ledgers /\ Goes(r, q)
    BY <1>7 DEF Opened
  <2>2. /\ AllFields \subseteq DOMAIN q /\ q.phase = "asking"
        /\ q.queue = req[r].queue /\ q.billed = req[r].billed /\ q.told = req[r].told
    BY <1>2 DEF AllFields
  <2> HIDE DEF q
  <2> QED  BY <1>2, <1>4, <2>1, <2>2
<1>8. ASSUME NEW report \in Reports, Captures(r, report) PROVE Accounts'
  <2> DEFINE q == [req[r] EXCEPT !.report = report]
  <2>1. UNCHANGED ledgers /\ Goes(r, q)
    BY <1>8 DEF Captures
  <2>2. /\ AllFields \subseteq DOMAIN q /\ q.phase = req[r].phase
        /\ q.queue = req[r].queue /\ q.billed = req[r].billed /\ q.told = req[r].told
    BY <1>2 DEF AllFields
  <2> HIDE DEF q
  <2> QED  BY <1>1, <1>2, <1>4, <2>1, <2>2
<1>9. ASSUME NEW report \in Reports, StreamEnds(r, report) PROVE Accounts'
  <2>1. PICK e : e = Ends(r, "answered")
    OBVIOUS
  <2>2. PICK q : q = [e EXCEPT !.told = e.told + 1]
    OBVIOUS
  <2>3. PICK amount, trifle : amount = Bill(Model(r), report) /\ trifle = Negligible(Model(r), report)
    OBVIOUS
  <2>4. RecordUsage(r, amount, trifle, q)
    BY <1>9, <2>1, <2>2, <2>3 DEF StreamEnds
  <2>5. amount \in Nat /\ trifle \in BOOLEAN /\ (NoFreeModel => amount >= 1 \/ trifle)
    BY <1>2, <1>9, <2>3, BillIs
  <2>6. /\ AllFields \subseteq DOMAIN e /\ e.phase = "ended" /\ e.how = "answered"
        /\ e.kind = req[r].kind /\ e.billed = 0 /\ e.told = req[r].told
    BY <1>2, <2>1, EndsFields
  <2>7. /\ AllFields \subseteq DOMAIN q /\ q.phase = "ended" /\ q.how = "answered"
        /\ q.kind = req[r].kind /\ q.billed = 0 /\ q.told = req[r].told + 1
    BY <2>2, <2>6, NotedFields
  <2>8. q.told \in Nat /\ q.told >= 1
    BY <1>2, <2>7
  <2> QED  BY <1>2, <2>4, <2>5, <2>7, <2>8, UsagePays
<1>10. CASE StreamFails(r)
  <2>1. PICK e : e = Ends(r, "failed")
    OBVIOUS
  <2>2. PICK q : q = [e EXCEPT !.told = e.told + 1]
    OBVIOUS
  <2>3. Goes(r, q) /\ UNCHANGED ledgers
    BY <1>10, <2>1, <2>2 DEF StreamFails
  <2>4. /\ AllFields \subseteq DOMAIN e /\ e.phase = "ended" /\ e.how = "failed"
        /\ e.billed = 0 /\ e.told = req[r].told
    BY <1>2, <2>1, EndsFields
  <2>5. /\ AllFields \subseteq DOMAIN q /\ q.phase = "ended" /\ q.how = "failed"
        /\ q.billed = 0 /\ q.told = req[r].told + 1
    BY <2>2, <2>4, NotedFields
  <2>6. q.told \in Nat /\ q.how \notin {"answered", "left"}
    BY <1>2, <2>5
  <2>7. UNCHANGED <<spent, trifles, library, evicted>> /\ daily' = daily
    BY <2>3 DEF ledgers
  <2> QED  BY <1>2, <2>3, <2>5, <2>6, <2>7, EndsUnbilled
<1>11. CASE Leaves(r)
  <2>1. PICK e : e = Ends(r, "left")
    OBVIOUS
  <2>2. PICK amount : amount = Cost[Model(r)]
    OBVIOUS
  <2>3. RecordUsage(r, amount, FALSE, e)
    BY <1>11, <2>1, <2>2 DEF Leaves
  <2>4. amount \in Nat /\ (NoFreeModel => amount >= 1)
    BY <1>2, <2>2, ServingAssumption DEF NoFreeModel
  <2>5. /\ AllFields \subseteq DOMAIN e /\ e.phase = "ended" /\ e.how = "left"
        /\ e.kind = req[r].kind /\ e.billed = 0 /\ e.told = req[r].told
    BY <1>2, <2>1, EndsFields
  <2>6. e.told \in Nat /\ e.how \in {"answered", "left"} /\ e.how # "answered"
    BY <1>2, <2>5
  <2> QED  BY <1>2, <2>3, <2>4, <2>5, <2>6, UsagePays
<1> QED  BY <1>5, <1>6, <1>7, <1>8, <1>9, <1>10, <1>11 DEF Stream

(* The record a proxy call leaves: ended, or to be dispatched once more.   *)
LEMMA DoneFields ==
    ASSUME NEW r \in Requests, RecordFits(req[r]), NEW how
    PROVE  LET e == ProxyDone(r, how)
           IN  /\ AllFields \subseteq DOMAIN e /\ e.kind = req[r].kind /\ e.how = how
               /\ e.billed = req[r].billed /\ e.told = req[r].told
               /\ e.phase = IF req[r].kind = "twice" THEN "dispatching" ELSE "ended"
<1>1. AllFields \subseteq DOMAIN req[r]
  BY DEF RecordFits
<1>2. CASE req[r].kind = "twice"
  <2>1. PICK e : e = [req[r] EXCEPT !.phase = "dispatching", !.reserved = 0, !.how = how]
    OBVIOUS
  <2>2. e = ProxyDone(r, how)
    BY <1>2, <2>1 DEF ProxyDone
  <2>3. /\ AllFields \subseteq DOMAIN e /\ e.kind = req[r].kind /\ e.how = how
        /\ e.billed = req[r].billed /\ e.told = req[r].told /\ e.phase = "dispatching"
    BY <1>1, <2>1 DEF AllFields
  <2> QED  BY <1>2, <2>2, <2>3
<1>3. CASE req[r].kind # "twice"
  <2>1. ProxyDone(r, how) = Ends(r, how)
    BY <1>3 DEF ProxyDone
  <2> QED  BY <1>3, <2>1, EndsFields
<1> QED  BY <1>2, <1>3

(* A proxy call that came to nothing bills nothing.                        *)
LEMMA DoneUnbilled ==
    ASSUME Inv, Accounts, NEW r \in Requests, NEW q, Goes(r, q), UNCHANGED ledgers,
           AllFields \subseteq DOMAIN q,
           q.phase = IF req[r].kind = "twice" THEN "dispatching" ELSE "ended",
           q.how \notin {"answered", "left"}, q.billed = 0, q.told \in Nat, req[r].billed = 0
    PROVE  Accounts'
<1>1. UNCHANGED <<spent, trifles, library, evicted>> /\ daily' = daily
  BY DEF ledgers
<1>2. CASE req[r].kind = "twice"
  <2>1. q.phase = "dispatching" /\ q.phase \in Working \cup {"dispatching"}
    BY <1>2
  <2>2. CallFits(q)
    BY <2>1 DEF CallFits
  <2> QED  BY <1>1, <2>1, <2>2, GoesUnbilled
<1>3. CASE req[r].kind # "twice"
  <2>1. q.phase = "ended"
    BY <1>3
  <2> QED  BY <1>1, <2>1, EndsUnbilled
<1> QED  BY <1>2, <1>3

(* The buffered loop bills the answer it returns and none of the tries     *)
(* that failed.                                                            *)
LEMMA ProxyPays ==
    ASSUME Inv, Accounts, NEW r \in Requests, Proxy(r)
    PROVE  Accounts'
<1>1. req[r].phase \in {"choosing", "calling"}
  BY DEF Proxy, ProxyCalls, ProxyGivesUp, ProxyCancelled, ProxyBreaks, ProxyAnswers, ProxyFails, At
<1>2. /\ RecordFits(req[r]) /\ req[r].billed = 0 /\ req[r].told \in Nat
      /\ req[r].queue \in Seq(Models) /\ req[r].decision \in Decisions
      /\ AllFields \subseteq DOMAIN req[r]
  BY <1>1 DEF Accounts, RecordFits, BillFits, CallFits, Working
<1>3. ASSUME NEW q, Goes(r, q), UNCHANGED ledgers, AllFields \subseteq DOMAIN q,
             q.phase \in {"choosing", "calling"}, q.queue \in Seq(Models),
             q.phase = "calling" => q.queue # <<>>, q.decision = req[r].decision,
             q.billed = 0, q.told \in Nat
      PROVE  Accounts'
  <2>1. CallFits(q) /\ q.phase \in Working \cup {"dispatching"}
    BY <1>2, <1>3 DEF CallFits, Working
  <2>2. UNCHANGED <<spent, trifles, library, evicted>> /\ daily' = daily
    BY <1>3 DEF ledgers
  <2> QED  BY <1>2, <1>3, <2>1, <2>2, GoesUnbilled
<1>4. CASE ProxyCalls(r)
  <2>1. PICK s \in Seq(Models) : s = req[r].queue /\ s # <<>>
    BY <1>2, <1>4 DEF ProxyCalls
  <2> DEFINE asks == [req[r] EXCEPT !.phase = "calling", !.reserved = Cost[Model(r)], !.swept = FALSE]
             skips == [req[r] EXCEPT !.queue = Tail(s)]
  <2>2. UNCHANGED ledgers /\ (Goes(r, asks) \/ Goes(r, skips)) /\ req[r].phase = "choosing"
    BY <1>4, <2>1 DEF ProxyCalls, At
  <2>3. /\ AllFields \subseteq DOMAIN asks /\ asks.phase = "calling" /\ asks.queue = s
        /\ asks.decision = req[r].decision /\ asks.billed = 0 /\ asks.told = req[r].told
    BY <1>2, <2>1 DEF AllFields
  <2>4. /\ AllFields \subseteq DOMAIN skips /\ skips.phase = "choosing" /\ skips.queue = Tail(s)
        /\ skips.decision = req[r].decision /\ skips.billed = 0 /\ skips.told = req[r].told
    BY <1>2, <2>2 DEF AllFields
  <2>5. Tail(s) \in Seq(Models)
    BY <2>1
  <2> HIDE DEF asks, skips
  <2>6. CASE Goes(r, asks)
    BY <1>2, <1>3, <2>1, <2>2, <2>3, <2>6
  <2>7. CASE Goes(r, skips)
    BY <1>2, <1>3, <2>2, <2>4, <2>5, <2>7
  <2> QED  BY <2>2, <2>6, <2>7
<1>5. CASE ProxyGivesUp(r) \/ ProxyBreaks(r)
  <2>1. PICK q : q = ProxyDone(r, "failed")
    OBVIOUS
  <2>2. Goes(r, q) /\ UNCHANGED ledgers
    BY <1>5, <2>1 DEF ProxyGivesUp, ProxyBreaks
  <2>3. /\ AllFields \subseteq DOMAIN q /\ q.how = "failed" /\ q.billed = 0 /\ q.told \in Nat
        /\ q.phase = IF req[r].kind = "twice" THEN "dispatching" ELSE "ended"
    BY <1>2, <2>1, DoneFields
  <2>4. q.how \notin {"answered", "left"}
    BY <2>3
  <2> QED  BY <1>2, <2>2, <2>3, <2>4, DoneUnbilled
<1>6. CASE ProxyCancelled(r)
  <2>1. PICK q : q = Ends(r, "cancelled")
    OBVIOUS
  <2>2. Goes(r, q) /\ UNCHANGED ledgers
    BY <1>6, <2>1 DEF ProxyCancelled
  <2>3. /\ AllFields \subseteq DOMAIN q /\ q.how = "cancelled" /\ q.billed = 0 /\ q.told \in Nat
        /\ q.phase = "ended"
    BY <1>2, <2>1, EndsFields
  <2>4. q.how \notin {"answered", "left"} /\ UNCHANGED <<spent, trifles, library, evicted>> /\ daily' = daily
    BY <2>2, <2>3 DEF ledgers
  <2> QED  BY <1>2, <2>2, <2>3, <2>4, EndsUnbilled
<1>7. ASSUME NEW error \in {"rateLimit", "timeout", "content"}, ProxyFails(r, error) PROVE Accounts'
  <2>1. PICK d \in Decisions, s \in Seq(Models) :
           d = req[r].decision /\ s = req[r].queue /\ s # <<>>
    BY <1>2, <1>7 DEF ProxyFails, At, Accounts, RecordFits, CallFits
  <2>2. d[error] \in Seq(Models) /\ d.chain \in Seq(Models)
    BY AccountsAssumption
  <2>3. PICK typed : typed = Without(d[error], req[r].seen)
    OBVIOUS
  <2>4. PICK rest : rest = Without(d.chain, req[r].seen \cup ToSet(typed))
    OBVIOUS
  <2>5. typed \in Seq(Models) /\ rest \in Seq(Models)
    BY <2>2, <2>3, <2>4, WithoutList
  <2>6. PICK more \in Seq(Models) : more = typed \o rest
    <3>1. typed \o rest \in Seq(Models)
      BY <2>5, ConcatList
    <3> QED  BY <3>1
  <2>7. PICK next \in Seq(Models) : next = Tail(s) \o more
    <3>1. PICK tl \in Seq(Models) : tl = Tail(s)
      <4>1. s \in Seq(Models) /\ s # <<>>
        BY <2>1
      <4>2. Tail(s) \in Seq(Models)
        BY <4>1
      <4> QED  BY <4>2
    <3>2. tl \o more \in Seq(Models)
      BY <2>6, <3>1, ConcatList
    <3> QED  BY <3>1, <3>2
  <2>8. PICK seen : seen = req[r].seen \cup ToSet(more)
    OBVIOUS
  <2> DEFINE q == [req[r] EXCEPT !.phase = "choosing", !.reserved = 0, !.told = req[r].told + 1,
                                 !.queue = next, !.seen = seen]
  <2>9. UNCHANGED ledgers /\ Goes(r, q)
    BY <1>7, <2>1, <2>3, <2>4, <2>6, <2>7, <2>8 DEF ProxyFails
  <2>10. /\ AllFields \subseteq DOMAIN q /\ q.phase = "choosing" /\ q.queue = next
         /\ q.decision = req[r].decision /\ q.billed = 0 /\ q.told = req[r].told + 1
    BY <1>2 DEF AllFields
  <2> HIDE DEF q
  <2>11. q.told \in Nat
    BY <1>2, <2>10
  <2> QED  BY <1>3, <2>7, <2>9, <2>10, <2>11
<1>8. ASSUME NEW report \in Reports, ProxyAnswers(r, report) PROVE Accounts'
  <2>1. req[r].phase = "calling" /\ Model(r) \in Models
    BY <1>8, AtWork DEF ProxyAnswers, At
  <2>2. CASE req[r].swept
    <3>1. PICK e : e = ProxyDone(r, "failed")
      OBVIOUS
    <3>2. PICK q : q = [e EXCEPT !.told = e.told + 1]
      OBVIOUS
    <3>3. Goes(r, q) /\ UNCHANGED ledgers
      BY <1>8, <2>2, <3>1, <3>2 DEF ProxyAnswers
    <3>4. /\ AllFields \subseteq DOMAIN e /\ e.how = "failed" /\ e.billed = 0 /\ e.told = req[r].told
          /\ e.phase = IF req[r].kind = "twice" THEN "dispatching" ELSE "ended"
      BY <1>2, <3>1, DoneFields
    <3>5. /\ AllFields \subseteq DOMAIN q /\ q.how = "failed" /\ q.billed = 0
          /\ q.told = req[r].told + 1 /\ q.phase = e.phase
      BY <3>2, <3>4, NotedFields
    <3>6. q.told \in Nat /\ q.how \notin {"answered", "left"}
      BY <1>2, <3>5
    <3>7. q.phase = IF req[r].kind = "twice" THEN "dispatching" ELSE "ended"
      BY <3>4, <3>5
    <3> QED  BY <1>2, <3>3, <3>5, <3>6, <3>7, DoneUnbilled
  <2>3. CASE ~req[r].swept
    <3>1. PICK e : e = ProxyDone(r, "answered")
      OBVIOUS
    <3>2. PICK q : q = [e EXCEPT !.told = e.told + 1, !.billed = e.billed + 1]
      OBVIOUS
    <3>3. PICK paid, trifle : paid = Bill(Model(r), report) /\ trifle = Negligible(Model(r), report)
      OBVIOUS
    <3>4. Goes(r, q) /\ ChargesPlan(r, paid, trifle) /\ ChargesNoTenant(r, paid)
      BY <1>8, <2>3, <3>1, <3>2, <3>3 DEF ProxyAnswers
    <3>5. paid \in Nat /\ trifle \in BOOLEAN /\ (NoFreeModel => paid >= 1 \/ trifle)
      BY <1>8, <2>1, <3>3, BillIs
    <3>6. /\ AllFields \subseteq DOMAIN e /\ e.how = "answered" /\ e.billed = 0
          /\ e.told = req[r].told /\ e.kind = req[r].kind
          /\ e.phase = IF req[r].kind = "twice" THEN "dispatching" ELSE "ended"
      BY <1>2, <3>1, DoneFields
    <3>7. /\ AllFields \subseteq DOMAIN q /\ q.how = "answered" /\ q.billed = e.billed + 1
          /\ q.told = e.told + 1 /\ q.phase = e.phase /\ q.kind = e.kind
      <4>1. PICK a, b : a = e.told + 1 /\ b = e.billed + 1
        OBVIOUS
      <4>2. q = [e EXCEPT !.told = a, !.billed = b]
        BY <3>2, <4>1
      <4> QED  BY <3>6, <4>1, <4>2, NotedFields
    <3>8. q.told \in Nat /\ q.told >= 1 /\ q.billed = 1 /\ q.kind = req[r].kind
      BY <1>2, <3>6, <3>7
    <3>9. CASE req[r].kind = "twice"
      <4>1. q.phase = "dispatching" /\ q.kind = "twice"
        BY <3>6, <3>7, <3>9
      <4>2. BillFits(q) /\ CallFits(q)
        BY <3>8, <4>1 DEF BillFits, CallFits, Working
      <4>3. Settles(r, q)
        BY <1>2, <3>4, <3>5, <3>7, <3>8, <4>2 DEF Settles, RecordFits, OneCharge
      <4> QED  BY <3>4, <4>3, SettlesOK
    <3>10. CASE req[r].kind # "twice"
      <4>1. q.phase = "ended" /\ q.billed = req[r].billed + 1 /\ q.how \in {"answered", "left"}
        BY <1>2, <3>6, <3>7, <3>8, <3>10
      <4> QED  BY <1>2, <3>4, <3>5, <3>7, <3>8, <4>1, EndsBilled
    <3> QED  BY <3>9, <3>10
  <2> QED  BY <2>2, <2>3
<1> QED  BY <1>4, <1>5, <1>6, <1>7, <1>8 DEF Proxy

(* A dispatched request is billed once, on top of what the loop billed if  *)
(* complete() had it called twice.                                         *)
LEMMA DispatchingPays ==
    ASSUME Inv, Accounts, NEW r \in Requests, Dispatching(r)
    PROVE  Accounts'
<1>1. req[r].phase = "dispatching"
  BY DEF Dispatching, Dispatched, NotDispatched, At
<1>2. /\ RecordFits(req[r]) /\ AllFields \subseteq DOMAIN req[r] /\ req[r].told \in Nat
      /\ req[r].billed \in Nat
      /\ req[r].billed = 0 \/ (req[r].billed = 1 /\ req[r].kind = "twice")
  <2>1. RecordFits(req[r])
    BY DEF Accounts
  <2>2. /\ AllFields \subseteq DOMAIN req[r] /\ req[r].told \in Nat /\ req[r].billed \in Nat
        /\ req[r].billed <= IF req[r].kind = "twice" THEN 1 ELSE 0
    BY <1>1, <2>1 DEF RecordFits, BillFits
  <2>3. PICK b \in Nat : b = req[r].billed
    BY <2>2
  <2>4. CASE req[r].kind = "twice"
    <3>1. b <= 1
      BY <2>2, <2>3, <2>4
    <3>2. b = 0 \/ b = 1
      BY <3>1
    <3> QED  BY <2>1, <2>2, <2>3, <2>4, <3>2
  <2>5. CASE req[r].kind # "twice"
    <3>1. b <= 0
      BY <2>2, <2>3, <2>5
    <3>2. b = 0
      BY <3>1
    <3> QED  BY <2>1, <2>2, <2>3, <3>2
  <2> QED  BY <2>4, <2>5
<1>3. ASSUME NEW m \in Models, NEW report \in Reports, Dispatched(r, m, report) PROVE Accounts'
  <2>1. PICK e : e = Ends(r, "answered")
    OBVIOUS
  <2>2. PICK q : q = [e EXCEPT !.billed = e.billed + 1, !.told = e.told + 1]
    OBVIOUS
  <2>3. PICK paid, trifle : paid = Bill(m, report) /\ trifle = Negligible(m, report)
    OBVIOUS
  <2>4. /\ Goes(r, q) /\ ChargesPlan(r, paid, trifle)
        /\ ChargesTenant(r, paid) \/ ChargesNoTenant(r, paid)
    BY <1>3, <2>1, <2>2, <2>3 DEF Dispatched
  <2>5. paid \in Nat /\ trifle \in BOOLEAN /\ (NoFreeModel => paid >= 1 \/ trifle)
    BY <2>3, BillIs
  <2>6. /\ AllFields \subseteq DOMAIN e /\ e.phase = "ended" /\ e.how = "answered"
        /\ e.kind = req[r].kind /\ e.billed = req[r].billed /\ e.told = req[r].told
    BY <1>2, <2>1, EndsFields
  <2>7. /\ AllFields \subseteq DOMAIN q /\ q.phase = "ended" /\ q.how = "answered"
        /\ q.kind = req[r].kind /\ q.billed = req[r].billed + 1 /\ q.told = req[r].told + 1
    <3>1. PICK a, b : a = e.told + 1 /\ b = e.billed + 1
      OBVIOUS
    <3>2. q = [e EXCEPT !.billed = b, !.told = a]
      BY <2>2, <3>1
    <3> QED  BY <2>6, <3>1, <3>2, NotedFields
  <2>8. q.told \in Nat /\ q.told >= 1 /\ q.how \in {"answered", "left"}
    BY <1>2, <2>7
  <2> QED  BY <1>2, <2>4, <2>5, <2>7, <2>8, EndsBilled
<1>4. CASE NotDispatched(r)
  <2>1. PICK q : q = Ends(r, "failed")
    OBVIOUS
  <2>2. Goes(r, q) /\ UNCHANGED ledgers
    BY <1>4, <2>1 DEF NotDispatched
  <2>3. /\ AllFields \subseteq DOMAIN q /\ q.phase = "ended" /\ q.how = "failed"
        /\ q.kind = req[r].kind /\ q.billed = req[r].billed /\ q.told = req[r].told
    BY <1>2, <2>1, EndsFields
  <2>4. BillFits(q)
    <3>1. q.billed \in {0, 1} /\ (q.kind # "twice" => q.billed = 0) /\ q.told \in Nat
      BY <1>2, <2>3
    <3>2. q.phase \notin Working \cup {"new"} /\ q.phase # "dispatching"
          /\ q.how \notin {"answered", "left"}
      BY <2>3 DEF Working
    <3> QED  BY <2>3, <3>1, <3>2 DEF BillFits
  <2>5. Settles(r, q)
    BY <2>2, <2>3, <2>4, EndedFits DEF Settles, NoCharge, ledgers
  <2> QED  BY <2>2, <2>5, SettlesOK
<1> QED  BY <1>3, <1>4 DEF Dispatching

(* A reservation that lapses charges nobody.                               *)
LEMMA LapsesPays ==
    ASSUME Inv, Accounts, NEW r \in Requests, Lapses(r)
    PROVE  Accounts'
<1>1. PICK q : q = [req[r] EXCEPT !.reserved = 0, !.swept = TRUE]
  OBVIOUS
<1>2. Goes(r, q) /\ UNCHANGED ledgers
  BY <1>1 DEF Lapses
<1>3. RecordFits(req[r]) /\ AllFields \subseteq DOMAIN req[r]
  BY DEF Accounts, RecordFits
<1>4. /\ AllFields \subseteq DOMAIN q /\ q.phase = req[r].phase /\ q.how = req[r].how
      /\ q.kind = req[r].kind /\ q.billed = req[r].billed /\ q.told = req[r].told
      /\ q.queue = req[r].queue /\ q.decision = req[r].decision
  BY <1>1, <1>3 DEF AllFields
<1>5. RecordFits(q)
  BY <1>3, <1>4 DEF RecordFits, BillFits, CallFits
<1>6. Settles(r, q)
  BY <1>2, <1>4, <1>5 DEF Settles, NoCharge, ledgers
<1> QED  BY <1>2, <1>6, SettlesOK

-----------------------------------------------------------------------------
(* The accounts agree before the first request.                            *)
LEMMA AccountsInit ==
    ASSUME Init
    PROVE  Accounts
<1>1. ASSUME NEW r \in Requests PROVE RecordFits(req[r])
  BY DEF Init, RecordFits, BillFits, CallFits, AllFields, Working
<1>2. /\ spent = [u \in Users |-> 0] /\ library = [u \in Users |-> 0]
      /\ trifles = [u \in Users |-> 0]
      /\ daily = <<>> /\ evicted = {} /\ caller \in Callers
  BY DEF Init
<1>3. ToSet(<<>>) = {} /\ <<>> \in Seq(Entries) /\ IsInjective(<<>>)
  BY DEF ToSet, IsInjective
<1>4. OnePerTenant(daily)
  BY <1>2, <1>3 DEF OnePerTenant
<1>5. ASSUME NEW r \in Requests, Bound(r)
      PROVE  Totals(daily, BoundTenant(r)) = spent[BoundTenant(r)] - library[BoundTenant(r)]
  <2>1. Totals(daily, BoundTenant(r)) = 0
    BY <1>2, <1>3 DEF Totals
  <2>2. BoundTenant(r) \in Users
    BY <1>5 DEF Users, UserOf
  <2> QED  BY <1>2, <2>1, <2>2
<1>6. ASSUME NEW u \in Users PROVE SumOver(BillsOf(u), Requests) <= spent[u] + trifles[u]
  <2>1. \A r \in Requests : BillsOf(u)[r] = 0
    BY DEF BillsOf, Init
  <2>2. SumOver(BillsOf(u), Requests) = 0
    BY <2>1, ServingAssumption, SumOfZeros
  <2> QED  BY <1>2, <2>2
<1> QED  BY <1>1, <1>2, <1>4, <1>5, <1>6 DEF Accounts

(* The accounts agree in every reachable state.                            *)
LEMMA AccountsInvariance == Spec => [](Inv /\ Accounts)
<1>1. Init => Inv /\ Accounts
  BY InitOK, AccountsInit
<1>2. Inv /\ Accounts /\ [Next]_vars => Accounts'
  <2> SUFFICES ASSUME Inv, Accounts, [Next]_vars PROVE Accounts'
    OBVIOUS
  <2>1. CASE Next
    BY <2>1, AdmitPays, StreamPays, ProxyPays, DispatchingPays, LapsesPays DEF Next
  <2>2. CASE UNCHANGED vars
    <3>1. UNCHANGED <<caller, req, spent, trifles, daily, library, evicted>>
      BY <2>2 DEF vars, ledgers
    <3>2. \A u : BillsOf(u)' = BillsOf(u)
      BY <3>1, SameCallers DEF BillsOf
    <3>3. \A u : SumOver(BillsOf(u), Requests)' = SumOver(BillsOf(u), Requests)
      BY <3>2
    <3>4. OnePerTenant(daily)'
      BY <3>1, SameCallers DEF OnePerTenant, Accounts
    <3>5. \A r \in Requests : RecordFits(req[r])'
      BY <3>1 DEF Accounts, RecordFits, BillFits, CallFits
    <3> QED  BY <3>1, <3>3, <3>4, <3>5, SameCallers DEF Accounts
  <2> QED  BY <2>1, <2>2
<1> QED  BY <1>1, <1>2, Invariance, PTL DEF Spec

(* Where tokens are bound, the daily ledger of a tenant and what its plan  *)
(* was charged through the server agree, however calls are served and      *)
(* whatever names they use, until the ledger is dropped for another's.     *)
THEOREM Agree == Spec => []LedgersAgree
<1>1. Accounts => LedgersAgree
  BY TotalIs DEF Accounts, LedgersAgree
<1> QED  BY <1>1, AccountsInvariance, PTL

(* A call is billed once if it is answered or its client leaves it, never  *)
(* if it ends in another way (a swept stream, which was delivered, and a   *)
(* cancelled call among them), and twice at most if complete() dispatches  *)
(* it again: free models or not.                                           *)
THEOREM Settled == Spec => []SettledOnce
<1>1. Accounts => SettledOnce
  BY DEF Accounts, RecordFits, BillFits, SettledOnce, At
<1> QED  BY <1>1, AccountsInvariance, PTL

(* PaidFor's sum, as the lemmas on sums know it.                           *)
LEMMA BillsAre ==
    ASSUME NEW u
    PROVE  MapThenSumSet(LAMBDA r : IF UserOf(r) = u THEN req[r].billed ELSE 0, Requests)
             = SumOver(BillsOf(u), Requests)
BY DEF SumOver, BillsOf, MapThenSumSet, MapThenFoldSet

(* Where no call is estimated to cost nothing, the bills are charged for,  *)
(* but for those whose reported usage rounds to nothing.                   *)
THEOREM Billed ==
    ASSUME NoFreeModel
    PROVE  Spec => []BilledOnce
<1>1. Accounts => BilledOnce
  <2> SUFFICES ASSUME Accounts PROVE BilledOnce
    OBVIOUS
  <2>1. SettledOnce
    BY DEF Accounts, RecordFits, BillFits, SettledOnce, At
  <2>2. PaidFor
    BY BillsAre DEF Accounts, PaidFor
  <2> QED  BY <2>1, <2>2 DEF BilledOnce
<1> QED  BY <1>1, AccountsInvariance, PTL
=============================================================================
