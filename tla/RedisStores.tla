---------------------------- MODULE RedisStores -----------------------------
(***************************************************************************)
(* The limits of a fleet of server processes that share Redis:             *)
(* RedisRunStore (router/run_budget.py) under the steps of runs, and       *)
(* RedisBudgetTracker (router/budget_tracker.py) under the spend of a      *)
(* user, as a request uses one after the other: it takes a slot of its     *)
(* run, reserves its estimate, calls its provider, charges what it paid or *)
(* gives the estimate back, and reports its step or gives back its slot.   *)
(*                                                                         *)
(* Each round trip to Redis is a step, and any process may stop for good   *)
(* between two.  An update reads under WATCH and writes in a MULTI that    *)
(* Redis refuses if the key was written since: the process then starts     *)
(* again.  A key expires a while after its last write.                     *)
(***************************************************************************)
EXTENDS Integers, FiniteSets, FiniteSetsExt

CONSTANTS
    Requests,
    RunOf,           \* [Requests -> runs]
    Absent,          \* no key, no slot
    MaxSteps,        \* of a run
    MaxEntries,      \* RUN_STORE_MAX_ENTRIES
    RunTTL,          \* RUN_TTL_SECONDS
    PlanLimit,       \* of the user
    Estimate,        \* [Requests -> the estimated cost]
    Paid,            \* what a call may turn out to cost
    ReservationTTL,  \* BUDGET_RESERVATION_MAX_AGE_SECONDS
    MaxCrashes,      \* bound: processes that stop
    MaxTime          \* bound: ticks of the clock

Runs == {RunOf[r] : r \in Requests}

ASSUME StoresAssumption ==
    /\ IsFiniteSet(Requests)
    /\ {MaxSteps, MaxEntries} \subseteq Nat \ {0}
    /\ {RunTTL, ReservationTTL, PlanLimit} \subseteq Nat
    /\ Estimate \in [Requests -> 0..PlanLimit]
    /\ Paid \subseteq 0..PlanLimit

VARIABLES
    now,
    runs,    \* [runs -> Absent, or steps, pending and the time of the last write]
    lru,     \* [runs -> Absent, or the score in the sorted set]
    user,    \* Absent, or spent and the reservations held
    index,   \* [requests -> Absent, or the time its reservation was indexed]
    req,     \* each request: the step it is at, and what its process knows
    \* History:
    slot,    \* [requests -> "none", "live", or "stale" once the run was lost]
    foreign, \* [runs -> reports it took from slots of a lost incarnation]
    dead     \* the requests whose process stopped

(* What a key holds: the state of a run, and the account of a user.        *)
RunState == [steps : Nat, pending : Nat, at : Nat]
Hold == [call : Requests, amount : 0..PlanLimit, at : Nat]
Account == [spent : Nat, held : SUBSET Hold]

(* That there is no key can be told from any value.                        *)
ASSUME AbsentAssumption == Absent \notin RunState /\ Absent \notin Account /\ Absent \notin Nat

vars == <<now, runs, lru, user, index, req, slot, foreign, dead>>

NewRun == [steps |-> 0, pending |-> 0, at |-> 0]
NewUser == [spent |-> 0, held |-> {}]
Known(found, new) == IF found = Absent THEN new ELSE found

(* Request r goes on at step, with what else changed of it; a write makes  *)
(* those who watch the key start again.                                    *)
At(r, step) == req[r].step = step
Goes(r, record) == req' = [req EXCEPT ![r] = record]
Touched(records, writer, step, Concerns(_)) ==
    [q \in Requests |-> IF q # writer /\ records[q].step = step /\ Concerns(q)
                        THEN [records[q] EXCEPT !.touched = TRUE] ELSE records[q]]
WritesRun(r, record, gone) ==
    req' = Touched([req EXCEPT ![r] = record], r, "write run", LAMBDA q : RunOf[q] \in gone)
WritesUser(r, record) ==
    req' = Touched([req EXCEPT ![r] = record], r, "write user", LAMBDA q : TRUE)

(* The runs that lose their state make the slots taken of them stale.      *)
Loses(gone) ==
    /\ slot' = [r \in Requests |-> IF RunOf[r] \in gone /\ slot[r] = "live" THEN "stale" ELSE slot[r]]
    /\ foreign' = [r \in Runs |-> IF r \in gone THEN 0 ELSE foreign[r]]
-----------------------------------------------------------------------------
Init ==
    /\ now = 0
    /\ runs = [r \in Runs |-> Absent]
    /\ lru = [r \in Runs |-> Absent]
    /\ user = Absent
    /\ index = [r \in Requests |-> Absent]
    /\ req = [r \in Requests |-> [step |-> "new", op |-> "reserve", seen |-> Absent,
                                  touched |-> FALSE, gone |-> {}, paid |-> 0]]
    /\ slot = [r \in Requests |-> "none"]
    /\ foreign = [r \in Runs |-> 0]
    /\ dead = {}

(* check_before_dispatch() sweeps first, now and then.  What zrangebyscore *)
(* finds old is deleted and taken off the set by later commands, whatever  *)
(* happens to it in between.                                               *)
Housekeep(r) ==
    LET old == {q \in Runs : lru[q] # Absent /\ now - lru[q] >= RunTTL} IN
    /\ At(r, "new") /\ old # {}
    /\ Goes(r, [req[r] EXCEPT !.step = "sweep", !.gone = old])
    /\ UNCHANGED <<now, runs, lru, user, index, slot, foreign, dead>>

SweepExpired(r) ==
    LET gone == req[r].gone IN
    /\ At(r, "sweep")
    /\ runs' = [q \in Runs |-> IF q \in gone THEN Absent ELSE runs[q]]
    /\ WritesRun(r, [req[r] EXCEPT !.step = "unlist"], gone)
    /\ Loses(gone)
    /\ UNCHANGED <<now, lru, user, index, dead>>

Unlist(r) ==
    /\ At(r, "unlist")
    /\ lru' = [q \in Runs |-> IF q \in req[r].gone THEN Absent ELSE lru[q]]
    /\ Goes(r, [req[r] EXCEPT !.step = "read run", !.gone = {}])
    /\ UNCHANGED <<now, runs, user, index, slot, foreign, dead>>

(* RedisRunStore.update(), with the update functions of the three methods. *)
Exceeded(e) == e.steps + e.pending >= MaxSteps
Fewer(n) == IF n > 0 THEN n - 1 ELSE 0
Update(e, op) ==
    CASE op = "reserve" -> IF Exceeded(e) THEN e ELSE [e EXCEPT !.pending = @ + 1]
      [] op = "record" -> [e EXCEPT !.steps = @ + 1, !.pending = Fewer(@)]
      [] op = "release" -> [e EXCEPT !.pending = Fewer(@)]

(* What follows an update: a call that is refused ends here.               *)
After(q) ==
    IF q.op = "reserve" /\ ~Exceeded(Known(q.seen, NewRun)) THEN "read user" ELSE "ended"
Ended == [step |-> "ended", op |-> "none", seen |-> Absent, touched |-> FALSE, gone |-> {},
          paid |-> 0]
Onward(q) ==
    IF After(q) = "ended" THEN Ended
    ELSE [q EXCEPT !.step = After(q), !.op = "grant", !.seen = Absent, !.gone = {}]

ReadRun(r) ==
    LET found == runs[RunOf[r]]
        q == [req[r] EXCEPT !.seen = found, !.touched = FALSE]
    IN
    /\ At(r, "new") \/ At(r, "read run")
    /\ Goes(r, IF q.op = "release" /\ found = Absent THEN Onward(q)
               ELSE [q EXCEPT !.step = "write run"])
    /\ slot' = IF q.op = "release" /\ found = Absent THEN [slot EXCEPT ![r] = "none"] ELSE slot
    /\ UNCHANGED <<now, runs, lru, user, index, foreign, dead>>

Listed(scores) == {q \in Runs : scores[q] # Absent}
Written(r) ==
    IF Cardinality(Listed(lru')) > MaxEntries THEN [req[r] EXCEPT !.step = "pop"]
    ELSE Onward(req[r])

WriteRunBlindly(r) ==
    LET run == RunOf[r]
        q == req[r]
        before == Known(q.seen, NewRun)
        taken == q.op = "reserve" /\ ~Exceeded(before)
    IN
    /\ At(r, "write run")
    /\ runs' = [runs EXCEPT ![run] = [Update(before, q.op) EXCEPT !.at = now]]
    /\ lru' = [lru EXCEPT ![run] = now]
    /\ WritesRun(r, Written(r), {run})
    /\ slot' = [slot EXCEPT ![r] = IF taken THEN "live" ELSE "none"]
    /\ foreign' = IF slot[r] = "stale" THEN [foreign EXCEPT ![run] = @ + 1] ELSE foreign
    /\ UNCHANGED <<now, user, index, dead>>
WriteRun(r) ==
    LET run == RunOf[r]
        q == req[r]
        before == Known(q.seen, NewRun)
        taken == q.op = "reserve" /\ ~Exceeded(before)
    IN
    /\ At(r, "write run")
    /\ IF q.touched
       THEN /\ Goes(r, [q EXCEPT !.step = "read run", !.seen = Absent, !.touched = FALSE])
            /\ UNCHANGED <<runs, lru, slot, foreign>>
       ELSE /\ runs' = [runs EXCEPT ![run] = [Update(before, q.op) EXCEPT !.at = now]]
            /\ lru' = [lru EXCEPT ![run] = now]
            /\ WritesRun(r, Written(r), {run})
            /\ slot' = [slot EXCEPT ![r] = IF taken THEN "live" ELSE "none"]
            /\ foreign' = IF slot[r] = "stale" THEN [foreign EXCEPT ![run] = @ + 1] ELSE foreign
    /\ UNCHANGED <<now, user, index, dead>>

(* Over its cap, as it is counted after the write, the store pops the run  *)
(* of the lowest score from the set, and deletes its state, in two further *)
(* commands.                                                               *)
PopOldest(r) ==
    /\ At(r, "pop")
    /\ IF Listed(lru) = {} THEN Goes(r, Onward(req[r])) /\ UNCHANGED lru
       ELSE \E victim \in Listed(lru) :
              /\ \A q \in Listed(lru) : lru[victim] <= lru[q]
              /\ lru' = [lru EXCEPT ![victim] = Absent]
              /\ Goes(r, [req[r] EXCEPT !.step = "delete", !.gone = {victim}])
    /\ UNCHANGED <<now, runs, user, index, slot, foreign, dead>>

DeleteRun(r) ==
    LET gone == req[r].gone IN
    /\ At(r, "delete")
    /\ runs' = [q \in Runs |-> IF q \in gone THEN Absent ELSE runs[q]]
    /\ WritesRun(r, Onward(req[r]), gone)
    /\ Loses(gone)
    /\ UNCHANGED <<now, lru, user, index, dead>>
-----------------------------------------------------------------------------
(* RedisBudgetTracker: reserve_spend().  A refusal writes nothing.         *)
FreshTooLong(holds) == {hold \in holds : now - hold.at <= ReservationTTL + 1}
Fresh(holds) == {hold \in holds : now - hold.at <= ReservationTTL}
Held(holds) == MapThenSumSet(LAMBDA hold : hold.amount, holds)
Own(holds, r) == {hold \in holds : hold.call = r}
GivesBackSlot(r) == [req[r] EXCEPT !.step = "read run", !.op = "release"]

(* When the user's key is written, the key to the reservation, which no    *)
(* other request reads, is deleted, and the run is told.                   *)
Reports(r) == [req[r] EXCEPT !.step = "read run", !.seen = Absent, !.touched = FALSE, !.paid = 0,
                             !.op = IF @ = "charge" THEN "record" ELSE "release"]

ReadUser(r) ==
    LET found == user
        q == [req[r] EXCEPT !.seen = found, !.touched = FALSE]
        u == Known(found, NewUser)
        fits == u.spent + Held(Fresh(u.held)) + Estimate[r] <= PlanLimit
        gone == Own(u.held, r) = {}
    IN
    /\ At(r, "read user")
    /\ Goes(r, CASE q.op = "grant" /\ ~fits -> GivesBackSlot(r)
                 [] q.op = "charge" /\ gone -> GivesBackSlot(r)
                 [] q.op = "give back" /\ gone -> Reports(r)
                 [] OTHER -> [q EXCEPT !.step = "write user"])
    /\ index' = IF req[r].op = "give back" /\ gone THEN [index EXCEPT ![r] = Absent] ELSE index
    /\ UNCHANGED <<now, runs, lru, user, slot, foreign, dead>>

UserAfter(u, r) ==
    CASE req[r].op = "grant" ->
            [u EXCEPT !.held = Fresh(@) \cup {[call |-> r, amount |-> Estimate[r], at |-> now]}]
      [] req[r].op = "charge" ->
            [u EXCEPT !.held = @ \ Own(@, r), !.spent = @ + req[r].paid]
      [] req[r].op = "give back" -> [u EXCEPT !.held = @ \ Own(@, r)]

UserWritten(r) ==
    IF req[r].op = "grant" THEN [req[r] EXCEPT !.step = "index", !.seen = Absent] ELSE Reports(r)
Unindexed(r) == IF req[r].op = "grant" THEN index ELSE [index EXCEPT ![r] = Absent]

WriteUserBlindly(r) ==
    /\ At(r, "write user")
    /\ user' = UserAfter(Known(req[r].seen, NewUser), r)
    /\ index' = Unindexed(r)
    /\ WritesUser(r, UserWritten(r))
    /\ UNCHANGED <<now, runs, lru, slot, foreign, dead>>
WriteUser(r) ==
    /\ At(r, "write user")
    /\ IF req[r].touched
       THEN Goes(r, [req[r] EXCEPT !.step = "read user", !.seen = Absent, !.touched = FALSE])
            /\ UNCHANGED <<user, index>>
       ELSE /\ user' = UserAfter(Known(req[r].seen, NewUser), r)
            /\ index' = Unindexed(r)
            /\ WritesUser(r, UserWritten(r))
    /\ UNCHANGED <<now, runs, lru, slot, foreign, dead>>

(* The key that leads from a reservation to its user, and its own expiry.  *)
IndexReservation(r) ==
    /\ At(r, "index")
    /\ index' = [index EXCEPT ![r] = now]
    /\ Goes(r, [req[r] EXCEPT !.step = "calling"])
    /\ UNCHANGED <<now, runs, lru, user, slot, foreign, dead>>

Indexed(r) == index[r] # Absent

(* The provider answers or fails; reconcile_spend() of a reservation whose *)
(* key is gone raises, release_reservation() does nothing.                 *)
Answered(r, paid) ==
    /\ At(r, "calling")
    /\ Goes(r, IF Indexed(r)
               THEN [req[r] EXCEPT !.step = "read user", !.op = "charge", !.paid = paid]
               ELSE GivesBackSlot(r))
    /\ UNCHANGED <<now, runs, lru, user, index, slot, foreign, dead>>

Failed(r) ==
    /\ At(r, "calling")
    /\ Goes(r, IF Indexed(r) THEN [req[r] EXCEPT !.step = "read user", !.op = "give back"]
               ELSE GivesBackSlot(r))
    /\ UNCHANGED <<now, runs, lru, user, index, slot, foreign, dead>>
-----------------------------------------------------------------------------
(* The process of a request stops.                                         *)
Crash(r) ==
    /\ Cardinality(dead) < MaxCrashes
    /\ req[r].step \notin {"new", "ended"}
    /\ Goes(r, Ended)
    /\ dead' = dead \cup {r}
    /\ UNCHANGED <<now, runs, lru, user, index, slot, foreign>>

(* A tick, which is long beside the milliseconds from the read of a        *)
(* transaction to its write.  The keys that expire are as good as deleted; *)
(* the key to a reservation is set after it, and expires after it lapses.  *)
Expiring == {q \in Runs : runs[q] # Absent /\ now + 1 - runs[q].at >= RunTTL}
Lapsing(r) == index[r] # Absent /\ now + 1 - index[r] > Max({ReservationTTL, 1})
Tick ==
    /\ now < MaxTime
    /\ \A r \in Requests : ~At(r, "write run") /\ ~At(r, "write user")
    /\ now' = now + 1
    /\ runs' = [q \in Runs |-> IF q \in Expiring THEN Absent ELSE runs[q]]
    /\ index' = [r \in Requests |-> IF Lapsing(r) THEN Absent ELSE index[r]]
    /\ Loses(Expiring)
    /\ UNCHANGED <<lru, user, req, dead>>

RunStore(r) ==
    \/ Housekeep(r) \/ SweepExpired(r) \/ Unlist(r) \/ ReadRun(r) \/ WriteRun(r)
    \/ PopOldest(r) \/ DeleteRun(r)
Budget(r) ==
    ReadUser(r) \/ WriteUser(r) \/ IndexReservation(r)
Provider(r) == Failed(r) \/ \E paid \in Paid : Answered(r, paid)

Next ==
    \/ \E r \in Requests : RunStore(r) \/ Budget(r) \/ Provider(r) \/ Crash(r)
    \/ Tick

Spec == Init /\ [][Next]_vars
-----------------------------------------------------------------------------
Holders(run) == {r \in Requests : RunOf[r] = run /\ slot[r] = "live"}

(* What the store of one process promises holds across the fleet: the      *)
(* steps of a run, completed and in flight, exceed its limit at most by    *)
(* the reports it took from slots of an incarnation it lost, and a slot is *)
(* counted for a request that holds it, though its process may be dead.    *)
StepLimitAcrossFleet ==
    \A run \in Runs : runs[run] # Absent =>
        /\ runs[run].steps + Cardinality(Holders(run)) <= MaxSteps + foreign[run]
        /\ runs[run].pending <= Cardinality(Holders(run))

(* A reservation that counts belongs to a request that still can charge    *)
(* it or give it back, if its process lives and was not too slow: it can   *)
(* find it, because the key to it is there (or is about to be written).    *)
ReservationsReachable ==
    user # Absent =>
        \A hold \in Fresh(user.held) :
            \/ hold.call \in dead
            \/ At(hold.call, "index")
            \/ Indexed(hold.call) /\ (At(hold.call, "calling")
                                      \/ req[hold.call].op \in {"charge", "give back"})

(* The plan's gate is kept: two processes never grant from the same spend. *)
Gate == INSTANCE SpendGate WITH
            Calls <- Requests, Limit <- PlanLimit, Lifetime <- ReservationTTL,
            spent <- IF user = Absent THEN 0 ELSE user.spent,
            held <- IF user = Absent THEN {} ELSE user.held
ImplementsSpendGate == Gate!Spec
=============================================================================
