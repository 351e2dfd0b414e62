------------------------- MODULE RedisStoresProofs --------------------------
(***************************************************************************)
(* Proofs about the spend of a user on Redis, for any requests, plan,      *)
(* times and crashes: the optimistic transactions of the processes         *)
(* implement the atomic gate of SpendGate, and a reservation that counts   *)
(* is in reach of the request that made it.                                *)
(*                                                                         *)
(* The heart of the invariant is what a transaction may rely on: unless it *)
(* was touched, the spend it read is the spend that is there (Sees), so    *)
(* the test it made when it read still holds when it writes.  That needs   *)
(* that a request whose grant is not written holds nothing (Ungranted),    *)
(* and that no request holds two reservations (OneEach).                   *)
(*                                                                         *)
(* And that the step limit of a run holds across the processes that share  *)
(* it.  Counting alone is not inductive: it rests on who holds a slot at   *)
(* which step (SlotFits), and again on what a transaction that was not     *)
(* touched may rely on: the state it is about to write over is the one it  *)
(* read (SeesRun).                                                         *)
(***************************************************************************)
EXTENDS RedisStores, TLAPS, FiniteSetTheorems

(* The user's account as the code reads it: a new one if there is none.    *)
Opened == Known(user, NewUser)

RunSteps == {"new", "sweep", "unlist", "read run", "write run", "pop", "delete"}
RunOps == {"reserve", "record", "release"}
UserOps == {"grant", "charge", "give back"}

(* What a request is doing at each step of it.                             *)
OpFits(q) ==
    /\ q.step \in RunSteps => q.op \in RunOps
    /\ q.step \in {"read user", "write user"} => q.op \in UserOps
    /\ q.step \in {"index", "calling"} => q.op = "grant"
    /\ q.step = "ended" => q.op = "none"

Record == [step : RunSteps \cup {"read user", "write user", "index", "calling", "ended"},
           op : RunOps \cup UserOps \cup {"none"},
           seen : RunState \cup Account \cup {Absent}, touched : BOOLEAN, gone : SUBSET Runs,
           paid : 0..PlanLimit]

(* It has not been granted its reservation, as far as Redis knows.         *)
Ungranted(q) ==
    \/ q.op = "reserve"
    \/ q.op = "grant" /\ q.step \in {"read user", "write user"}

Fits(r, u) == u.spent + Held(Fresh(u.held)) + Estimate[r] <= PlanLimit

(* A transaction about to be written sees the account that is there, and   *)
(* found it fit for what it writes.                                        *)
Sees(r, q) ==
    /\ q.seen = user
    /\ q.op = "grant" => Fits(r, Opened)
    /\ q.op # "grant" => Own(Opened.held, r) # {}

Sound(r, q) ==
    /\ OpFits(q)
    /\ Ungranted(q) => Own(Opened.held, r) = {}
    /\ q.step = "write run" => q.seen \in RunState \cup {Absent}
    /\ q.step = "write user" /\ ~q.touched => Sees(r, q)

Types ==
    /\ now \in Nat
    /\ runs \in [Runs -> RunState \cup {Absent}]
    /\ user \in Account \cup {Absent}
    /\ req \in [Requests -> Record]

(* A request holds at most one reservation.                                *)
OneEach == \A h1, h2 \in Opened.held : h1.call = h2.call => h1 = h2

IInv == Types /\ OneEach /\ \A r \in Requests : Sound(r, req[r])
-----------------------------------------------------------------------------
(* The amounts and times are naturals, and their sums are.                 *)
LEMMA Amounts ==
    /\ PlanLimit \in Nat /\ ReservationTTL \in Nat /\ RunTTL \in Nat
    /\ 0 \in 0..PlanLimit /\ Paid \subseteq 0..PlanLimit
    /\ \A r \in Requests : Estimate[r] \in 0..PlanLimit
<1>1. PlanLimit \in Nat /\ ReservationTTL \in Nat /\ RunTTL \in Nat
  BY StoresAssumption
<1> QED  BY <1>1, StoresAssumption

(* Sums of times and amounts are naturals.                                 *)
LEMMA Sums == \A m \in Nat : m + 0 = m /\ \A n \in 0..PlanLimit : m + n \in Nat
  BY Amounts

(* The gate sums and prunes the holds as the tracker does.                 *)
LEMMA SameSum == ASSUME NEW S PROVE Held(S) = Gate!Amount(S)
  BY DEF Held, Gate!Amount, MapThenSumSet, Gate!MapThenSumSet, MapThenFoldSet,
         Gate!MapThenFoldSet

(* What the tracker keeps as fresh is what the gate does not let lapse.    *)
LEMMA SameHolds ==
    ASSUME NEW S \in SUBSET Hold, now \in Nat
    PROVE  Fresh(S) = S \ Gate!Lapsed(S)
  BY Amounts DEF Fresh, Gate!Lapsed, Hold

(* The account is one, whether it was found or is new.                     *)
LEMMA OpenedOK ==
    ASSUME user \in Account \cup {Absent}
    PROVE  Opened \in Account
  BY AbsentAssumption DEF Opened, Known, NewUser, Account

(* A step that leaves the user's spend, and the time, alone.               *)
LEMMA Quiet ==
    ASSUME IInv, NEW r \in Requests, NEW q \in Record, Sound(r, q),
           UNCHANGED <<now, user>>,
           runs' \in [Runs -> RunState \cup {Absent}],
           req' \in [Requests -> Record], req'[r] = q,
           \A p \in Requests \ {r} :
               \/ req'[p] = req[p]
               \/ req[p].step = "write run" /\ req'[p] = [req[p] EXCEPT !.touched = TRUE]
    PROVE  IInv'
<1>1. Opened' = Opened /\ \A S : Fresh(S)' = Fresh(S)
  BY DEF Opened, Fresh
<1>2. \A p \in Requests, x \in Record : Sound(p, x)' = Sound(p, x)
  BY <1>1 DEF Sound, Sees, Fits, OpFits, Ungranted, Own
<1>3. ASSUME NEW p \in Requests \ {r} PROVE Sound(p, req'[p])
  <2>1. req[p] \in Record /\ Sound(p, req[p])
    BY DEF IInv, Types
  <2>2. CASE req'[p] = req[p]
    BY <2>1, <2>2
  <2>3. CASE req[p].step = "write run" /\ req'[p] = [req[p] EXCEPT !.touched = TRUE]
    <3> DEFINE x == req[p]
               y == req'[p]
    <3>1. y.step = x.step /\ y.op = x.op /\ y.seen = x.seen /\ x.step # "write user"
      BY <2>1, <2>3 DEF Record
    <3>2. OpFits(x) => OpFits(y)
      BY <3>1 DEF OpFits
    <3>3. Ungranted(y) => Ungranted(x)
      BY <3>1 DEF Ungranted
    <3> QED  BY <2>1, <3>1, <3>2, <3>3 DEF Sound
  <2> QED  BY <2>2, <2>3
<1> QED  BY <1>1, <1>2, <1>3 DEF IInv, Types, OneEach

(* What a step of request r makes of the requests: r goes on as q, and a   *)
(* write touches the others that watch what is written.                    *)
LEMMA OneGoes ==
    ASSUME Types, NEW r \in Requests, NEW q \in Record, Goes(r, q)
    PROVE  /\ req' \in [Requests -> Record] /\ req'[r] = q
           /\ \A p \in Requests \ {r} : req'[p] = req[p]
  BY DEF Types, Goes

(* A write to the run store touches the transactions that watch what it    *)
(* writes, and changes nobody else.                                        *)
LEMMA RunWatched ==
    ASSUME Types, NEW r \in Requests, NEW q \in Record, NEW gone, WritesRun(r, q, gone)
    PROVE  /\ req' \in [Requests -> Record] /\ req'[r] = q
           /\ \A p \in Requests \ {r} :
                \/ req'[p] = req[p]
                \/ req[p].step = "write run" /\ req'[p] = [req[p] EXCEPT !.touched = TRUE]
<1> DEFINE records == [req EXCEPT ![r] = q]
<1>1. records \in [Requests -> Record] /\ records[r] = q
      /\ \A p \in Requests \ {r} : records[p] = req[p]
  BY DEF Types
<1>2. \A x \in Record : [x EXCEPT !.touched = TRUE] \in Record
  BY DEF Record
<1>3. req' = [p \in Requests |->
                IF p # r /\ records[p].step = "write run" /\ RunOf[p] \in gone
                THEN [records[p] EXCEPT !.touched = TRUE] ELSE records[p]]
  BY DEF WritesRun, Touched
<1> HIDE DEF records
<1> QED  BY <1>1, <1>2, <1>3

(* A write to the user's account touches every transaction that is about   *)
(* to write it.                                                            *)
LEMMA UserWatched ==
    ASSUME Types, NEW r \in Requests, NEW q \in Record, WritesUser(r, q)
    PROVE  /\ req' \in [Requests -> Record] /\ req'[r] = q
           /\ \A p \in Requests \ {r} :
                req'[p] = IF req[p].step = "write user" THEN [req[p] EXCEPT !.touched = TRUE]
                          ELSE req[p]
<1> DEFINE records == [req EXCEPT ![r] = q]
<1>1. records \in [Requests -> Record] /\ records[r] = q
      /\ \A p \in Requests \ {r} : records[p] = req[p]
  BY DEF Types
<1>2. \A x \in Record : [x EXCEPT !.touched = TRUE] \in Record
  BY DEF Record
<1>3. req' = [p \in Requests |->
                IF p # r /\ records[p].step = "write user" /\ TRUE
                THEN [records[p] EXCEPT !.touched = TRUE] ELSE records[p]]
  BY DEF WritesUser, Touched
<1> HIDE DEF records
<1> QED  BY <1>1, <1>2, <1>3

(* What is sound stays so at a step that writes nothing, unless it grants  *)
(* itself more.                                                            *)
LEMMA StaysSound ==
    ASSUME NEW r \in Requests, NEW p, NEW q, Sound(r, p), OpFits(q),
           Ungranted(q) => Ungranted(p), q.step \notin {"write run", "write user"}
    PROVE  Sound(r, q)
  BY DEF Sound

(* The records a request goes on with are sound if the one it had was.     *)
LEMMA OnwardOK ==
    ASSUME NEW r \in Requests, NEW q \in Record, Sound(r, q), q.op \in RunOps
    PROVE  Onward(q) \in Record /\ Sound(r, Onward(q))
<1>1. CASE After(q) = "ended"
  <2>1. Onward(q) = Ended
    BY <1>1 DEF Onward
  <2>2. Ended \in Record /\ OpFits(Ended) /\ ~Ungranted(Ended) /\ Ended.step = "ended"
    BY Amounts DEF Ended, Record, OpFits, Ungranted, RunSteps, RunOps, UserOps
  <2> QED  BY <2>1, <2>2, StaysSound
<1>2. CASE After(q) # "ended"
  <2>1. q.op = "reserve" /\ After(q) = "read user"
    BY <1>2 DEF After
  <2>2. Onward(q) = [q EXCEPT !.step = "read user", !.op = "grant", !.seen = Absent, !.gone = {}]
    BY <2>1 DEF Onward
  <2>3. /\ Onward(q) \in Record /\ Onward(q).step = "read user" /\ Onward(q).op = "grant"
    BY <2>2 DEF Record, UserOps
  <2>4. OpFits(Onward(q)) /\ Ungranted(q)
    BY <2>1, <2>3 DEF OpFits, Ungranted, RunSteps, UserOps
  <2> QED  BY <2>3, <2>4, StaysSound
<1> QED  BY <1>1, <1>2

(* A request that gives back its slot is about to update the run.          *)
LEMMA GivesBackOK ==
    ASSUME NEW r \in Requests, req[r] \in Record, Sound(r, req[r])
    PROVE  GivesBackSlot(r) \in Record /\ Sound(r, GivesBackSlot(r))
<1>1. /\ GivesBackSlot(r) \in Record
      /\ GivesBackSlot(r).step = "read run" /\ GivesBackSlot(r).op = "release"
  BY DEF GivesBackSlot, Record, RunSteps, RunOps
<1>2. OpFits(GivesBackSlot(r)) /\ ~Ungranted(GivesBackSlot(r))
  BY <1>1 DEF OpFits, Ungranted, RunSteps, RunOps
<1> QED  BY <1>1, <1>2, StaysSound

(* A request that reports what its call cost is done with its grant.       *)
LEMMA ReportsOK ==
    ASSUME NEW r \in Requests, req[r] \in Record
    PROVE  /\ Reports(r) \in Record /\ OpFits(Reports(r)) /\ ~Ungranted(Reports(r))
           /\ Reports(r).step = "read run"
<1>1. /\ Reports(r) \in Record /\ Reports(r).step = "read run"
      /\ Reports(r).op = IF req[r].op = "charge" THEN "record" ELSE "release"
  BY Amounts DEF Reports, Record, RunSteps, RunOps
<1> QED  BY <1>1 DEF OpFits, Ungranted, RunSteps, RunOps
-----------------------------------------------------------------------------
(* The steps at Redis that concern the runs, and the provider's: the       *)
(* user's spend is left alone.                                             *)

(* Looking for expired runs leaves the account alone.                      *)
LEMMA HousekeepOK ==
    ASSUME IInv, NEW r \in Requests, Housekeep(r)
    PROVE  IInv' /\ UNCHANGED <<now, user>>
<1> DEFINE old == {q \in Runs : lru[q] # Absent /\ now - lru[q] >= RunTTL}
           q == [req[r] EXCEPT !.step = "sweep", !.gone = old]
<1>1. req[r] \in Record /\ Sound(r, req[r]) /\ req[r].step = "new"
  BY DEF IInv, Types, Housekeep, At
<1>2. q \in Record /\ q.step = "sweep" /\ q.op = req[r].op
  BY <1>1 DEF Record, RunSteps
<1>3. OpFits(q) /\ (Ungranted(q) => Ungranted(req[r]))
  BY <1>1, <1>2 DEF Sound, OpFits, Ungranted, RunSteps
<1>4. Goes(r, q) /\ UNCHANGED <<now, user, runs>>
  BY DEF Housekeep
<1> HIDE DEF q
<1>5. Sound(r, q)
  BY <1>1, <1>2, <1>3, StaysSound
<1> QED  BY <1>2, <1>4, <1>5, OneGoes, Quiet DEF IInv, Types

(* Deleting expired runs leaves the account alone.                         *)
LEMMA SweepOK ==
    ASSUME IInv, NEW r \in Requests, SweepExpired(r)
    PROVE  IInv' /\ UNCHANGED <<now, user>>
<1> DEFINE q == [req[r] EXCEPT !.step = "unlist"]
<1>1. req[r] \in Record /\ Sound(r, req[r]) /\ req[r].step = "sweep"
  BY DEF IInv, Types, SweepExpired, At
<1>2. q \in Record /\ q.step = "unlist" /\ q.op = req[r].op
  BY <1>1 DEF Record, RunSteps
<1>3. OpFits(q) /\ (Ungranted(q) => Ungranted(req[r]))
  BY <1>1, <1>2 DEF Sound, OpFits, Ungranted, RunSteps
<1>4. WritesRun(r, q, req[r].gone) /\ UNCHANGED <<now, user>>
  BY DEF SweepExpired
<1>5. runs' \in [Runs -> RunState \cup {Absent}]
  BY DEF SweepExpired, IInv, Types
<1> HIDE DEF q
<1>6. Sound(r, q)
  BY <1>1, <1>2, <1>3, StaysSound
<1> QED  BY <1>2, <1>4, <1>5, <1>6, RunWatched, Quiet DEF IInv

(* Taking expired runs off the index leaves the account alone.             *)
LEMMA UnlistOK ==
    ASSUME IInv, NEW r \in Requests, Unlist(r)
    PROVE  IInv' /\ UNCHANGED <<now, user>>
<1> DEFINE q == [req[r] EXCEPT !.step = "read run", !.gone = {}]
<1>1. req[r] \in Record /\ Sound(r, req[r]) /\ req[r].step = "unlist"
  BY DEF IInv, Types, Unlist, At
<1>2. q \in Record /\ q.step = "read run" /\ q.op = req[r].op
  BY <1>1 DEF Record, RunSteps
<1>3. OpFits(q) /\ (Ungranted(q) => Ungranted(req[r]))
  BY <1>1, <1>2 DEF Sound, OpFits, Ungranted, RunSteps
<1>4. Goes(r, q) /\ UNCHANGED <<now, user, runs>>
  BY DEF Unlist
<1> HIDE DEF q
<1>5. Sound(r, q)
  BY <1>1, <1>2, <1>3, StaysSound
<1> QED  BY <1>2, <1>4, <1>5, OneGoes, Quiet DEF IInv, Types

(* Reading a run starts a transaction on it that nobody touched.           *)
LEMMA ReadRunOK ==
    ASSUME IInv, NEW r \in Requests, ReadRun(r)
    PROVE  IInv' /\ UNCHANGED <<now, user>>
<1> DEFINE found == runs[RunOf[r]]
           q == [req[r] EXCEPT !.seen = found, !.touched = FALSE]
           w == [q EXCEPT !.step = "write run"]
<1>1. req[r] \in Record /\ Sound(r, req[r]) /\ req[r].step \in {"new", "read run"}
      /\ found \in RunState \cup {Absent}
  BY DEF IInv, Types, ReadRun, At, Runs
<1>2. /\ q \in Record /\ q.step = req[r].step /\ q.op = req[r].op
      /\ w \in Record /\ w.step = "write run" /\ w.op = req[r].op /\ w.seen = found
  BY <1>1 DEF Record, RunSteps
<1>3. /\ q.op \in RunOps /\ OpFits(q) /\ (Ungranted(q) => Ungranted(req[r]))
      /\ OpFits(w) /\ (Ungranted(w) => Ungranted(req[r]))
  BY <1>1, <1>2 DEF Sound, OpFits, Ungranted, RunSteps
<1>4. /\ Goes(r, IF q.op = "release" /\ found = Absent THEN Onward(q) ELSE w)
      /\ UNCHANGED <<now, user, runs>>
  BY DEF ReadRun
<1> HIDE DEF q, w
<1>5. Sound(r, q)
  BY <1>1, <1>2, <1>3, StaysSound
<1>6. Sound(r, w)
  BY <1>1, <1>2, <1>3 DEF Sound
<1>7. Onward(q) \in Record /\ Sound(r, Onward(q))
  BY <1>2, <1>3, <1>5, OnwardOK
<1> QED  BY <1>2, <1>4, <1>6, <1>7, OneGoes, Quiet DEF IInv, Types

(* An update of a run's state makes a run's state.                         *)
LEMMA UpdateOK ==
    ASSUME NEW e \in RunState \cup {Absent}, NEW op \in RunOps, now \in Nat
    PROVE  [Update(Known(e, NewRun), op) EXCEPT !.at = now] \in RunState
<1> DEFINE s == Known(e, NewRun)
<1>1. s \in RunState
  BY DEF Known, NewRun, RunState
<1> HIDE DEF s
<1>2. \A n \in Nat : Fewer(n) \in Nat
  BY DEF Fewer
<1>3. Update(s, op) \in RunState
  <2>1. CASE op = "reserve"
    BY <1>1, <2>1 DEF Update, RunState
  <2>2. CASE op = "record"
    <3>1. s.steps + 1 \in Nat /\ s.pending \in Nat /\ Fewer(s.pending) \in Nat
      BY <1>1, <1>2 DEF RunState
    <3>2. Update(s, op) = [s EXCEPT !.steps = s.steps + 1, !.pending = Fewer(s.pending)]
      BY <2>2 DEF Update
    <3> QED  BY <1>1, <3>1, <3>2 DEF RunState
  <2>3. CASE op = "release"
    BY <1>1, <1>2, <2>3 DEF Update, RunState
  <2> QED  BY <2>1, <2>2, <2>3 DEF RunOps
<1> QED
  <2> DEFINE u == Update(s, op)
  <2>1. u \in RunState
    BY <1>3
  <2> HIDE DEF u
  <2>2. [u EXCEPT !.at = now] \in RunState
    BY <2>1 DEF RunState
  <2> QED  BY <2>2 DEF u, s

(* A run is written, or read anew if it was touched; the account stays.    *)
LEMMA WriteRunOK ==
    ASSUME IInv, NEW r \in Requests, WriteRun(r)
    PROVE  IInv' /\ UNCHANGED <<now, user>>
<1>1. req[r] \in Record /\ Sound(r, req[r]) /\ req[r].step = "write run"
      /\ now \in Nat /\ runs \in [Runs -> RunState \cup {Absent}] /\ Types
  BY DEF IInv, Types, WriteRun, At
<1>2. req[r].op \in RunOps /\ req[r].seen \in RunState \cup {Absent}
  BY <1>1 DEF Sound, OpFits, RunSteps
<1>3. UNCHANGED <<now, user>>
  BY DEF WriteRun
<1>4. CASE req[r].touched
  <2> DEFINE q == [req[r] EXCEPT !.step = "read run", !.seen = Absent, !.touched = FALSE]
  <2>1. q \in Record /\ q.step = "read run" /\ q.op = req[r].op
    BY <1>1 DEF Record, RunSteps
  <2>2. OpFits(q) /\ (Ungranted(q) => Ungranted(req[r]))
    BY <1>1, <1>2, <2>1 DEF OpFits, Ungranted, RunSteps
  <2>3. Goes(r, q) /\ UNCHANGED runs
    BY <1>4 DEF WriteRun
  <2> HIDE DEF q
  <2>4. Sound(r, q)
    BY <1>1, <2>1, <2>2, StaysSound
  <2> QED  BY <1>1, <1>3, <2>1, <2>3, <2>4, OneGoes, Quiet
<1>5. CASE ~req[r].touched
  <2> DEFINE popping == [req[r] EXCEPT !.step = "pop"]
             next == [Update(Known(req[r].seen, NewRun), req[r].op) EXCEPT !.at = now]
  <2>1. popping \in Record /\ popping.step = "pop" /\ popping.op = req[r].op
    BY <1>1 DEF Record, RunSteps
  <2>2. OpFits(popping) /\ (Ungranted(popping) => Ungranted(req[r]))
    BY <1>1, <1>2, <2>1 DEF OpFits, Ungranted, RunSteps
  <2>3. next \in RunState
    BY <1>1, <1>2, UpdateOK
  <2>4. /\ WritesRun(r, Written(r), {RunOf[r]})
        /\ runs' = [runs EXCEPT ![RunOf[r]] = next]
    BY <1>5 DEF WriteRun
  <2>5. Written(r) \in {popping, Onward(req[r])}
    BY DEF Written
  <2> HIDE DEF popping, next
  <2>6. runs' \in [Runs -> RunState \cup {Absent}]
    BY <1>1, <2>3, <2>4
  <2>7. popping \in Record /\ Sound(r, popping)
    BY <1>1, <2>1, <2>2, StaysSound
  <2>8. Onward(req[r]) \in Record /\ Sound(r, Onward(req[r]))
    BY <1>1, <1>2, OnwardOK
  <2>9. Written(r) \in Record /\ Sound(r, Written(r))
    <3>1. CASE Written(r) = popping
      BY <2>7, <3>1
    <3>2. CASE Written(r) = Onward(req[r])
      BY <2>8, <3>2
    <3> QED  BY <2>5, <3>1, <3>2
  <2> QED  BY <1>1, <1>3, <2>4, <2>6, <2>9, RunWatched, Quiet
<1> QED  BY <1>4, <1>5

(* Evicting the oldest run leaves the account alone.                       *)
LEMMA PopOK ==
    ASSUME IInv, NEW r \in Requests, PopOldest(r)
    PROVE  IInv' /\ UNCHANGED <<now, user>>
<1>1. req[r] \in Record /\ Sound(r, req[r]) /\ req[r].step = "pop" /\ Types
  BY DEF IInv, Types, PopOldest, At
<1>2. req[r].op \in RunOps
  BY <1>1 DEF Sound, OpFits, RunSteps
<1>3. PICK q : Goes(r, q) /\ (q = Onward(req[r]) \/ \E victim \in Runs :
                 q = [req[r] EXCEPT !.step = "delete", !.gone = {victim}])
  BY DEF PopOldest, Listed
<1>4. q \in Record /\ Sound(r, q)
  <2>1. CASE q = Onward(req[r])
    BY <1>1, <1>2, <2>1, OnwardOK
  <2>2. CASE \E victim \in Runs : q = [req[r] EXCEPT !.step = "delete", !.gone = {victim}]
    <3> PICK victim \in Runs : q = [req[r] EXCEPT !.step = "delete", !.gone = {victim}]
      BY <2>2
    <3>1. q \in Record /\ q.step = "delete" /\ q.op = req[r].op
      BY <1>1 DEF Record, RunSteps
    <3>2. OpFits(q) /\ (Ungranted(q) => Ungranted(req[r]))
      BY <1>1, <1>2, <3>1 DEF OpFits, Ungranted, RunSteps
    <3> QED  BY <1>1, <3>1, <3>2, StaysSound
  <2> QED  BY <1>3, <2>1, <2>2
<1>5. UNCHANGED <<now, user, runs>>
  BY DEF PopOldest
<1> QED  BY <1>1, <1>3, <1>4, <1>5, OneGoes, Quiet DEF Types

(* Deleting evicted runs leaves the account alone.                         *)
LEMMA DeleteOK ==
    ASSUME IInv, NEW r \in Requests, DeleteRun(r)
    PROVE  IInv' /\ UNCHANGED <<now, user>>
<1>1. req[r] \in Record /\ Sound(r, req[r]) /\ req[r].step = "delete" /\ Types
  BY DEF IInv, Types, DeleteRun, At
<1>2. Onward(req[r]) \in Record /\ Sound(r, Onward(req[r]))
  BY <1>1, OnwardOK DEF Sound, OpFits, RunSteps
<1>3. WritesRun(r, Onward(req[r]), req[r].gone) /\ UNCHANGED <<now, user>>
  BY DEF DeleteRun
<1>4. runs' \in [Runs -> RunState \cup {Absent}]
  BY <1>1 DEF DeleteRun, Types
<1> QED  BY <1>1, <1>2, <1>3, <1>4, RunWatched, Quiet

(* Indexing a reservation leaves the account alone.                        *)
LEMMA IndexOK ==
    ASSUME IInv, NEW r \in Requests, IndexReservation(r)
    PROVE  IInv' /\ UNCHANGED <<now, user>>
<1> DEFINE q == [req[r] EXCEPT !.step = "calling"]
<1>1. req[r] \in Record /\ Sound(r, req[r]) /\ req[r].step = "index" /\ Types
  BY DEF IInv, Types, IndexReservation, At
<1>2. q \in Record /\ q.step = "calling" /\ q.op = req[r].op
  BY <1>1 DEF Record, RunSteps
<1>3. OpFits(q) /\ ~Ungranted(q)
  BY <1>1, <1>2 DEF Sound, OpFits, Ungranted, RunSteps
<1>4. Goes(r, q) /\ UNCHANGED <<now, user, runs>>
  BY DEF IndexReservation
<1> HIDE DEF q
<1>5. Sound(r, q)
  BY <1>1, <1>2, <1>3, StaysSound
<1> QED  BY <1>1, <1>2, <1>4, <1>5, OneGoes, Quiet DEF Types

(* An answer settles nothing before the account is read.                   *)
LEMMA AnsweredOK ==
    ASSUME IInv, NEW r \in Requests, NEW paid \in Paid, Answered(r, paid)
    PROVE  IInv' /\ UNCHANGED <<now, user>>
<1> DEFINE q == [req[r] EXCEPT !.step = "read user", !.op = "charge", !.paid = paid]
<1>1. req[r] \in Record /\ Sound(r, req[r]) /\ Types
  BY DEF IInv, Types
<1>2. q \in Record /\ q.step = "read user" /\ q.op = "charge"
  BY <1>1, Amounts DEF Record, UserOps
<1>3. OpFits(q) /\ ~Ungranted(q)
  BY <1>2 DEF OpFits, Ungranted, RunSteps, UserOps
<1>4. /\ Goes(r, IF Indexed(r) THEN q ELSE GivesBackSlot(r))
      /\ UNCHANGED <<now, user, runs>>
  BY DEF Answered
<1> HIDE DEF q
<1>5. Sound(r, q)
  BY <1>1, <1>2, <1>3, StaysSound
<1> QED  BY <1>1, <1>2, <1>4, <1>5, GivesBackOK, OneGoes, Quiet DEF Types

(* A failed call gives nothing back before the account is read.            *)
LEMMA FailedOK ==
    ASSUME IInv, NEW r \in Requests, Failed(r)
    PROVE  IInv' /\ UNCHANGED <<now, user>>
<1> DEFINE q == [req[r] EXCEPT !.step = "read user", !.op = "give back"]
<1>1. req[r] \in Record /\ Sound(r, req[r]) /\ Types
  BY DEF IInv, Types
<1>2. q \in Record /\ q.step = "read user" /\ q.op = "give back"
  BY <1>1 DEF Record, UserOps
<1>3. OpFits(q) /\ ~Ungranted(q)
  BY <1>2 DEF OpFits, Ungranted, RunSteps, UserOps
<1>4. /\ Goes(r, IF Indexed(r) THEN q ELSE GivesBackSlot(r))
      /\ UNCHANGED <<now, user, runs>>
  BY DEF Failed
<1> HIDE DEF q
<1>5. Sound(r, q)
  BY <1>1, <1>2, <1>3, StaysSound
<1> QED  BY <1>1, <1>2, <1>4, <1>5, GivesBackOK, OneGoes, Quiet DEF Types

(* A request that ended has nothing left to be sound about.                *)
LEMMA EndedOK ==
    ASSUME NEW r \in Requests, NEW p, Sound(r, p)
    PROVE  Ended \in Record /\ Sound(r, Ended)
<1>1. Ended \in Record /\ OpFits(Ended) /\ ~Ungranted(Ended) /\ Ended.step = "ended"
  BY Amounts DEF Ended, Record, OpFits, Ungranted, RunSteps, RunOps, UserOps
<1> QED  BY <1>1, StaysSound

(* A process that stops leaves Redis as it is.                             *)
LEMMA CrashOK ==
    ASSUME IInv, NEW r \in Requests, Crash(r)
    PROVE  IInv' /\ UNCHANGED <<now, user>>
<1>1. Sound(r, req[r]) /\ Types
  BY DEF IInv
<1>2. Goes(r, Ended) /\ UNCHANGED <<now, user, runs>>
  BY DEF Crash
<1> QED  BY <1>1, <1>2, EndedOK, OneGoes, Quiet DEF Types

(* A tick falls between no read of a transaction and its write.            *)
LEMMA TickOK ==
    ASSUME IInv, Tick
    PROVE  IInv' /\ now' = now + 1 /\ user' = user
<1>1. /\ now' = now + 1 /\ user' = user /\ req' = req
      /\ \A r \in Requests : req[r].step \notin {"write run", "write user"}
  BY DEF Tick, At
<1>2. Types'
  <2>1. runs' = [p \in Runs |-> IF p \in Expiring THEN Absent ELSE runs[p]]
    BY DEF Tick
  <2>2. runs \in [Runs -> RunState \cup {Absent}] /\ now \in Nat
    BY DEF IInv, Types
  <2>3. runs' \in [Runs -> RunState \cup {Absent}]
    BY <2>1, <2>2
  <2>4. now \in Nat /\ now' = now + 1
    BY <1>1, <2>2
  <2>5. now' \in Nat
    BY <2>4
  <2> QED  BY <1>1, <2>3, <2>5 DEF IInv, Types
<1>3. Opened' = Opened
  BY <1>1 DEF Opened
<1>4. ASSUME NEW r \in Requests PROVE Sound(r, req[r])'
  BY <1>1, <1>3 DEF IInv, Sound, OpFits, Ungranted, Own
<1> QED  BY <1>1, <1>2, <1>3, <1>4 DEF IInv, OneEach
-----------------------------------------------------------------------------
(* The steps at Redis that concern the user's spend.                       *)

(* A transaction on the account sees what is there, and goes on only with  *)
(* what fits.                                                              *)
LEMMA ReadUserOK ==
    ASSUME IInv, NEW r \in Requests, ReadUser(r)
    PROVE  IInv' /\ UNCHANGED <<now, user>>
<1> DEFINE w == [req[r] EXCEPT !.seen = user, !.touched = FALSE, !.step = "write user"]
           gone == Own(Opened.held, r) = {}
           turnedAway == req[r].op = "grant" /\ ~Fits(r, Opened)
           lapsed == req[r].op = "charge" /\ gone
           nothing == req[r].op = "give back" /\ gone
           q == CASE turnedAway -> GivesBackSlot(r) [] lapsed -> GivesBackSlot(r)
                  [] nothing -> Reports(r) [] OTHER -> w
<1>1. /\ req[r] \in Record /\ Sound(r, req[r]) /\ req[r].step = "read user" /\ Types
      /\ user \in Account \cup {Absent} /\ req[r].op \in UserOps
  BY DEF IInv, Types, ReadUser, At, Sound, OpFits
<1>2. /\ w \in Record /\ w.step = "write user" /\ w.op = req[r].op /\ w.seen = user
  BY <1>1 DEF Record
<1>3. [[req[r] EXCEPT !.seen = user, !.touched = FALSE] EXCEPT !.step = "write user"] = w
  BY <1>1 DEF Record
<1>4. [req[r] EXCEPT !.seen = user, !.touched = FALSE].op = req[r].op
  BY <1>1 DEF Record
<1>5. Goes(r, q) /\ UNCHANGED <<now, user, runs>>
  BY <1>3, <1>4 DEF ReadUser, Fits, Opened
<1>6. ~turnedAway /\ ~lapsed /\ ~nothing => Sound(r, w)
  <2> SUFFICES ASSUME ~turnedAway, ~lapsed, ~nothing PROVE Sound(r, w)
    OBVIOUS
  <2>1. OpFits(w) /\ (Ungranted(w) => Ungranted(req[r]))
    BY <1>1, <1>2 DEF OpFits, Ungranted, RunSteps
  <2>2. Sees(r, w)
    BY <1>1, <1>2 DEF Sees, UserOps
  <2> HIDE DEF w, gone, turnedAway, lapsed, nothing
  <2> QED  BY <1>1, <1>2, <2>1, <2>2 DEF Sound
<1>7. Reports(r) \in Record /\ Sound(r, Reports(r))
  BY <1>1, ReportsOK, StaysSound
<1>8. GivesBackSlot(r) \in Record /\ Sound(r, GivesBackSlot(r))
  BY <1>1, GivesBackOK
<1>9. q \in Record /\ Sound(r, q)
  <2> HIDE DEF w, gone, turnedAway, lapsed, nothing
  <2>1. CASE turnedAway /\ ~lapsed /\ ~nothing
    <3>1. q = GivesBackSlot(r)
      BY <2>1
    <3> QED  BY <3>1, <1>8
  <2>2. CASE ~turnedAway /\ lapsed /\ ~nothing
    <3>1. q = GivesBackSlot(r)
      BY <2>2
    <3> QED  BY <3>1, <1>8
  <2>3. CASE ~turnedAway /\ ~lapsed /\ nothing
    <3>1. q = Reports(r)
      BY <2>3
    <3> QED  BY <3>1, <1>7
  <2>4. CASE ~turnedAway /\ ~lapsed /\ ~nothing
    <3>1. q = w
      BY <2>4
    <3> QED  BY <3>1, <2>4, <1>2, <1>6
  <2>5. ~(turnedAway /\ lapsed) /\ ~(turnedAway /\ nothing) /\ ~(lapsed /\ nothing)
    BY DEF turnedAway, lapsed, nothing
  <2> QED  BY <2>1, <2>2, <2>3, <2>4, <2>5
<1> HIDE DEF q
<1> QED  BY <1>1, <1>5, <1>9, OneGoes, Quiet DEF Types

(* A write of the user's spend that gives no other request a hold.         *)
LEMMA Spending ==
    ASSUME IInv, NEW r \in Requests, NEW q \in Record, WritesUser(r, q),
           OpFits(q), ~Ungranted(q), q.step \notin {"write run", "write user"},
           UNCHANGED <<now, runs>>, user' \in Account,
           \A p \in Requests \ {r} : Own(user'.held, p) \subseteq Own(Opened.held, p),
           \A h1, h2 \in user'.held : h1.call = h2.call => h1 = h2
    PROVE  IInv'
<1>1. Opened' = user'
  BY AbsentAssumption DEF Opened, Known
<1>2. Types /\ \A p \in Requests : req[p] \in Record /\ Sound(p, req[p])
  BY DEF IInv, Types
<1>3. /\ req' \in [Requests -> Record] /\ req'[r] = q
      /\ \A p \in Requests \ {r} :
           req'[p] = IF req[p].step = "write user" THEN [req[p] EXCEPT !.touched = TRUE]
                     ELSE req[p]
  BY <1>2, UserWatched
<1>4. Types'
  BY <1>2, <1>3 DEF Types
<1>5. Sound(r, req[r])'
  BY <1>3 DEF Sound, OpFits, Ungranted
<1>6. ASSUME NEW p \in Requests \ {r} PROVE Sound(p, req[p])'
  <2> DEFINE x == req[p]
             y == req'[p]
  <2>1. /\ y.step = x.step /\ y.op = x.op /\ y.seen = x.seen
        /\ y.step = "write user" => y.touched
    <3>1. x \in Record
      BY <1>2
    <3>2. CASE x.step = "write user"
      <4>1. y = [x EXCEPT !.touched = TRUE]
        BY <1>3, <3>2
      <4> HIDE DEF x, y
      <4> QED  BY <3>1, <3>2, <4>1 DEF Record
    <3>3. CASE x.step # "write user"
      <4>1. y = x
        BY <1>3, <3>3
      <4> QED  BY <3>3, <4>1
    <3> QED  BY <3>2, <3>3
  <2>2. Sound(p, x)
    BY <1>2
  <2>3. OpFits(y) /\ (Ungranted(y) => Own(Opened.held, p) = {})
        /\ (y.step = "write run" => y.seen \in RunState \cup {Absent})
    BY <2>1, <2>2 DEF Sound, OpFits, Ungranted
  <2>4. Own(user'.held, p) \subseteq Own(Opened.held, p)
    OBVIOUS
  <2> HIDE DEF x
  <2> QED  BY <1>1, <2>1, <2>3, <2>4 DEF Sound, OpFits, Ungranted, Own
<1> QED  BY <1>1, <1>4, <1>5, <1>6 DEF IInv, OneEach

(* The abstract spend and holds.                                           *)
LEMMA Mapped ==
    /\ (IF user = Absent THEN 0 ELSE user.spent) = Opened.spent
    /\ (IF user = Absent THEN {} ELSE user.held) = Opened.held
    /\ (IF user' = Absent THEN 0 ELSE user'.spent) = Opened'.spent
    /\ (IF user' = Absent THEN {} ELSE user'.held) = Opened'.held
  BY DEF Opened, Known, NewUser

(* A grant that is written is the gate's: what was tested at the read      *)
(* holds of what is there.                                                 *)
LEMMA GrantOK ==
    ASSUME IInv, NEW r \in Requests, WriteUser(r), ~req[r].touched, req[r].step = "write user",
           req[r].op = "grant"
    PROVE  IInv' /\ Gate!Grant(r, Estimate[r])
<1> DEFINE q == [req[r] EXCEPT !.step = "index", !.seen = Absent]
           new == [call |-> r, amount |-> Estimate[r], at |-> now]
           kept == Fresh(Opened.held)
<1>1. /\ Types /\ req[r] \in Record /\ Sound(r, req[r]) /\ Opened \in Account /\ now \in Nat
      /\ OneEach
  BY OpenedOK DEF IInv, Types
<1>2. req[r].seen = user /\ Fits(r, Opened) /\ Own(Opened.held, r) = {}
  BY <1>1 DEF Sound, Sees, Ungranted
<1>3. /\ user' = UserAfter(Opened, r) /\ WritesUser(r, UserWritten(r))
      /\ UNCHANGED <<now, runs>>
  BY <1>2 DEF WriteUser, Opened
<1>4. UserWritten(r) = q /\ user' = [Opened EXCEPT !.held = kept \cup {new}]
  BY <1>3 DEF UserWritten, UserAfter
<1>5. /\ user' \in Account /\ user'.held = kept \cup {new} /\ user'.spent = Opened.spent
      /\ kept \subseteq Opened.held /\ new.call = r
  <2>1. new \in Hold
    BY <1>1, Amounts DEF Hold
  <2>2. kept \subseteq Opened.held
    BY DEF Fresh
  <2> HIDE DEF new, kept
  <2>3. Opened \in [spent : Nat, held : SUBSET Hold]
    BY <1>1 DEF Account
  <2>4. kept \cup {new} \in SUBSET Hold
    BY <2>1, <2>2, <2>3
  <2> QED  BY <1>4, <2>2, <2>3, <2>4 DEF Account, new
<1>6. q \in Record /\ q.step = "index" /\ q.op = "grant"
  BY <1>1 DEF Record
<1>7. OpFits(q) /\ ~Ungranted(q)
  BY <1>6 DEF OpFits, Ungranted, RunSteps
<1>8. \A hold \in Opened.held : hold.call # r
  BY <1>2 DEF Own
<1> HIDE DEF q, new, kept
<1>9. \A p \in Requests \ {r} : Own(user'.held, p) \subseteq Own(Opened.held, p)
  BY <1>5 DEF Own
<1>10. \A h1, h2 \in user'.held : h1.call = h2.call => h1 = h2
  BY <1>1, <1>5, <1>8 DEF OneEach
<1>11. IInv'
  BY <1>3, <1>4, <1>5, <1>6, <1>7, <1>9, <1>10, Spending
<1>12. Gate!Grant(r, Estimate[r])
  <2>1. Opened' = user'
    BY <1>5, AbsentAssumption DEF Opened, Known
  <2>2. kept = Opened.held \ Gate!Lapsed(Opened.held)
    BY <1>1, SameHolds DEF kept, Account
  <2>3. Opened.spent + Gate!Amount(kept) + Estimate[r] <= PlanLimit
    BY <1>2, SameSum DEF Fits, kept
  <2>4. /\ Opened'.held = kept \cup {[call |-> r, amount |-> Estimate[r], at |-> now]}
        /\ Opened'.spent = Opened.spent
    BY <1>5, <2>1 DEF new
  <2> QED  BY <1>3, <1>8, <2>2, <2>3, <2>4, Mapped DEF Gate!Grant
<1> QED  BY <1>11, <1>12

(* A charge, or a reservation given back, settles the one hold of the      *)
(* request.                                                                *)
LEMMA SettleOK ==
    ASSUME IInv, NEW r \in Requests, WriteUser(r), ~req[r].touched, req[r].step = "write user",
           req[r].op # "grant"
    PROVE  IInv' /\ IF req[r].op = "charge" THEN Gate!Charge(r, req[r].paid) ELSE Gate!GiveBack(r)
<1> DEFINE mine == Own(Opened.held, r)
<1> DEFINE cost == IF req[r].op = "charge" THEN req[r].paid ELSE 0
<1>1. /\ Types /\ req[r] \in Record /\ Sound(r, req[r]) /\ Opened \in Account /\ OneEach
  BY OpenedOK DEF IInv, Types
<1>2. req[r].seen = user /\ mine # {} /\ req[r].op \in {"charge", "give back"}
  BY <1>1 DEF Sound, Sees, OpFits, UserOps
<1>3. /\ user' = UserAfter(Opened, r) /\ WritesUser(r, UserWritten(r))
      /\ UNCHANGED <<now, runs>>
  BY <1>2 DEF WriteUser, Opened
<1>4. UserWritten(r) = Reports(r)
  BY DEF UserWritten
<1>5. /\ user' \in Account /\ user'.held = Opened.held \ mine
      /\ user'.spent = Opened.spent + cost /\ Opened.spent \in Nat /\ cost \in 0..PlanLimit
  <2>1. Opened.held \ mine \in SUBSET Hold /\ Opened.spent \in Nat
    BY <1>1 DEF Account
  <2>2. cost \in 0..PlanLimit
    <3>1. req[r].paid \in 0..PlanLimit
      BY <1>1 DEF Record
    <3> QED  BY <3>1, Amounts
  <2>3. Opened.spent + cost \in Nat /\ Opened.spent + 0 = Opened.spent
    BY <2>1, <2>2, Sums
  <2>4. user' = [Opened EXCEPT !.held = Opened.held \ mine, !.spent = Opened.spent + cost]
    <3>1. CASE req[r].op = "charge"
      BY <1>3, <3>1 DEF UserAfter
    <3>2. CASE req[r].op = "give back"
      <4>1. user' = [Opened EXCEPT !.held = Opened.held \ mine]
        BY <1>3, <3>2 DEF UserAfter
      <4>2. cost = 0
        BY <3>2
      <4> QED  BY <1>1, <2>3, <4>1, <4>2 DEF Account
    <3> QED  BY <1>2, <3>1, <3>2
  <2> HIDE DEF cost, mine
  <2> QED  BY <1>1, <2>1, <2>2, <2>3, <2>4 DEF Account
<1>6. PICK hold \in Opened.held : hold.call = r /\ mine = {hold}
  BY <1>1, <1>2 DEF OneEach, Own
<1> HIDE DEF mine
<1>7. /\ \A p \in Requests \ {r} : Own(user'.held, p) \subseteq Own(Opened.held, p)
      /\ \A h1, h2 \in user'.held : h1.call = h2.call => h1 = h2
  BY <1>1, <1>5 DEF Own, OneEach
<1>8. IInv'
  BY <1>1, <1>3, <1>4, <1>5, <1>7, ReportsOK, Spending
<1>9. Opened' = user'
  BY <1>5, AbsentAssumption DEF Opened, Known
<1>10. Opened'.held = Opened.held \ {hold} /\ hold \in Opened.held /\ hold.call = r
  BY <1>5, <1>6, <1>9
<1>11. CASE req[r].op = "charge"
  <2>1. Opened'.spent = Opened.spent + req[r].paid /\ req[r].paid \in 0..PlanLimit
    BY <1>5, <1>9, <1>11
  <2> QED  BY <1>3, <1>8, <1>10, <1>11, <2>1, Mapped DEF Gate!Charge
<1>12. CASE req[r].op = "give back"
  <2>1. Opened'.spent = Opened.spent
    <3>1. cost = 0
      BY <1>12
    <3> HIDE DEF cost
    <3> QED  BY <1>5, <1>9, <3>1, Sums
  <2> QED  BY <1>3, <1>8, <1>10, <1>12, <2>1, Mapped DEF Gate!GiveBack
<1> QED  BY <1>2, <1>11, <1>12

(* A transaction that was touched starts again.                            *)
LEMMA RetryOK ==
    ASSUME IInv, NEW r \in Requests, WriteUser(r), req[r].touched
    PROVE  IInv' /\ UNCHANGED <<now, user>>
<1> DEFINE q == [req[r] EXCEPT !.step = "read user", !.seen = Absent, !.touched = FALSE]
<1>1. req[r] \in Record /\ Sound(r, req[r]) /\ req[r].step = "write user" /\ Types
  BY DEF IInv, Types, WriteUser, At
<1>2. q \in Record /\ q.step = "read user" /\ q.op = req[r].op
  BY <1>1 DEF Record
<1>3. OpFits(q) /\ (Ungranted(q) => Ungranted(req[r]))
  BY <1>1, <1>2 DEF Sound, OpFits, Ungranted, RunSteps
<1>4. Goes(r, q) /\ UNCHANGED <<now, user, runs>>
  BY DEF WriteUser
<1> HIDE DEF q
<1>5. Sound(r, q)
  BY <1>1, <1>2, <1>3, StaysSound
<1> QED  BY <1>1, <1>2, <1>4, <1>5, OneGoes, Quiet DEF Types
-----------------------------------------------------------------------------
(* The state of the abstract gate.                                         *)
GateVars ==
    <<IF user = Absent THEN 0 ELSE user.spent, IF user = Absent THEN {} ELSE user.held, now>>

(* No request has read or reserved anything yet.                           *)
LEMMA InitOK == Init => IInv
<1> SUFFICES ASSUME Init PROVE IInv
  OBVIOUS
<1> DEFINE first == [step |-> "new", op |-> "reserve", seen |-> Absent, touched |-> FALSE,
                     gone |-> {}, paid |-> 0]
<1>1. first \in Record /\ OpFits(first)
  BY Amounts DEF Record, OpFits, RunSteps, RunOps
<1>2. \A r \in Requests : req[r] = first
  BY DEF Init
<1>3. Types
  BY <1>1 DEF Init, Types
<1>4. Opened.held = {}
  BY DEF Init, Opened, Known, NewUser
<1>5. \A r \in Requests : Own(Opened.held, r) = {}
  BY <1>4 DEF Own
<1>6. \A r \in Requests : Sound(r, first)
  BY <1>1, <1>5 DEF Sound
<1> QED  BY <1>2, <1>3, <1>4, <1>6 DEF IInv, OneEach

(* Each step keeps the invariant, and is a step of the gate or none.       *)
LEMMA StepOK ==
    ASSUME IInv, Next
    PROVE  IInv' /\ (Gate!Next \/ UNCHANGED GateVars)
<1>1. ASSUME NEW r \in Requests, RunStore(r)
      PROVE  IInv' /\ UNCHANGED <<now, user>>
  BY <1>1, HousekeepOK, SweepOK, UnlistOK, ReadRunOK, WriteRunOK, PopOK, DeleteOK DEF RunStore
<1>2. ASSUME NEW r \in Requests, Provider(r) \/ Crash(r)
      PROVE  IInv' /\ UNCHANGED <<now, user>>
  BY <1>2, AnsweredOK, FailedOK, CrashOK DEF Provider
<1>3. ASSUME NEW r \in Requests, WriteUser(r)
      PROVE  IInv' /\ (Gate!Next \/ UNCHANGED <<now, user>>)
  <2>1. req[r].step = "write user" /\ req[r].paid \in 0..PlanLimit /\ Estimate[r] \in 0..PlanLimit
    BY <1>3, Amounts DEF WriteUser, At, IInv, Types, Record
  <2>2. CASE req[r].touched
    BY <1>3, <2>2, RetryOK
  <2>3. CASE ~req[r].touched /\ req[r].op = "grant"
    BY <1>3, <2>1, <2>3, GrantOK DEF Gate!Next
  <2>4. CASE ~req[r].touched /\ req[r].op # "grant"
    <3>1. IInv' /\ (Gate!Charge(r, req[r].paid) \/ Gate!GiveBack(r))
      BY <1>3, <2>1, <2>4, SettleOK
    <3> QED  BY <2>1, <3>1 DEF Gate!Next
  <2> QED  BY <2>2, <2>3, <2>4
<1>4. ASSUME NEW r \in Requests, Budget(r)
      PROVE  IInv' /\ (Gate!Next \/ UNCHANGED <<now, user>>)
  BY <1>3, <1>4, ReadUserOK, IndexOK DEF Budget
<1>5. ASSUME Tick PROVE IInv' /\ Gate!Next
  BY <1>5, TickOK DEF Gate!Next, Gate!Tick
<1>6. UNCHANGED <<now, user>> => UNCHANGED GateVars
  BY DEF GateVars
<1> QED  BY <1>1, <1>2, <1>4, <1>5, <1>6 DEF Next

(* A step that changes nothing changes nothing of the gate.                *)
LEMMA StutterOK == ASSUME IInv, UNCHANGED vars PROVE IInv' /\ UNCHANGED GateVars
<1>1. UNCHANGED <<now, runs, user, req>>
  BY DEF vars
<1>2. UNCHANGED GateVars
  BY <1>1 DEF GateVars
<1>3. Opened' = Opened /\ \A S : Fresh(S)' = Fresh(S)
  BY <1>1 DEF Opened, Fresh
<1> QED
  BY <1>1, <1>2, <1>3 DEF IInv, Types, OneEach, Sound, Sees, Fits, OpFits, Ungranted, Own

(* In every reachable state transactions see what is there unless they     *)
(* were touched, and each request holds at most the one reservation it was *)
(* granted.                                                                *)
THEOREM Invariance == Spec => []IInv
<1>1. Init => IInv
  BY InitOK
<1>2. IInv /\ [Next]_vars => IInv'
  BY StepOK, StutterOK
<1> QED  BY <1>1, <1>2, PTL DEF Spec

(* The processes together behave as one atomic gate over the user's spend: *)
(* no two grants are made from the same account, a charge settles the hold *)
(* of its own request, and nothing else changes the spend.                 *)
THEOREM Refinement == Spec => ImplementsSpendGate
<1>1. Init => Gate!Init
  BY DEF Init, Gate!Init
<1>2. IInv /\ [Next]_vars => [Gate!Next]_GateVars
  BY StepOK, StutterOK
<1> QED  BY <1>1, <1>2, Invariance, PTL DEF Spec, ImplementsSpendGate, Gate!Spec, GateVars
-----------------------------------------------------------------------------
(* Every reservation that counts can be found by a request that will.      *)
Finds(r, hold) ==
    \/ r \in dead
    \/ req[r].step = "index"
    \/ /\ index[r] \in Nat /\ hold.at <= index[r]
       /\ req[r].step = "calling" \/ req[r].op \in {"charge", "give back"}

(* A hold that counts is older than the key to it, so the key outlives it. *)
Reach(r) == \A hold \in Own(Fresh(Opened.held), r) : hold.at <= now /\ Finds(r, hold)

Reachable == index \in [Requests -> Nat \cup {Absent}] /\ \A r \in Requests : Reach(r)

(* A step of request r that leaves the spend alone.                        *)
LEMMA QuietReach ==
    ASSUME Reachable, NEW r \in Requests, UNCHANGED <<now, user>>, dead \subseteq dead',
           index' \in [Requests -> Nat \cup {Absent}],
           \A p \in Requests \ {r} : /\ index'[p] = index[p]
                                     /\ req'[p].step = req[p].step /\ req'[p].op = req[p].op,
           \A hold \in Own(Fresh(Opened.held), r) : Finds(r, hold)'
    PROVE  Reachable'
<1>1. Opened' = Opened /\ \A S : Fresh(S)' = Fresh(S)
  BY DEF Opened, Fresh
<1>2. \A p \in Requests : Own(Fresh(Opened.held), p)' = Own(Fresh(Opened.held), p)
  BY <1>1 DEF Own
<1>3. ASSUME NEW p \in Requests, NEW hold \in Own(Fresh(Opened.held), p)
      PROVE  hold.at <= now /\ Finds(p, hold)'
  <2>1. hold.at <= now /\ Finds(p, hold)
    BY <1>3 DEF Reachable, Reach
  <2>2. CASE p = r
    BY <2>1, <2>2
  <2>3. CASE p # r
    BY <2>1, <2>3 DEF Finds
  <2> QED  BY <2>2, <2>3
<1> QED  BY <1>2, <1>3 DEF Reachable, Reach

(* What a step of request r changes of the others: what they watch only.   *)
OthersKept(r) ==
    \A p \in Requests \ {r} : req'[p].step = req[p].step /\ req'[p].op = req[p].op

(* The writes of request r keep the others where they are.                 *)
LEMMA GoesKeeps ==
    ASSUME Types, NEW r \in Requests, NEW q, Goes(r, q)
    PROVE  OthersKept(r) /\ req'[r] = q
  BY DEF Types, Goes, OthersKept

(* To be touched changes neither what a request does nor where it is.      *)
LEMMA Rewatched ==
    ASSUME NEW x \in Record
    PROVE  [x EXCEPT !.touched = TRUE].step = x.step /\ [x EXCEPT !.touched = TRUE].op = x.op
  BY DEF Record

(* A write to the run store keeps the others where they are.               *)
LEMMA RunWriteKeeps ==
    ASSUME Types, NEW r \in Requests, NEW q, NEW gone, WritesRun(r, q, gone)
    PROVE  OthersKept(r)
<1>1. \A p \in Requests \ {r} :
        req'[p] = IF req[p].step = "write run" /\ RunOf[p] \in gone
                  THEN [req[p] EXCEPT !.touched = TRUE] ELSE req[p]
  BY DEF WritesRun, Touched, Types
<1>2. \A p \in Requests : req[p] \in Record
  BY DEF Types
<1> QED  BY <1>1, <1>2, Rewatched DEF OthersKept

(* So does a write to the account.                                         *)
LEMMA UserWriteKeeps ==
    ASSUME Types, NEW r \in Requests, NEW q, WritesUser(r, q)
    PROVE  OthersKept(r) /\ req'[r] = q
<1>1. /\ \A p \in Requests \ {r} :
           req'[p] = IF req[p].step = "write user" THEN [req[p] EXCEPT !.touched = TRUE] ELSE req[p]
      /\ req'[r] = q
  BY DEF WritesUser, Touched, Types
<1>2. \A p \in Requests : req[p] \in Record
  BY DEF Types
<1> QED  BY <1>1, <1>2, Rewatched DEF OthersKept

(* The steps at the run's store concern no reservation.                    *)
LEMMA RunStoreReach ==
    ASSUME IInv, Reachable, NEW r \in Requests, RunStore(r)
    PROVE  Reachable'
<1>1. Types /\ Sound(r, req[r])
  BY DEF IInv
<1>2. /\ OthersKept(r) /\ UNCHANGED <<index, dead>> /\ req[r].step \in RunSteps
  <2>1. CASE Housekeep(r)
    BY <1>1, <2>1, GoesKeeps DEF Housekeep, At, RunSteps
  <2>2. CASE SweepExpired(r)
    BY <1>1, <2>2, RunWriteKeeps DEF SweepExpired, At, RunSteps
  <2>3. CASE Unlist(r)
    BY <1>1, <2>3, GoesKeeps DEF Unlist, At, RunSteps
  <2>4. CASE ReadRun(r)
    BY <1>1, <2>4, GoesKeeps DEF ReadRun, At, RunSteps
  <2>5. CASE WriteRun(r)
    BY <1>1, <2>5, GoesKeeps, RunWriteKeeps DEF WriteRun, At, RunSteps
  <2>6. CASE PopOldest(r)
    BY <1>1, <2>6, GoesKeeps DEF PopOldest, At, RunSteps
  <2>7. CASE DeleteRun(r)
    BY <1>1, <2>7, RunWriteKeeps DEF DeleteRun, At, RunSteps
  <2> QED  BY <2>1, <2>2, <2>3, <2>4, <2>5, <2>6, <2>7 DEF RunStore
<1>3. UNCHANGED <<now, user>>
  BY HousekeepOK, SweepOK, UnlistOK, ReadRunOK, WriteRunOK, PopOK, DeleteOK DEF RunStore
<1>4. req[r].op \in RunOps
  BY <1>1, <1>2 DEF Sound, OpFits
<1>5. \A hold \in Own(Fresh(Opened.held), r) : Finds(r, hold)'
  BY <1>2, <1>4 DEF Reachable, Reach, Finds, RunSteps, RunOps
<1> QED  BY <1>2, <1>3, <1>5, QuietReach DEF Reachable, OthersKept

(* A call ends only with its key at hand, or without a reservation that    *)
(* counts; a request that stops is known to be dead.                       *)
LEMMA ProviderReach ==
    ASSUME IInv, Reachable, NEW r \in Requests, Provider(r) \/ Crash(r)
    PROVE  Reachable'
<1>1. Types /\ req[r] \in Record
  BY DEF IInv, Types
<1>2. \A hold \in Own(Fresh(Opened.held), r) : Finds(r, hold)
  BY DEF Reachable, Reach
<1>3. CASE Crash(r)
  <2>1. OthersKept(r) /\ UNCHANGED <<now, user, index>> /\ dead' = dead \cup {r}
    BY <1>1, <1>3, GoesKeeps DEF Crash
  <2>2. \A hold : Finds(r, hold)'
    BY <2>1 DEF Finds
  <2> QED  BY <2>1, <2>2, QuietReach DEF Reachable, OthersKept
<1>4. CASE Provider(r)
  <2>1. PICK q : /\ Goes(r, q)
                 /\ Indexed(r) => q.op \in {"charge", "give back"}
    <3>1. CASE Failed(r)
      <4>1. [req[r] EXCEPT !.step = "read user", !.op = "give back"].op = "give back"
        BY <1>1 DEF Record
      <4> QED  BY <3>1, <4>1 DEF Failed
    <3>2. CASE \E paid \in Paid : Answered(r, paid)
      <4>1. PICK paid \in Paid : Answered(r, paid)
        BY <3>2
      <4>2. [req[r] EXCEPT !.step = "read user", !.op = "charge", !.paid = paid].op = "charge"
        BY <1>1 DEF Record
      <4> QED  BY <4>1, <4>2 DEF Answered
    <3> QED  BY <1>4, <3>1, <3>2 DEF Provider
  <2>2. UNCHANGED <<now, user, index, dead>> /\ req[r].step = "calling"
    BY <1>4 DEF Provider, Answered, Failed, At
  <2>3. OthersKept(r) /\ req'[r] = q
    BY <1>1, <2>1, GoesKeeps
  <2>4. \A hold \in Own(Fresh(Opened.held), r) : Finds(r, hold)'
    BY <1>2, <2>1, <2>2, <2>3, AbsentAssumption DEF Finds, Indexed
  <2> QED  BY <2>2, <2>3, <2>4, QuietReach DEF Reachable, OthersKept
<1> QED  BY <1>3, <1>4

(* The key is deleted at a read only if there is no reservation any more.  *)
LEMMA ReadUserReach ==
    ASSUME IInv, Reachable, NEW r \in Requests, ReadUser(r)
    PROVE  Reachable'
<1>1. Types /\ req[r] \in Record /\ Sound(r, req[r]) /\ req[r].step = "read user"
  BY DEF IInv, Types, ReadUser, At
<1>2. Own(Fresh(Opened.held), r) \subseteq Own(Opened.held, r)
  BY DEF Own, Fresh
<1>3. \A hold \in Own(Fresh(Opened.held), r) : Finds(r, hold)
  BY DEF Reachable, Reach
<1>4. /\ UNCHANGED <<now, user, dead>>
      /\ index' \in {index, [index EXCEPT ![r] = Absent]}
      /\ index' = index \/ Own(Opened.held, r) = {}
  BY DEF ReadUser, Opened
<1>5. PICK q : Goes(r, q) /\ (Own(Opened.held, r) # {} => q.op = req[r].op)
  <2> DEFINE w == [[req[r] EXCEPT !.seen = user, !.touched = FALSE] EXCEPT !.step = "write user"]
  <2>1. w.op = req[r].op /\ [req[r] EXCEPT !.seen = user, !.touched = FALSE].op = req[r].op
    BY <1>1 DEF Record
  <2>2. CASE Own(Opened.held, r) = {}
    BY <2>2 DEF ReadUser
  <2>3. CASE Own(Opened.held, r) # {}
    <3>1. req[r].op # "grant" /\ Own(Known(user, NewUser).held, r) # {}
      BY <1>1, <2>3 DEF Sound, Ungranted, Opened
    <3> HIDE DEF w
    <3>2. Goes(r, w)
      BY <2>1, <3>1 DEF ReadUser, w
    <3> QED  BY <2>1, <3>2
  <2> QED  BY <2>2, <2>3
<1>6. OthersKept(r) /\ req'[r] = q
  BY <1>1, <1>5, GoesKeeps
<1>7. /\ index' \in [Requests -> Nat \cup {Absent}]
      /\ \A p \in Requests \ {r} : index'[p] = index[p]
  BY <1>4 DEF Reachable
<1>8. \A hold \in Own(Fresh(Opened.held), r) : Finds(r, hold)'
  BY <1>1, <1>2, <1>3, <1>4, <1>5, <1>6 DEF Finds
<1> QED  BY <1>4, <1>6, <1>7, <1>8, QuietReach DEF OthersKept

(* The key is set.                                                         *)
LEMMA IndexReach ==
    ASSUME IInv, Reachable, NEW r \in Requests, IndexReservation(r)
    PROVE  Reachable'
<1>1. Types /\ req[r] \in Record /\ now \in Nat /\ index \in [Requests -> Nat \cup {Absent}]
  BY DEF IInv, Types, Reachable
<1>2. /\ Goes(r, [req[r] EXCEPT !.step = "calling"]) /\ index' = [index EXCEPT ![r] = now]
      /\ UNCHANGED <<now, user, dead>>
  BY DEF IndexReservation
<1>3. OthersKept(r) /\ req'[r].step = "calling"
  <2>1. [req[r] EXCEPT !.step = "calling"].step = "calling"
    BY <1>1 DEF Record
  <2> QED  BY <1>1, <1>2, <2>1, GoesKeeps
<1>4. /\ index' \in [Requests -> Nat \cup {Absent}] /\ index'[r] = now
      /\ \A p \in Requests \ {r} : index'[p] = index[p]
  BY <1>1, <1>2
<1>5. \A hold \in Own(Fresh(Opened.held), r) : Finds(r, hold)'
  BY <1>1, <1>3, <1>4 DEF Reachable, Reach, Finds
<1> QED  BY <1>2, <1>3, <1>4, <1>5, QuietReach DEF OthersKept

(* A grant adds a hold of its own, which its request is about to index; a  *)
(* hold that is settled is gone.                                           *)
LEMMA WriteUserReach ==
    ASSUME IInv, Reachable, NEW r \in Requests, WriteUser(r)
    PROVE  Reachable'
<1>1. /\ Types /\ req[r] \in Record /\ req[r].step = "write user" /\ OneEach
      /\ index \in [Requests -> Nat \cup {Absent}] /\ now \in Nat /\ Sound(r, req[r])
  BY DEF IInv, Types, WriteUser, At, Reachable
<1>2. \A p \in Requests : \A hold \in Own(Fresh(Opened.held), p) : hold.at <= now /\ Finds(p, hold)
  BY DEF Reachable, Reach
<1>3. CASE req[r].touched
  <2> DEFINE q == [req[r] EXCEPT !.step = "read user", !.seen = Absent, !.touched = FALSE]
  <2>1. q.op = req[r].op
    BY <1>1 DEF Record
  <2>2. Goes(r, q) /\ UNCHANGED <<now, user, index, dead>>
    BY <1>3 DEF WriteUser
  <2> HIDE DEF q
  <2>3. OthersKept(r) /\ req'[r] = q
    BY <1>1, <2>2, GoesKeeps
  <2>4. \A hold \in Own(Fresh(Opened.held), r) : Finds(r, hold)'
    BY <1>1, <1>2, <2>1, <2>2, <2>3 DEF Finds
  <2> QED  BY <1>1, <2>2, <2>3, <2>4, QuietReach DEF OthersKept
<1>4. CASE ~req[r].touched
  <2>1. /\ index' = Unindexed(r) /\ WritesUser(r, UserWritten(r))
        /\ UNCHANGED <<now, dead>>
    BY <1>4 DEF WriteUser
  <2>2. OthersKept(r) /\ req'[r] = UserWritten(r)
    BY <1>1, <2>1, UserWriteKeeps
  <2>3. /\ index' \in [Requests -> Nat \cup {Absent}]
        /\ \A p \in Requests \ {r} : index'[p] = index[p]
    BY <1>1, <2>1 DEF Unindexed
  <2>4. ASSUME NEW p \in Requests \ {r}, NEW hold, Finds(p, hold) PROVE Finds(p, hold)'
    BY <2>1, <2>2, <2>3, <2>4 DEF Finds, OthersKept
  <2>5. CASE req[r].op = "grant"
    <3>1. Gate!Grant(r, Estimate[r])
      BY <1>1, <1>4, <2>5, GrantOK
    <3>2. Opened'.held = (Opened.held \ Gate!Lapsed(Opened.held))
                           \cup {[call |-> r, amount |-> Estimate[r], at |-> now]}
      BY <3>1, Mapped DEF Gate!Grant
    <3>3. req'[r].step = "index"
      <4>1. [req[r] EXCEPT !.step = "index", !.seen = Absent].step = "index"
        BY <1>1 DEF Record
      <4> QED  BY <2>2, <2>5, <4>1 DEF UserWritten
    <3>4. Own(Opened.held, r) = {}
      BY <1>1, <2>5 DEF Sound, Ungranted
    <3>5. ASSUME NEW p \in Requests, NEW hold \in Own(Fresh(Opened.held), p)'
          PROVE  (hold.at <= now /\ Finds(p, hold))'
      <4>1. hold \in Opened'.held /\ now' - hold.at <= ReservationTTL /\ hold.call = p
        BY DEF Own, Fresh
      <4>2. CASE p # r
        <5>1. hold \in Opened.held
          BY <3>2, <4>1, <4>2
        <5>2. hold \in Own(Fresh(Opened.held), p)
          BY <2>1, <4>1, <5>1 DEF Own, Fresh
        <5> QED  BY <1>2, <2>1, <2>4, <4>2, <5>2
      <4>3. CASE p = r
        <5>1. hold = [call |-> r, amount |-> Estimate[r], at |-> now]
          BY <3>2, <3>4, <4>1, <4>3 DEF Own
        <5>2. hold.at = now
          BY <5>1
        <5>3. now <= now /\ now' = now
          <6>1. now \in Nat
            BY <1>1
          <6> QED  BY <2>1, <6>1
        <5>4. Finds(p, hold)'
          BY <3>3, <4>3 DEF Finds
        <5> QED  BY <5>2, <5>3, <5>4
      <4> QED  BY <4>2, <4>3
    <3> QED  BY <2>3, <3>5 DEF Reachable, Reach
  <2>6. CASE req[r].op # "grant"
    <3>1. Gate!Charge(r, req[r].paid) \/ Gate!GiveBack(r)
      BY <1>1, <1>4, <2>6, SettleOK
    <3>2. PICK mine \in Opened.held : mine.call = r /\ Opened'.held = Opened.held \ {mine}
      BY <3>1, Mapped DEF Gate!Charge, Gate!GiveBack
    <3>3. ASSUME NEW p \in Requests, NEW hold \in Own(Fresh(Opened.held), p)'
          PROVE  (hold.at <= now /\ Finds(p, hold))'
      <4>1. hold \in Opened'.held /\ now' - hold.at <= ReservationTTL /\ hold.call = p
        BY DEF Own, Fresh
      <4>2. hold \in Own(Fresh(Opened.held), p) /\ p # r
        BY <1>1, <2>1, <3>2, <4>1 DEF Own, Fresh, OneEach
      <4> QED  BY <1>2, <2>1, <2>4, <4>2
    <3> QED  BY <2>3, <3>3 DEF Reachable, Reach
  <2> QED  BY <2>5, <2>6
<1> QED  BY <1>3, <1>4

(* A key is set after its reservation, so it lapses no earlier.            *)
LEMMA TickReach ==
    ASSUME IInv, Reachable, Tick
    PROVE  Reachable'
<1>1. /\ now \in Nat /\ now' = now + 1 /\ user' = user /\ req' = req /\ dead' = dead
      /\ index' = [r \in Requests |-> IF Lapsing(r) THEN Absent ELSE index[r]]
      /\ index \in [Requests -> Nat \cup {Absent}] /\ Opened \in Account
  BY OpenedOK DEF IInv, Types, Tick, Reachable
<1>2. Opened' = Opened
  BY <1>1 DEF Opened
<1>3. index' \in [Requests -> Nat \cup {Absent}]
  BY <1>1
<1>4. ReservationTTL <= Max({ReservationTTL, 1})
  <2> DEFINE S == {ReservationTTL, 1}
  <2>1. \E x \in S : \A y \in S : x >= y
    BY Amounts
  <2>2. Max(S) = CHOOSE x \in S : \A y \in S : x >= y
    BY DEF Max
  <2>3. Max(S) >= ReservationTTL
    BY <2>1, <2>2
  <2> QED  BY <2>1, <2>2, <2>3, Amounts
<1>5. ASSUME NEW r \in Requests, NEW hold \in Own(Fresh(Opened.held), r)'
      PROVE  (hold.at <= now /\ Finds(r, hold))'
  <2>1. /\ hold \in Opened.held /\ hold.call = r /\ now + 1 - hold.at <= ReservationTTL
        /\ hold.at \in Nat
    BY <1>1, <1>2 DEF Own, Fresh, Account, Hold
  <2>2. hold \in Own(Fresh(Opened.held), r)
    BY <1>1, <2>1, Amounts DEF Own, Fresh
  <2>3. hold.at <= now /\ Finds(r, hold)
    BY <2>2 DEF Reachable, Reach
  <2>4. hold.at <= now'
    BY <1>1, <2>1, <2>3
  <2>5. CASE index[r] \in Nat /\ hold.at <= index[r]
    <3>1. ~Lapsing(r)
      <4> DEFINE life == Max({ReservationTTL, 1})
      <4>1. ReservationTTL <= life
        BY <1>4
      <4>2. life \in Nat
        BY Amounts DEF Max
      <4> HIDE DEF life
      <4>3. ~(now + 1 - index[r] > life)
        BY <1>1, <2>1, <2>5, <4>1, <4>2, Amounts
      <4> QED  BY <4>3 DEF Lapsing, life
    <3>2. index'[r] = index[r]
      BY <1>1, <3>1
    <3> QED  BY <1>1, <2>3, <2>4, <2>5, <3>2 DEF Finds
  <2>6. CASE ~(index[r] \in Nat /\ hold.at <= index[r])
    BY <1>1, <2>3, <2>4, <2>6 DEF Finds
  <2> QED  BY <2>5, <2>6
<1> QED  BY <1>3, <1>5 DEF Reachable, Reach

(* A reservation that counts against the plan belongs to a request that    *)
(* can still find it, or is about to make it found, unless its process     *)
(* stopped.                                                                *)
THEOREM Reachability == Spec => []ReservationsReachable
<1>1. Init => Reachable
  <2> SUFFICES ASSUME Init PROVE Reachable
    OBVIOUS
  <2>1. Opened.held = {}
    BY DEF Init, Opened, Known, NewUser
  <2>2. \A r \in Requests : Own(Fresh(Opened.held), r) = {}
    BY <2>1 DEF Own, Fresh
  <2> QED  BY <2>2 DEF Init, Reachable, Reach
<1>2. IInv /\ Reachable /\ [Next]_vars => Reachable'
  <2> SUFFICES ASSUME IInv, Reachable, [Next]_vars PROVE Reachable'
    OBVIOUS
  <2>1. ASSUME NEW r \in Requests, RunStore(r) \/ Budget(r) \/ Provider(r) \/ Crash(r)
        PROVE  Reachable'
    BY <2>1, RunStoreReach, ReadUserReach, WriteUserReach, IndexReach, ProviderReach DEF Budget
  <2>2. CASE Tick
    BY <2>2, TickReach
  <2>3. CASE UNCHANGED vars
    <3>1. Opened' = Opened /\ \A S : Fresh(S)' = Fresh(S)
      BY <2>3 DEF vars, Opened, Fresh
    <3> QED  BY <2>3, <3>1 DEF vars, Reachable, Reach, Finds, Own
  <2> QED  BY <2>1, <2>2, <2>3 DEF Next
<1>3. IInv /\ Reachable => ReservationsReachable
  <2> SUFFICES ASSUME IInv, Reachable, user # Absent, NEW hold \in Fresh(user.held)
               PROVE  \/ hold.call \in dead
                      \/ At(hold.call, "index")
                      \/ Indexed(hold.call) /\ (At(hold.call, "calling")
                                                \/ req[hold.call].op \in {"charge", "give back"})
    BY DEF ReservationsReachable
  <2>1. user \in Account /\ Opened = user
    BY DEF IInv, Types, Opened, Known
  <2>2. hold.call \in Requests /\ hold \in Own(Fresh(Opened.held), hold.call)
    BY <2>1 DEF Own, Fresh, Account, Hold
  <2>3. Finds(hold.call, hold)
    BY <2>2 DEF Reachable, Reach
  <2> QED  BY <2>3, AbsentAssumption DEF Finds, At, Indexed
<1> QED  BY <1>1, <1>2, <1>3, Invariance, PTL DEF Spec

-----------------------------------------------------------------------------
(* The steps of a run, across the processes.                               *)

Slots == {"none", "live", "stale"}

(* Before its update of the run a request holds a slot unless it is about  *)
(* to take one; from then on it holds one until it has reported.           *)
SlotFits(r) ==
    /\ req[r].step \in {"new", "sweep", "unlist", "read run", "write run"} =>
           (slot[r] = "none" <=> req[r].op = "reserve")
    /\ req[r].step \in {"pop", "delete"} =>
           (After(req[r]) = "read user" => slot[r] # "none")
    /\ req[r].step \in {"read user", "write user", "index", "calling"} => slot[r] # "none"

SeesRun(r) ==
    req[r].step = "write run" /\ ~req[r].touched => req[r].seen = runs[RunOf[r]]

(* A run's entry e beside h requests that hold its slots, and f reports it *)
(* took from slots of an incarnation it lost.                              *)
Counted(e, h, f) ==
    /\ e.pending <= h
    /\ h <= e.pending + f
    /\ e.steps + h <= MaxSteps + f

RunCounted(run) ==
    IF runs[run] = Absent THEN Holders(run) = {}
    ELSE Counted(runs[run], Cardinality(Holders(run)), foreign[run])

FleetInv ==
    /\ slot \in [Requests -> Slots]
    /\ foreign \in [Runs -> Nat]
    /\ \A r \in Requests : SlotFits(r) /\ SeesRun(r)
    /\ \A run \in Runs : RunCounted(run)
-----------------------------------------------------------------------------
(* A run has finitely many holders.                                        *)
LEMMA HoldersFinite ==
    ASSUME NEW run
    PROVE  /\ IsFiniteSet(Holders(run)) /\ Cardinality(Holders(run)) \in Nat
<1>1. Holders(run) \subseteq Requests /\ IsFiniteSet(Requests)
  BY StoresAssumption DEF Holders
<1> QED  BY <1>1, FS_Subset, FS_CardinalityType

(* What each update makes of the count.                                    *)
LEMMA TakeCounts ==
    ASSUME NEW e \in RunState, NEW h \in Nat, NEW f \in Nat, Counted(e, h, f), ~Exceeded(e)
    PROVE  Counted([Update(e, "reserve") EXCEPT !.at = now], h + 1, f)
<1>1. e.steps \in Nat /\ e.pending \in Nat /\ MaxSteps \in Nat
  BY StoresAssumption DEF RunState
<1>2. /\ [Update(e, "reserve") EXCEPT !.at = now].steps = e.steps
      /\ [Update(e, "reserve") EXCEPT !.at = now].pending = e.pending + 1
  BY DEF Update, RunState
<1>3. e.steps + e.pending < MaxSteps
  BY <1>1 DEF Exceeded
<1> QED  BY <1>1, <1>2, <1>3 DEF Counted

(* A run that refuses a step counts as before.                             *)
LEMMA RefuseCounts ==
    ASSUME NEW e \in RunState, NEW h \in Nat, NEW f \in Nat, Counted(e, h, f), Exceeded(e)
    PROVE  Counted([Update(e, "reserve") EXCEPT !.at = now], h, f)
<1>1. /\ [Update(e, "reserve") EXCEPT !.at = now].steps = e.steps
      /\ [Update(e, "reserve") EXCEPT !.at = now].pending = e.pending
  BY DEF Update, RunState
<1> QED  BY <1>1 DEF Counted

(* A request that holds a slot of this incarnation gives it back: h falls; *)
(* one that holds none of it makes it one report more.                     *)
LEMMA GiveBackCounts ==
    ASSUME NEW e \in RunState, NEW h \in Nat, NEW f \in Nat, Counted(e, h, f),
           NEW op \in {"record", "release"}, NEW h1 \in Nat, NEW f1 \in Nat,
           \/ h = h1 + 1 /\ f1 = f
           \/ h1 = h /\ f1 = f + 1
    PROVE  Counted([Update(e, op) EXCEPT !.at = now], h1, f1)
<1> DEFINE s == [Update(e, op) EXCEPT !.at = now]
<1>1. e.steps \in Nat /\ e.pending \in Nat /\ MaxSteps \in Nat
  BY StoresAssumption DEF RunState
<1>2. s.steps \in {e.steps, e.steps + 1} /\ s.pending = Fewer(e.pending)
  BY DEF Update, RunState
<1>3. Fewer(e.pending) \in Nat /\ Fewer(e.pending) <= e.pending /\ e.pending <= Fewer(e.pending) + 1
      /\ (e.pending > 0 => Fewer(e.pending) = e.pending - 1)
  BY <1>1 DEF Fewer
<1>4. /\ e.pending <= h /\ h <= e.pending + f /\ e.steps + h <= MaxSteps + f
  BY DEF Counted
<1> HIDE DEF s
<1>5. s.pending <= h1 /\ h1 <= s.pending + f1
  BY <1>1, <1>2, <1>3, <1>4
<1>6. s.steps + h1 <= MaxSteps + f1
  BY <1>1, <1>2, <1>4
<1> QED  BY <1>5, <1>6 DEF Counted, s

(* The others, when request r writes the runs in gone, or none.            *)
Rest(r, gone) ==
    \A p \in Requests \ {r} :
        /\ req'[p].step = req[p].step /\ req'[p].op = req[p].op /\ req'[p].seen = req[p].seen
        /\ ~req'[p].touched => ~req[p].touched
        /\ req[p].step = "write run" /\ RunOf[p] \in gone => req'[p].touched

(* To be touched changes no other field.                                   *)
LEMMA TouchedFields ==
    ASSUME NEW x \in Record, NEW y, y = x \/ y = [x EXCEPT !.touched = TRUE]
    PROVE  y.step = x.step /\ y.op = x.op /\ y.seen = x.seen /\ (~y.touched => ~x.touched)
<1>1. CASE y = x
  BY <1>1
<1>2. CASE y = [x EXCEPT !.touched = TRUE]
  BY <1>2 DEF Record
<1> QED  BY <1>1, <1>2

(* A request that goes on changes no other request.                        *)
LEMMA GoesRest ==
    ASSUME Types, NEW r \in Requests, NEW q, Goes(r, q)
    PROVE  Rest(r, {}) /\ req'[r] = q
  BY DEF Types, Goes, Rest

(* A write to a run changes nothing of the others but that they were       *)
(* touched.                                                                *)
LEMMA RunWriteRest ==
    ASSUME Types, NEW r \in Requests, NEW q, NEW gone, WritesRun(r, q, gone)
    PROVE  Rest(r, gone) /\ req'[r] = q
<1>1. /\ \A p \in Requests \ {r} :
           req'[p] = IF req[p].step = "write run" /\ RunOf[p] \in gone
                     THEN [req[p] EXCEPT !.touched = TRUE] ELSE req[p]
      /\ req'[r] = q
  BY DEF WritesRun, Touched, Types
<1>2. ASSUME NEW p \in Requests \ {r}
      PROVE  /\ req'[p].step = req[p].step /\ req'[p].op = req[p].op /\ req'[p].seen = req[p].seen
             /\ ~req'[p].touched => ~req[p].touched
             /\ req[p].step = "write run" /\ RunOf[p] \in gone => req'[p].touched
  <2>1. req[p] \in Record /\ [req[p] EXCEPT !.touched = TRUE].touched = TRUE
    BY DEF Types, Record
  <2>2. req'[p] = req[p] \/ req'[p] = [req[p] EXCEPT !.touched = TRUE]
    BY <1>1
  <2>3. req[p].step = "write run" /\ RunOf[p] \in gone => req'[p].touched
    BY <1>1, <2>1
  <2> QED  BY <2>1, <2>2, <2>3, TouchedFields
<1> QED  BY <1>1, <1>2 DEF Rest

(* A write to the account changes nothing of the others but that they were *)
(* touched.                                                                *)
LEMMA UserWriteRest ==
    ASSUME Types, NEW r \in Requests, NEW q, WritesUser(r, q)
    PROVE  Rest(r, {}) /\ req'[r] = q
<1>1. /\ \A p \in Requests \ {r} :
           req'[p] = IF req[p].step = "write user" THEN [req[p] EXCEPT !.touched = TRUE] ELSE req[p]
      /\ req'[r] = q
  BY DEF WritesUser, Touched, Types
<1>2. \A p \in Requests \ {r} :
        req[p] \in Record /\ (req'[p] = req[p] \/ req'[p] = [req[p] EXCEPT !.touched = TRUE])
  BY <1>1 DEF Types
<1> QED  BY <1>1, <1>2, TouchedFields DEF Rest

(* So much follows for them; a slot may go stale, but is not given back.   *)
LEMMA OthersFit ==
    ASSUME FleetInv, NEW r \in Requests, NEW gone, Rest(r, gone),
           \A run \in Runs \ gone : runs'[run] = runs[run],
           \A p \in Requests \ {r} : slot'[p] = "none" <=> slot[p] = "none"
    PROVE  \A p \in Requests \ {r} : SlotFits(p)' /\ SeesRun(p)'
<1> SUFFICES ASSUME NEW p \in Requests \ {r} PROVE SlotFits(p)' /\ SeesRun(p)'
  OBVIOUS
<1>1. SlotFits(p) /\ SeesRun(p) /\ RunOf[p] \in Runs
  BY DEF FleetInv, Runs
<1>2. /\ req'[p].step = req[p].step /\ req'[p].op = req[p].op /\ req'[p].seen = req[p].seen
      /\ ~req'[p].touched => ~req[p].touched
      /\ req[p].step = "write run" /\ RunOf[p] \in gone => req'[p].touched
  BY DEF Rest
<1>3. After(req'[p]) = After(req[p])
  BY <1>2 DEF After
<1>4. SlotFits(p)'
  BY <1>1, <1>2, <1>3 DEF SlotFits, After
<1>5. SeesRun(p)'
  BY <1>1, <1>2 DEF SeesRun
<1> QED  BY <1>4, <1>5
-----------------------------------------------------------------------------
(* A step that changes neither the runs nor who holds their slots.         *)
LEMMA QuietCounts ==
    ASSUME FleetInv, NEW r \in Requests, Rest(r, {}), UNCHANGED <<runs, foreign>>,
           slot' \in [Requests -> Slots], \A p \in Requests \ {r} : slot'[p] = slot[p],
           slot'[r] = "live" <=> slot[r] = "live",
           SlotFits(r)', SeesRun(r)'
    PROVE  FleetInv'
<1>1. \A p \in Requests \ {r} : SlotFits(p)' /\ SeesRun(p)'
  BY OthersFit
<1>2. \A run : Holders(run)' = Holders(run)
  BY DEF Holders
<1>3. \A run \in Runs : RunCounted(run)'
  BY <1>2 DEF FleetInv, RunCounted
<1> QED  BY <1>1, <1>3 DEF FleetInv, Runs

(* The runs in gone are lost, and the slots of them go stale.              *)
LEMMA LossCounts ==
    ASSUME FleetInv, NEW gone, Loses(gone),
           runs' = [run \in Runs |-> IF run \in gone THEN Absent ELSE runs[run]]
    PROVE  /\ slot' \in [Requests -> Slots] /\ foreign' \in [Runs -> Nat]
           /\ \A p \in Requests : slot'[p] = "none" <=> slot[p] = "none"
           /\ \A run \in Runs : RunCounted(run)'
<1>1. /\ slot' = [r \in Requests |-> IF RunOf[r] \in gone /\ slot[r] = "live" THEN "stale"
                                     ELSE slot[r]]
      /\ foreign' = [r \in Runs |-> IF r \in gone THEN 0 ELSE foreign[r]]
  BY DEF Loses
<1>2. /\ slot' \in [Requests -> Slots] /\ foreign' \in [Runs -> Nat]
      /\ \A p \in Requests : slot'[p] = "none" <=> slot[p] = "none"
  BY <1>1 DEF FleetInv, Slots
<1>3. ASSUME NEW run \in Runs PROVE RunCounted(run)'
  <2>1. CASE run \in gone
    BY <1>1, <2>1 DEF RunCounted, Holders
  <2>2. CASE run \notin gone
    <3>1. Holders(run)' = Holders(run) /\ runs'[run] = runs[run] /\ foreign'[run] = foreign[run]
      BY <1>1, <2>2 DEF Holders
    <3> QED  BY <3>1 DEF FleetInv, RunCounted
  <2> QED  BY <2>1, <2>2
<1> QED  BY <1>2, <1>3
-----------------------------------------------------------------------------
(* The steps of the store.                                                 *)

(* Looking for expired runs counts nothing.                                *)
LEMMA HousekeepCounts ==
    ASSUME IInv, FleetInv, NEW r \in Requests, Housekeep(r)
    PROVE  FleetInv'
<1> DEFINE old == {q \in Runs : lru[q] # Absent /\ now - lru[q] >= RunTTL}
           q == [req[r] EXCEPT !.step = "sweep", !.gone = old]
<1>1. Types /\ req[r] \in Record /\ req[r].step = "new" /\ SlotFits(r)
  BY DEF IInv, Types, FleetInv, Housekeep, At
<1>2. q.step = "sweep" /\ q.op = req[r].op
  BY <1>1 DEF Record
<1>3. Goes(r, q) /\ UNCHANGED <<runs, slot, foreign>>
  BY DEF Housekeep
<1> HIDE DEF q
<1>4. Rest(r, {}) /\ req'[r] = q
  BY <1>1, <1>3, GoesRest
<1>5. SlotFits(r)' /\ SeesRun(r)'
  BY <1>1, <1>2, <1>3, <1>4 DEF SlotFits, SeesRun
<1> QED  BY <1>3, <1>4, <1>5, QuietCounts DEF FleetInv

(* Taking runs off the index counts nothing.                               *)
LEMMA UnlistCounts ==
    ASSUME IInv, FleetInv, NEW r \in Requests, Unlist(r)
    PROVE  FleetInv'
<1> DEFINE q == [req[r] EXCEPT !.step = "read run", !.gone = {}]
<1>1. Types /\ req[r] \in Record /\ req[r].step = "unlist" /\ SlotFits(r)
  BY DEF IInv, Types, FleetInv, Unlist, At
<1>2. q.step = "read run" /\ q.op = req[r].op
  BY <1>1 DEF Record
<1>3. Goes(r, q) /\ UNCHANGED <<runs, slot, foreign>>
  BY DEF Unlist
<1> HIDE DEF q
<1>4. Rest(r, {}) /\ req'[r] = q
  BY <1>1, <1>3, GoesRest
<1>5. SlotFits(r)' /\ SeesRun(r)'
  BY <1>1, <1>2, <1>3, <1>4 DEF SlotFits, SeesRun
<1> QED  BY <1>3, <1>4, <1>5, QuietCounts DEF FleetInv

(* An expired run goes with the slots its holders had in it.               *)
LEMMA SweepCounts ==
    ASSUME IInv, FleetInv, NEW r \in Requests, SweepExpired(r)
    PROVE  FleetInv'
<1> DEFINE q == [req[r] EXCEPT !.step = "unlist"]
           gone == req[r].gone
<1>1. Types /\ req[r] \in Record /\ req[r].step = "sweep" /\ SlotFits(r)
  BY DEF IInv, Types, FleetInv, SweepExpired, At
<1>2. q.step = "unlist" /\ q.op = req[r].op
  BY <1>1 DEF Record
<1>3. /\ WritesRun(r, q, gone) /\ Loses(gone)
      /\ runs' = [run \in Runs |-> IF run \in gone THEN Absent ELSE runs[run]]
  BY DEF SweepExpired
<1> HIDE DEF q, gone
<1>4. Rest(r, gone) /\ req'[r] = q
  BY <1>1, <1>3, RunWriteRest
<1>5. /\ slot' \in [Requests -> Slots] /\ foreign' \in [Runs -> Nat]
      /\ \A p \in Requests : slot'[p] = "none" <=> slot[p] = "none"
      /\ \A run \in Runs : RunCounted(run)'
  BY <1>3, LossCounts
<1>6. SlotFits(r)' /\ SeesRun(r)'
  BY <1>1, <1>2, <1>4, <1>5 DEF SlotFits, SeesRun
<1>7. \A p \in Requests \ {r} : SlotFits(p)' /\ SeesRun(p)'
  BY <1>3, <1>4, <1>5, OthersFit
<1> QED  BY <1>5, <1>6, <1>7 DEF FleetInv, Runs

(* Past the run store a request reads the account or is done.              *)
LEMMA OnwardFits ==
    ASSUME NEW q \in Record, q.op \in RunOps
    PROVE  /\ After(q) = "read user" => Onward(q).step = "read user"
           /\ After(q) # "read user" => Onward(q).step = "ended"
<1>1. After(q) \in {"read user", "ended"}
  BY DEF After
<1>2. CASE After(q) = "ended"
  <2>1. Onward(q) = Ended
    BY <1>2 DEF Onward
  <2> QED  BY <1>2, <2>1 DEF Ended
<1>3. CASE After(q) = "read user"
  <2>1. Onward(q) = [q EXCEPT !.step = "read user", !.op = "grant", !.seen = Absent, !.gone = {}]
    BY <1>3 DEF Onward
  <2>2. Onward(q).step = "read user"
    BY <2>1 DEF Record
  <2> QED  BY <1>3, <2>2
<1> QED  BY <1>1, <1>2, <1>3

(* An evicted run goes with the slots its holders had in it.               *)
LEMMA DeleteCounts ==
    ASSUME IInv, FleetInv, NEW r \in Requests, DeleteRun(r)
    PROVE  FleetInv'
<1> DEFINE q == Onward(req[r])
           gone == req[r].gone
<1>1. Types /\ req[r] \in Record /\ req[r].step = "delete" /\ SlotFits(r) /\ req[r].op \in RunOps
  BY DEF IInv, Types, FleetInv, DeleteRun, At, Sound, OpFits, RunSteps
<1>2. /\ WritesRun(r, q, gone) /\ Loses(gone)
      /\ runs' = [run \in Runs |-> IF run \in gone THEN Absent ELSE runs[run]]
  BY DEF DeleteRun
<1>3. /\ After(req[r]) = "read user" => q.step = "read user"
      /\ After(req[r]) # "read user" => q.step = "ended"
  BY <1>1, OnwardFits
<1> HIDE DEF q, gone
<1>4. Rest(r, gone) /\ req'[r] = q
  BY <1>1, <1>2, RunWriteRest
<1>5. /\ slot' \in [Requests -> Slots] /\ foreign' \in [Runs -> Nat]
      /\ \A p \in Requests : slot'[p] = "none" <=> slot[p] = "none"
      /\ \A run \in Runs : RunCounted(run)'
  BY <1>2, LossCounts
<1>6. SlotFits(r)' /\ SeesRun(r)'
  BY <1>1, <1>3, <1>4, <1>5 DEF SlotFits, SeesRun
<1>7. \A p \in Requests \ {r} : SlotFits(p)' /\ SeesRun(p)'
  BY <1>2, <1>4, <1>5, OthersFit
<1> QED  BY <1>5, <1>6, <1>7 DEF FleetInv, Runs

(* Choosing the oldest run to evict counts nothing.                        *)
LEMMA PopCounts ==
    ASSUME IInv, FleetInv, NEW r \in Requests, PopOldest(r)
    PROVE  FleetInv'
<1>1. Types /\ req[r] \in Record /\ req[r].step = "pop" /\ SlotFits(r) /\ req[r].op \in RunOps
  BY DEF IInv, Types, FleetInv, PopOldest, At, Sound, OpFits, RunSteps
<1>2. PICK q : Goes(r, q) /\ (q = Onward(req[r]) \/ \E victim \in Runs :
                 q = [req[r] EXCEPT !.step = "delete", !.gone = {victim}])
  BY DEF PopOldest, Listed
<1>3. UNCHANGED <<runs, slot, foreign>>
  BY DEF PopOldest
<1>4. Rest(r, {}) /\ req'[r] = q
  BY <1>1, <1>2, GoesRest
<1>5. SlotFits(r)' /\ SeesRun(r)'
  <2>1. CASE q = Onward(req[r])
    <3>1. /\ After(req[r]) = "read user" => q.step = "read user"
          /\ After(req[r]) # "read user" => q.step = "ended"
      BY <1>1, <2>1, OnwardFits
    <3> QED  BY <1>1, <1>3, <1>4, <3>1 DEF SlotFits, SeesRun
  <2>2. CASE \E victim \in Runs : q = [req[r] EXCEPT !.step = "delete", !.gone = {victim}]
    <3>1. q.step = "delete" /\ q.op = req[r].op /\ q.seen = req[r].seen
      BY <1>1, <2>2 DEF Record
    <3>2. After(q) = After(req[r])
      BY <3>1 DEF After
    <3> QED  BY <1>1, <1>3, <1>4, <3>1, <3>2 DEF SlotFits, SeesRun
  <2> QED  BY <1>2, <2>1, <2>2
<1> QED  BY <1>3, <1>4, <1>5, QuietCounts DEF FleetInv

(* A release that finds no run drops its slot: a stale one, if any.        *)
LEMMA ReadRunCounts ==
    ASSUME IInv, FleetInv, NEW r \in Requests, ReadRun(r)
    PROVE  FleetInv'
<1> DEFINE found == runs[RunOf[r]]
           q == [req[r] EXCEPT !.seen = found, !.touched = FALSE]
           w == [q EXCEPT !.step = "write run"]
<1>1. /\ Types /\ req[r] \in Record /\ req[r].step \in {"new", "read run"} /\ SlotFits(r)
      /\ req[r].op \in RunOps /\ found \in RunState \cup {Absent} /\ RunOf[r] \in Runs
      /\ RunCounted(RunOf[r])
  BY DEF IInv, Types, FleetInv, ReadRun, At, Runs, Sound, OpFits, RunSteps
<1>2. /\ q.op = req[r].op /\ q \in Record
      /\ w.step = "write run" /\ w.op = req[r].op /\ w.seen = found
  BY <1>1 DEF Record
<1>3. /\ Goes(r, IF q.op = "release" /\ found = Absent THEN Onward(q) ELSE w)
      /\ slot' = IF q.op = "release" /\ found = Absent THEN [slot EXCEPT ![r] = "none"] ELSE slot
      /\ UNCHANGED <<runs, foreign>>
  BY DEF ReadRun
<1>4. PICK x : Goes(r, x) /\ x = IF q.op = "release" /\ found = Absent THEN Onward(q) ELSE w
  BY <1>3
<1> HIDE DEF q, w
<1>5. Rest(r, {}) /\ req'[r] = x
  BY <1>1, <1>4, GoesRest
<1>6. CASE q.op = "release" /\ found = Absent
  <2>1. slot[r] # "live"
    BY <1>1, <1>6 DEF RunCounted, Holders
  <2>2. x.step = "ended"
    <3>1. After(q) # "read user"
      BY <1>6 DEF After
    <3> QED  BY <1>1, <1>2, <1>4, <1>6, <3>1, OnwardFits
  <2>3. SlotFits(r)' /\ SeesRun(r)'
    BY <1>5, <2>2 DEF SlotFits, SeesRun
  <2>4. /\ slot' \in [Requests -> Slots] /\ slot'[r] = "none"
        /\ \A p \in Requests \ {r} : slot'[p] = slot[p]
    BY <1>3, <1>6 DEF FleetInv, Slots
  <2> QED  BY <1>3, <1>5, <2>1, <2>3, <2>4, QuietCounts
<1>7. CASE ~(q.op = "release" /\ found = Absent)
  <2>1. x = w /\ slot' = slot
    BY <1>3, <1>4, <1>7
  <2>2. SlotFits(r)' /\ SeesRun(r)'
    BY <1>1, <1>2, <1>3, <1>5, <2>1 DEF SlotFits, SeesRun
  <2> QED  BY <1>3, <1>5, <2>1, <2>2, QuietCounts DEF FleetInv
<1> QED  BY <1>6, <1>7

(* The transaction that goes through writes what it read, updated.         *)
LEMMA WrittenFits ==
    ASSUME NEW r \in Requests, req[r] \in Record, req[r].op \in RunOps,
           NEW q, q = Written(r)
    PROVE  \/ q.step = "pop" /\ After(q) = After(req[r])
           \/ q.step = "read user" /\ After(req[r]) = "read user"
           \/ q.step = "ended"
<1>1. q = [req[r] EXCEPT !.step = "pop"] \/ q = Onward(req[r])
  BY DEF Written
<1>2. CASE q = [req[r] EXCEPT !.step = "pop"]
  <2>1. q.step = "pop" /\ q.op = req[r].op /\ q.seen = req[r].seen
    BY <1>2 DEF Record
  <2> QED  BY <2>1 DEF After
<1>3. CASE q = Onward(req[r])
  BY <1>3, OnwardFits
<1> QED  BY <1>1, <1>2, <1>3

(* An update that was not touched writes over what it read: a step         *)
(* granted, recorded or released is counted once.                          *)
LEMMA WriteRunCounts ==
    ASSUME IInv, FleetInv, NEW r \in Requests, WriteRun(r)
    PROVE  FleetInv'
<1> DEFINE run == RunOf[r]
           e == Known(runs[run], NewRun)
           op == req[r].op
           next == [Update(e, op) EXCEPT !.at = now]
           taken == op = "reserve" /\ ~Exceeded(e)
<1>1. /\ Types /\ req[r] \in Record /\ req[r].step = "write run" /\ SlotFits(r) /\ SeesRun(r)
      /\ op \in RunOps /\ run \in Runs /\ RunCounted(run) /\ now \in Nat
      /\ runs \in [Runs -> RunState \cup {Absent}] /\ foreign \in [Runs -> Nat]
      /\ slot \in [Requests -> Slots]
  BY DEF IInv, Types, FleetInv, WriteRun, At, Runs, Sound, OpFits, RunSteps
<1>2. CASE req[r].touched
  <2> DEFINE q == [req[r] EXCEPT !.step = "read run", !.seen = Absent, !.touched = FALSE]
  <2>1. q.step = "read run" /\ q.op = op
    BY <1>1 DEF Record
  <2>2. Goes(r, q) /\ UNCHANGED <<runs, slot, foreign>>
    BY <1>2 DEF WriteRun
  <2> HIDE DEF q
  <2>3. Rest(r, {}) /\ req'[r] = q
    BY <1>1, <2>2, GoesRest
  <2>4. SlotFits(r)' /\ SeesRun(r)'
    BY <1>1, <2>1, <2>2, <2>3 DEF SlotFits, SeesRun
  <2> QED  BY <2>2, <2>3, <2>4, QuietCounts DEF FleetInv
<1>3. CASE ~req[r].touched
  <2>1. req[r].seen = runs[run]
    BY <1>1, <1>3 DEF SeesRun
  <2>2. /\ runs' = [runs EXCEPT ![run] = next]
        /\ WritesRun(r, Written(r), {run})
        /\ slot' = [slot EXCEPT ![r] = IF taken THEN "live" ELSE "none"]
        /\ foreign' = IF slot[r] = "stale" THEN [foreign EXCEPT ![run] = @ + 1] ELSE foreign
    BY <1>3, <2>1 DEF WriteRun
  <2>3. After(req[r]) = "read user" <=> taken
    BY <2>1 DEF After
  <2>4. e \in RunState
    BY <1>1 DEF Known, NewRun, RunState
  <2>5. next \in RunState /\ next # Absent
    <3>1. runs[run] \in RunState \cup {Absent}
      BY <1>1
    <3>2. next \in RunState
      BY <1>1, <3>1, UpdateOK
    <3> HIDE DEF next
    <3> QED  BY <3>2, AbsentAssumption
  <2>6. Counted(e, Cardinality(Holders(run)), foreign[run])
    <3>1. CASE runs[run] = Absent
      <4>1. Holders(run) = {} /\ e.steps = 0 /\ e.pending = 0
        BY <1>1, <3>1 DEF RunCounted, Known, NewRun
      <4>2. Cardinality(Holders(run)) = 0 /\ foreign[run] \in Nat /\ MaxSteps \in Nat
        BY <1>1, <4>1, FS_EmptySet, StoresAssumption
      <4> HIDE DEF e
      <4> QED  BY <4>1, <4>2 DEF Counted
    <3>2. CASE runs[run] # Absent
      BY <1>1, <3>2 DEF RunCounted, Known
    <3> QED  BY <3>1, <3>2
  <2>7. PICK q : q = Written(r) /\ Rest(r, {run}) /\ req'[r] = q
    BY <1>1, <2>2, RunWriteRest
  <2>8. \/ q.step = "pop" /\ After(q) = After(req[r])
        \/ q.step = "read user" /\ After(req[r]) = "read user"
        \/ q.step = "ended"
    BY <1>1, <2>7, WrittenFits
  <2> HIDE DEF next, e, taken, run
  <2>9. /\ slot' \in [Requests -> Slots] /\ foreign' \in [Runs -> Nat]
        /\ slot'[r] = (IF taken THEN "live" ELSE "none")
        /\ \A p \in Requests \ {r} : slot'[p] = slot[p]
        /\ runs'[run] = next
        /\ \A other \in Runs \ {run} : runs'[other] = runs[other] /\ foreign'[other] = foreign[other]
        /\ foreign'[run] = IF slot[r] = "stale" THEN foreign[run] + 1 ELSE foreign[run]
    <3>1. foreign[run] + 1 \in Nat
      <4>1. run \in Runs /\ foreign[run] \in Nat
        BY <1>1
      <4> DEFINE f == foreign[run]
      <4> HIDE DEF f
      <4>2. f \in Nat
        BY <4>1 DEF f
      <4> QED  BY <4>2 DEF f
    <3>2. foreign' \in [Runs -> Nat]
          /\ foreign'[run] = (IF slot[r] = "stale" THEN foreign[run] + 1 ELSE foreign[run])
          /\ \A other \in Runs \ {run} : foreign'[other] = foreign[other]
      BY <1>1, <2>2, <3>1
    <3>3. /\ slot' \in [Requests -> Slots]
          /\ slot'[r] = (IF taken THEN "live" ELSE "none")
          /\ \A p \in Requests \ {r} : slot'[p] = slot[p]
      BY <1>1, <2>2 DEF Slots
    <3>4. runs'[run] = next /\ \A other \in Runs \ {run} : runs'[other] = runs[other]
      BY <1>1, <2>2
    <3> QED  BY <3>2, <3>3, <3>4
  <2>10. SlotFits(r)' /\ SeesRun(r)'
    BY <2>3, <2>7, <2>8, <2>9 DEF SlotFits, SeesRun, After
  <2>11. \A p \in Requests \ {r} : SlotFits(p)' /\ SeesRun(p)'
    BY <2>7, <2>9, OthersFit
  <2>12. ASSUME NEW other \in Runs \ {run} PROVE RunCounted(other)'
    <3>1. Holders(other)' = Holders(other)
      BY <2>9 DEF Holders, run
    <3> QED  BY <2>9, <3>1 DEF FleetInv, RunCounted
  <2>13. RunCounted(run)'
    <3> DEFINE h == Cardinality(Holders(run))
               f == foreign[run]
    <3>1. h \in Nat /\ f \in Nat /\ IsFiniteSet(Holders(run))
      BY <1>1, HoldersFinite
    <3>2. \A p \in Requests \ {r} : p \in Holders(run)' <=> p \in Holders(run)
      BY <2>9 DEF Holders
    <3>3. CASE taken
      <4>1. slot[r] = "none" /\ op = "reserve" /\ ~Exceeded(e)
        BY <1>1, <3>3 DEF SlotFits, taken
      <4>2. r \notin Holders(run) /\ Holders(run)' = Holders(run) \cup {r}
        BY <2>9, <3>2, <3>3, <4>1 DEF Holders, run
      <4>3. Cardinality(Holders(run)') = h + 1
        BY <3>1, <4>2, FS_AddElement
      <4>4. Counted(next, h + 1, f)
        BY <2>4, <2>6, <3>1, <4>1, TakeCounts DEF next
      <4> QED  BY <2>5, <2>9, <4>1, <4>3, <4>4 DEF RunCounted, Counted
    <3>4. CASE op = "reserve" /\ ~taken
      <4>1. slot[r] = "none" /\ Exceeded(e)
        BY <1>1, <3>4 DEF SlotFits, taken
      <4>2. Holders(run)' = Holders(run)
        BY <2>9, <3>2, <3>4, <4>1 DEF Holders
      <4>3. Counted(next, h, f)
        BY <2>4, <2>6, <3>1, <3>4, <4>1, RefuseCounts DEF next
      <4> QED  BY <2>5, <2>9, <4>1, <4>2, <4>3 DEF RunCounted, Counted
    <3>5. CASE op # "reserve"
      <4>1. slot[r] \in {"live", "stale"} /\ ~taken /\ op \in {"record", "release"}
        BY <1>1, <3>5 DEF SlotFits, taken, Slots, RunOps
      <4>2. r \notin Holders(run)'
        BY <2>9, <4>1 DEF Holders
      <4>3. CASE slot[r] = "live"
        <5>1. r \in Holders(run) /\ Holders(run)' = Holders(run) \ {r}
          BY <3>2, <4>2, <4>3 DEF Holders, run
        <5>2. Cardinality(Holders(run)') = h - 1 /\ IsFiniteSet(Holders(run)')
          BY <3>1, <5>1, FS_RemoveElement
        <5>3. Cardinality(Holders(run)') \in Nat
          BY <5>2, FS_CardinalityType
        <5>4. h = Cardinality(Holders(run)') + 1
          BY <3>1, <5>2
        <5>5. Counted(next, Cardinality(Holders(run)'), f)
          <6> DEFINE h1 == Cardinality(Holders(run)')
          <6> HIDE DEF h, h1
          <6>1. h1 \in Nat /\ h = h1 + 1
            BY <5>3, <5>4 DEF h1
          <6>2. Counted(e, h, f)
            BY <2>6 DEF h
          <6> QED  BY <2>4, <3>1, <4>1, <6>1, <6>2, GiveBackCounts DEF next, h1
        <5> QED  BY <2>5, <2>9, <4>3, <5>5 DEF RunCounted, Counted
      <4>4. CASE slot[r] = "stale"
        <5>1. Holders(run)' = Holders(run)
          BY <3>2, <4>2, <4>4 DEF Holders
        <5>2. Counted(next, h, f + 1)
          <6> HIDE DEF h, f
          <6>1. Counted(e, h, f) /\ f + 1 \in Nat
            BY <2>6, <3>1 DEF h, f
          <6> QED  BY <2>4, <3>1, <4>1, <6>1, GiveBackCounts DEF next
        <5> QED  BY <2>5, <2>9, <4>4, <5>1, <5>2 DEF RunCounted, Counted
      <4> QED  BY <4>1, <4>3, <4>4
    <3> QED  BY <3>3, <3>4, <3>5
  <2> QED  BY <2>9, <2>10, <2>11, <2>12, <2>13 DEF FleetInv, Runs
<1> QED  BY <1>2, <1>3
-----------------------------------------------------------------------------
(* The steps after it: the slot is kept, until the run is told.            *)
LEMMA KeptCounts ==
    ASSUME FleetInv, NEW r \in Requests, NEW q, Rest(r, {}), req'[r] = q,
           UNCHANGED <<runs, slot, foreign>>,
           \/ q.step = "ended"
           \/ /\ req[r].step \in {"read user", "write user", "index", "calling"}
              /\ \/ q.step \in {"read user", "write user", "index", "calling"}
                 \/ q.step = "read run" /\ q.op # "reserve"
    PROVE  FleetInv'
<1>1. SlotFits(r)' /\ SeesRun(r)'
  BY DEF FleetInv, SlotFits, SeesRun
<1> QED  BY <1>1, QuietCounts DEF FleetInv

(* A record that tells the run: the slot is given back, or the step is.    *)
LEMMA TellsRun ==
    ASSUME NEW r \in Requests, req[r] \in Record
    PROVE  /\ GivesBackSlot(r).step = "read run" /\ GivesBackSlot(r).op # "reserve"
           /\ Reports(r).step = "read run" /\ Reports(r).op # "reserve"
<1>1. GivesBackSlot(r).step = "read run" /\ GivesBackSlot(r).op = "release"
  BY DEF GivesBackSlot, Record
<1>2. /\ Reports(r).step = "read run"
      /\ Reports(r).op = IF req[r].op = "charge" THEN "record" ELSE "release"
  BY DEF Reports, Record
<1> QED  BY <1>1, <1>2

(* The account's transactions count no step.                               *)
LEMMA BudgetCounts ==
    ASSUME IInv, FleetInv, NEW r \in Requests, Budget(r)
    PROVE  FleetInv'
<1>1. Types /\ req[r] \in Record
  BY DEF IInv, Types
<1> DEFINE Moves(q) == \/ q.step \in {"read user", "write user", "index", "calling"}
                       \/ q.step = "read run" /\ q.op # "reserve"
<1>2. CASE ReadUser(r)
  <2> DEFINE w == [[req[r] EXCEPT !.seen = user, !.touched = FALSE] EXCEPT !.step = "write user"]
  <2>1. w.step = "write user"
    BY <1>1 DEF Record
  <2>2. PICK q : Goes(r, q) /\ q \in {GivesBackSlot(r), Reports(r), w}
    BY <1>2 DEF ReadUser
  <2> HIDE DEF w
  <2>3. Moves(q) /\ Goes(r, q)
    BY <1>1, <2>1, <2>2, TellsRun
  <2>4. Rest(r, {}) /\ req'[r] = q
    BY <1>1, <2>3, GoesRest
  <2> QED  BY <1>2, <2>3, <2>4, KeptCounts DEF ReadUser, At
<1>3. CASE WriteUser(r)
  <2> DEFINE again == [req[r] EXCEPT !.step = "read user", !.seen = Absent, !.touched = FALSE]
             granted == [req[r] EXCEPT !.step = "index", !.seen = Absent]
  <2>1. again.step = "read user" /\ granted.step = "index"
    BY <1>1 DEF Record
  <2>2. UserWritten(r) \in {granted, Reports(r)}
    BY DEF UserWritten
  <2> HIDE DEF again, granted
  <2>3. PICK q : q \in {again, granted, Reports(r)} /\ Rest(r, {}) /\ req'[r] = q
    <3>1. CASE req[r].touched
      BY <1>1, <1>3, <3>1, GoesRest DEF WriteUser, again
    <3>2. CASE ~req[r].touched
      BY <1>1, <1>3, <2>2, <3>2, UserWriteRest DEF WriteUser
    <3> QED  BY <3>1, <3>2
  <2>4. Moves(q)
    BY <1>1, <2>1, <2>3, TellsRun
  <2> QED  BY <1>3, <2>3, <2>4, KeptCounts DEF WriteUser, At
<1>4. CASE IndexReservation(r)
  <2>1. [req[r] EXCEPT !.step = "calling"].step = "calling"
    BY <1>1 DEF Record
  <2>2. PICK q : Goes(r, q) /\ q.step = "calling"
    BY <1>4, <2>1 DEF IndexReservation
  <2>3. Rest(r, {}) /\ req'[r] = q
    BY <1>1, <2>2, GoesRest
  <2> QED  BY <1>4, <2>2, <2>3, KeptCounts DEF IndexReservation, At
<1> QED  BY <1>2, <1>3, <1>4 DEF Budget

(* An answer or a failure counts no step.                                  *)
LEMMA ProviderCounts ==
    ASSUME IInv, FleetInv, NEW r \in Requests, Provider(r)
    PROVE  FleetInv'
<1>1. Types /\ req[r] \in Record
  BY DEF IInv, Types
<1>2. UNCHANGED <<runs, slot, foreign>> /\ req[r].step = "calling"
  BY DEF Provider, Answered, Failed, At
<1>3. PICK q : Goes(r, q) /\ (\/ q.step = "read user"
                            \/ (q.step = "read run" /\ q.op # "reserve"))
  <2>1. CASE Failed(r)
    <3>1. [req[r] EXCEPT !.step = "read user", !.op = "give back"].step = "read user"
      BY <1>1 DEF Record
    <3> QED  BY <1>1, <2>1, <3>1, TellsRun DEF Failed
  <2>2. CASE \E paid \in Paid : Answered(r, paid)
    <3>1. PICK paid \in Paid : Answered(r, paid)
      BY <2>2
    <3>2. [req[r] EXCEPT !.step = "read user", !.op = "charge", !.paid = paid].step = "read user"
      BY <1>1 DEF Record
    <3> QED  BY <1>1, <3>1, <3>2, TellsRun DEF Answered
  <2> QED  BY <2>1, <2>2 DEF Provider
<1>4. Rest(r, {}) /\ req'[r] = q
  BY <1>1, <1>3, GoesRest
<1> QED  BY <1>2, <1>3, <1>4, KeptCounts

(* A process that stops keeps the slots it holds.                          *)
LEMMA CrashCounts ==
    ASSUME IInv, FleetInv, NEW r \in Requests, Crash(r)
    PROVE  FleetInv'
<1>1. Types /\ Goes(r, Ended) /\ UNCHANGED <<runs, slot, foreign>> /\ Ended.step = "ended"
  BY DEF IInv, Crash, Ended
<1>2. Rest(r, {}) /\ req'[r] = Ended
  BY <1>1, GoesRest
<1> QED  BY <1>1, <1>2, KeptCounts

(* Keys expire between no read of a transaction and its write.             *)
LEMMA TickCounts ==
    ASSUME FleetInv, Tick
    PROVE  FleetInv'
<1>1. /\ Loses(Expiring) /\ req' = req
      /\ runs' = [run \in Runs |-> IF run \in Expiring THEN Absent ELSE runs[run]]
      /\ \A r \in Requests : req[r].step # "write run"
  BY DEF Tick, At
<1>2. /\ slot' \in [Requests -> Slots] /\ foreign' \in [Runs -> Nat]
      /\ \A p \in Requests : slot'[p] = "none" <=> slot[p] = "none"
      /\ \A run \in Runs : RunCounted(run)'
  BY <1>1, LossCounts
<1>3. \A r \in Requests : SlotFits(r)' /\ SeesRun(r)'
  BY <1>1, <1>2 DEF FleetInv, SlotFits, SeesRun, After
<1> QED  BY <1>2, <1>3 DEF FleetInv, Runs

(* No slot is held and no run is counted yet.                              *)
LEMMA FleetInit == Init => FleetInv
<1> SUFFICES ASSUME Init PROVE FleetInv
  OBVIOUS
<1>1. \A r \in Requests : SlotFits(r) /\ SeesRun(r)
  BY DEF Init, SlotFits, SeesRun
<1>2. \A run \in Runs : RunCounted(run)
  BY DEF Init, RunCounted, Holders
<1> QED  BY <1>1, <1>2 DEF Init, FleetInv, Slots

(* Across the processes, a run's steps, completed and in flight, stay      *)
(* within its limit, but for the reports it took from slots of a state it  *)
(* lost; and a slot is counted only for a request that holds it.           *)
THEOREM FleetStepLimit == Spec => []StepLimitAcrossFleet
<1>1. Init => FleetInv
  BY FleetInit
<1>2. IInv /\ FleetInv /\ [Next]_vars => FleetInv'
  <2> SUFFICES ASSUME IInv, FleetInv, [Next]_vars PROVE FleetInv'
    OBVIOUS
  <2>1. ASSUME NEW r \in Requests, RunStore(r) PROVE FleetInv'
    BY <2>1, HousekeepCounts, SweepCounts, UnlistCounts, ReadRunCounts, WriteRunCounts,
       PopCounts, DeleteCounts DEF RunStore
  <2>2. ASSUME NEW r \in Requests, Budget(r) \/ Provider(r) \/ Crash(r) PROVE FleetInv'
    BY <2>2, BudgetCounts, ProviderCounts, CrashCounts
  <2>3. CASE Tick
    BY <2>3, TickCounts
  <2>4. CASE UNCHANGED vars
    BY <2>4 DEF vars, FleetInv, SlotFits, SeesRun, RunCounted, Holders, After
  <2> QED  BY <2>1, <2>2, <2>3, <2>4 DEF Next
<1>3. FleetInv => StepLimitAcrossFleet
  <2> SUFFICES ASSUME FleetInv, NEW run \in Runs, runs[run] # Absent
               PROVE  /\ runs[run].steps + Cardinality(Holders(run)) <= MaxSteps + foreign[run]
                      /\ runs[run].pending <= Cardinality(Holders(run))
    BY DEF StepLimitAcrossFleet
  <2> QED  BY DEF FleetInv, RunCounted, Counted
<1> QED  BY <1>1, <1>2, <1>3, Invariance, PTL DEF Spec
=============================================================================
