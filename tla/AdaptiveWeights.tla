---------------------------- MODULE AdaptiveWeights ----------------------------
(***************************************************************************)
(* What the router learns about the quality of its models                  *)
(* (router/adaptive_weights.py): a moving average per (model, task) key,   *)
(* the same per customer, guardrails that reject outliers and roll back a  *)
(* degraded state, and a JSON file that carries the averages over a        *)
(* restart.                                                                *)
(*                                                                         *)
(* Threads share it.  Everything that touches the memory runs under one    *)
(* lock and is a step; an image for the file is taken under that lock, but *)
(* written after it is released, as a step of its own.                     *)
(*                                                                         *)
(* Qualities are integers, 0 .. Best.  Of the running mean and variance of *)
(* a key only the count is kept: whether a signal is an outlier is open    *)
(* once there are enough of them.                                          *)
(***************************************************************************)
EXTENDS Integers, FiniteSets, FiniteSetsExt, Functions, SequencesExt, Lists

CONSTANTS
    Threads,
    Keys,              \* (model, task type) pairs
    Customers,
    Anyone,            \* no customer: a global signal
    NoImage,           \* nothing to write; no file
    Best,              \* the highest quality
    Scores,            \* the observations
    OldFiles,          \* files older versions left: format 0 (no customers) or 1
    Base,              \* the static rating of each key
    DecayFactor,       \* ADAPTIVE_DECAY_FACTOR, in percent
    Decays,            \* other factors an operator may set for a key
    MaxOverrides,      \* MAX_DECAY_OVERRIDES
    MinSamples,        \* ADAPTIVE_MIN_SAMPLES
    OwnMinSamples,     \* PER_CUSTOMER_MIN_SAMPLES
    QualityFloor,      \* _QUALITY_FLOOR
    WriteInterval,     \* _WRITE_INTERVAL
    SnapshotInterval,  \* _SNAPSHOT_INTERVAL
    EnoughStats,       \* signals before outliers are rejected (10)
    RatePerCustomer,   \* RECORD_RATE_PER_CUSTOMER_PER_S
    MaxKeys,           \* MAX_ADAPTIVE_KEYS
    MaxCustomers,      \* MAX_CUSTOMERS
    LogMax,            \* ADAPTIVE_CUSTOMER_LOG_MAX
    MaxSignals         \* bound: signals accepted

ASSUME AdaptiveAssumption ==
    /\ Anyone \notin Customers
    /\ {"file", "lost"} \cap Threads = {}
    /\ Decays \subseteq 1 .. 99
    /\ {MinSamples, OwnMinSamples} \subseteq Nat
    /\ {WriteInterval, SnapshotInterval, RatePerCustomer, MaxCustomers, LogMax} \subseteq Nat \ {0}
    /\ {Best, QualityFloor} \subseteq Nat /\ DecayFactor \in 1 .. 99
    /\ Scores \subseteq Int /\ Base \in [Keys -> Nat]

(* Files hold ratings of keys, and are loaded whole: that an old one knows *)
(* no more customers than the cap is up to the version that wrote it.      *)
ASSUME FilesAssumption ==
    \A f \in OldFiles : LET known == DOMAIN f.image.customers  rated == DOMAIN f.image.global IN
        /\ known \subseteq Customers /\ IsFiniteSet(known) /\ Cardinality(known) <= MaxCustomers
        /\ IsFiniteSet(rated) /\ \A k \in rated : f.image.global[k] \in [avg : Nat, n : Nat]

VARIABLES
    mem,       \* the fields of the object, see Fresh
    pending,   \* the image each thread has still to write, or NoImage
    file,      \* [format, image], or NoImage
    \* History:
    newest,    \* where the image taken last is: with a thread, in the file, lost
    undone,    \* the memory was rolled back, or not loaded, since that image
    signals    \* signals accepted, by all processes

vars == <<mem, pending, file, newest, undone, signals>>

NoWeights == [k \in {} |-> 0]

Fresh == [state |-> NoWeights, stats |-> NoWeights, own |-> NoWeights, log |-> NoWeights,
          recent |-> NoWeights, decay |-> NoWeights, lru |-> <<>>, dirty |-> 0, total |-> 0, snapshot |-> <<>>]

Set(f, x, v) == [y \in DOMAIN f \cup {x} |-> IF y = x THEN v ELSE f[y]]
Lookup(f, x, default) == IF x \in DOMAIN f THEN f[x] ELSE default

(* What the file is to hold of a memory.                                   *)
Image(m) == [global |-> m.state, customers |-> m.own]
-----------------------------------------------------------------------------
(* The averages.                                                           *)

Clamped(score) == Max({0, Min({Best, score})})

NoEntry(k) == [avg |-> Base[k], n |-> 0]
UpdateEma(weights, k, score, decay) ==
    LET old == Lookup(weights, k, NoEntry(k))
        avg == (decay * old.avg + (100 - decay) * Clamped(score)) \div 100
    IN  Set(weights, k, [avg |-> Max({QualityFloor, avg}), n |-> old.n + 1])

Unless(few, entry, otherwise) ==
    IF entry.n < few THEN otherwise ELSE Max({QualityFloor, Min({Best, entry.avg})})
(* The rating of a key for a customer: what was learnt from the customer,  *)
(* or else from all, or else the static one.                               *)
AdjustedScore(m, k, c) ==
    Unless(OwnMinSamples, Lookup(Lookup(m.own, c, NoWeights), k, [avg |-> 0, n |-> -1]),
        Unless(MinSamples, Lookup(m.state, k, NoEntry(k)), Base[k]))

(* What an operator is told of a customer.                                 *)
RoutingProfile(m, c) ==
    LET events == Lookup(m.log, c, 0)
        own == Lookup(m.own, c, NoWeights)
    IN  [requests |-> events,
         custom |-> events > 0 /\ \E k \in DOMAIN own : own[k].n >= OwnMinSamples]

Quality(weights) == MapThenSumSet(LAMBDA k : weights[k].avg, DOMAIN weights)

(* The mean quality has fallen below nine tenths of what it was.           *)
Degraded(weights, baseline) ==
    10 * Quality(weights) * Cardinality(DOMAIN baseline)
        < 9 * Quality(baseline) * Cardinality(DOMAIN weights)

TouchForgetsLog(m, c) ==
    IF c \in ToSet(m.lru) THEN [m EXCEPT !.lru = Append(Without(@, {c}), c)]
    ELSE IF Len(m.lru) < MaxCustomers THEN [m EXCEPT !.lru = Append(@, c)]
    ELSE LET others == Customers \ {Head(m.lru)} IN
         [m EXCEPT !.lru = Append(Tail(@), c), !.own = Restrict(@, DOMAIN @ \cap others),
                   !.recent = Restrict(@, DOMAIN @ \cap others)]
(* A customer becomes the most recent one, if need be in the place of the  *)
(* least recent one, of whom everything is forgotten.                      *)
Touch(m, c) ==
    IF c \in ToSet(m.lru) THEN [m EXCEPT !.lru = Append(Without(@, {c}), c)]
    ELSE IF Len(m.lru) < MaxCustomers THEN [m EXCEPT !.lru = Append(@, c)]
    ELSE LET others == Customers \ {Head(m.lru)} IN
         [m EXCEPT !.lru = Append(Tail(@), c), !.own = Restrict(@, DOMAIN @ \cap others),
                   !.log = Restrict(@, DOMAIN @ \cap others),
                   !.recent = Restrict(@, DOMAIN @ \cap others)]

(* Which answers the outlier guard may give.                               *)
Verdicts(m, k) == IF Lookup(m.stats, k, 0) < EnoughStats THEN {TRUE} ELSE BOOLEAN

UpdateSignalStats(stats, k) ==
    IF k \in DOMAIN stats \/ Cardinality(DOMAIN stats) < MaxKeys
    THEN Set(stats, k, Lookup(stats, k, 0) + 1) ELSE stats

Learn(m, k, score, c) ==
    LET decay == Lookup(m.decay, k, DecayFactor)
    IN  [m EXCEPT !.stats = UpdateSignalStats(@, k),
                  !.state = UpdateEma(@, k, score, decay),
                  !.own = IF c = Anyone THEN @
                          ELSE Set(@, c, UpdateEma(Lookup(@, c, NoWeights), k, score, decay)),
                  !.dirty = @ + 1, !.total = @ + 1]

(* Of the rolling snapshots only the newest is ever read.                  *)
MaybeSnapshot(m) ==
    IF m.total % SnapshotInterval = 0
    THEN [m EXCEPT !.snapshot = <<[state |-> m.state, stats |-> m.stats]>>] ELSE m

Corrupt(m) == /\ m.snapshot # <<>> /\ DOMAIN m.state # {}
              /\ Degraded(m.state, m.snapshot[1].state)

RollBackStatsOnly(m) == [m EXCEPT !.stats = m.snapshot[1].stats]
RollBack(m) == [m EXCEPT !.state = m.snapshot[1].state, !.stats = m.snapshot[1].stats]
-----------------------------------------------------------------------------
(* The memory a new process starts from: the customers in the order of the *)
(* file, which is not their recency.  A file of an older format counts as  *)
(* not yet written.                                                        *)
Loads(m, f) ==
    \E order \in SetToSeqs(DOMAIN f.image.customers) :
        m = [Fresh EXCEPT !.state = f.image.global, !.own = f.image.customers, !.lru = order,
                          !.dirty = IF f.format = 2 THEN 0 ELSE WriteInterval]

(* The first process may find the file of an older version of the program. *)
Init ==
    /\ file \in OldFiles \cup {NoImage}
    /\ IF file = NoImage THEN mem = Fresh ELSE Loads(mem, file)
    /\ pending = [t \in Threads |-> NoImage]
    /\ newest = "lost"
    /\ undone = FALSE
    /\ signals = 0

Idle(t) == pending[t] = NoImage

Hold(t, image) ==
    /\ pending' = [pending EXCEPT ![t] = image]
    /\ newest' = t

(* The part of record() before the signal is judged: the customer's rate   *)
(* of signals, live of them within the last second, and its recency.       *)
Greet(m, c, live) ==
    IF c = Anyone THEN m ELSE Touch([m EXCEPT !.recent = Set(@, c, live + 1)], c)

RateLimited(c, live) ==
    /\ c # Anyone
    /\ live \in 0..Lookup(mem.recent, c, 0)
    /\ live >= RatePerCustomer
    /\ mem' = [mem EXCEPT !.recent = Set(@, c, live)]
    /\ UNCHANGED <<pending, file, newest, undone, signals>>

TooManyKeys(m, k) == k \notin DOMAIN m.state /\ Cardinality(DOMAIN m.state) >= MaxKeys

Ignored(k, c, live) ==
    LET greeted == Greet(mem, c, live) IN
    /\ live \in 0..Lookup(mem.recent, c, 0) /\ live < RatePerCustomer
    /\ TooManyKeys(mem, k) \/ FALSE \in Verdicts(mem, k)
    /\ mem' = greeted
    /\ UNCHANGED <<pending, file, newest, undone, signals>>

(* An accepted signal.  The image for the file is taken before the         *)
(* snapshot and the check that may roll back what it shows.                *)
Accepted(t, k, score, c, live) ==
    LET learnt == Learn(Greet(mem, c, live), k, score, c)
        flushes == learnt.dirty >= WriteInterval
        checked == MaybeSnapshot(IF flushes THEN [learnt EXCEPT !.dirty = 0] ELSE learnt)
    IN
    /\ Idle(t)
    /\ signals < MaxSignals /\ signals' = signals + 1
    /\ live \in 0..Lookup(mem.recent, c, 0) /\ live < RatePerCustomer
    /\ ~TooManyKeys(mem, k) /\ TRUE \in Verdicts(mem, k)
    /\ mem' = IF Corrupt(checked) THEN RollBack(checked) ELSE checked
    /\ IF flushes THEN Hold(t, Image(learnt)) ELSE UNCHANGED <<pending, newest>>
    /\ undone' = (Corrupt(checked) \/ (undone /\ ~flushes))
    /\ UNCHANGED file

Record(t, k, score, c) ==
    \E live \in 0..RatePerCustomer :
        RateLimited(c, live) \/ Ignored(k, c, live) \/ Accepted(t, k, score, c, live)

RecordRoutingEvent(c) ==
    LET touched == Touch(mem, c) IN
    /\ mem' = [touched EXCEPT !.log = Set(@, c, Min({LogMax, Lookup(@, c, 0) + 1}))]
    /\ UNCHANGED <<pending, file, newest, undone, signals>>

(* In memory only.                                                         *)
SetDecayFactor(k, decay) ==
    /\ k \in DOMAIN mem.decay \/ Cardinality(DOMAIN mem.decay) < MaxOverrides
    /\ mem' = [mem EXCEPT !.decay = Set(@, k, decay)]
    /\ UNCHANGED <<pending, file, newest, undone, signals>>

(* flush(), on shutdown or by an operator.                                 *)
Flush(t) ==
    /\ Idle(t)
    /\ mem' = [mem EXCEPT !.dirty = 0]
    /\ Hold(t, Image(mem))
    /\ undone' = FALSE
    /\ UNCHANGED <<file, signals>>

WriteMarksClean(t) ==
    /\ ~Idle(t)
    /\ file' = [format |-> 2, image |-> pending[t]]
    /\ pending' = [pending EXCEPT ![t] = NoImage]
    /\ newest' = CASE newest = t -> "file" [] newest = "file" -> "lost" [] OTHER -> newest
    /\ mem' = [mem EXCEPT !.dirty = 0]
    /\ UNCHANGED <<undone, signals>>
(* The rename of the finished temporary file.  Images may be written in    *)
(* another order than they were taken.                                     *)
WriteToDisk(t) ==
    /\ ~Idle(t)
    /\ file' = [format |-> 2, image |-> pending[t]]
    /\ pending' = [pending EXCEPT ![t] = NoImage]
    /\ newest' = CASE newest = t -> "file" [] newest = "file" -> "lost" [] OTHER -> newest
    /\ UNCHANGED <<mem, undone, signals>>

(* An OSError is logged and the image dropped.                             *)
WriteFails(t) ==
    /\ ~Idle(t)
    /\ pending' = [pending EXCEPT ![t] = NoImage]
    /\ newest' = IF newest = t THEN "lost" ELSE newest
    /\ UNCHANGED <<mem, file, undone, signals>>

(* The process ends, whatever it was doing, and another one starts.        *)
Restart ==
    /\ pending' = [t \in Threads |-> NoImage]
    /\ \/ /\ file # NoImage
          /\ Loads(mem', file)
          /\ undone' = FALSE /\ newest' = "file"
       \/ /\ mem' = Fresh          \* no file, or one that cannot be read
          /\ undone' = TRUE /\ newest' = "lost"
    /\ UNCHANGED <<file, signals>>

-----------------------------------------------------------------------------
Next ==
    \/ \E t \in Threads, k \in Keys, score \in Scores, c \in Customers \cup {Anyone} :
          Record(t, k, score, c)
    \/ \E c \in Customers : RecordRoutingEvent(c)
    \/ \E k \in Keys, decay \in Decays : SetDecayFactor(k, decay)
    \/ \E t \in Threads : Flush(t) \/ WriteToDisk(t) \/ WriteFails(t)
    \/ Restart

Spec == Init /\ [][Next]_vars
-----------------------------------------------------------------------------
(* "Eviction drops both _customer_state and _customer_log for the evicted  *)
(* id so they stay in sync": nothing is kept of a customer the recency     *)
(* list does not know, whatever order signals, routing events, evictions   *)
(* and reloads come in, and the list has no duplicates and keeps its cap.  *)
(* A customer forgotten is rated as everybody and has no profile.          *)
CustomersInSync ==
    /\ IsInjective(mem.lru) /\ Len(mem.lru) <= MaxCustomers
    /\ DOMAIN mem.own \cup DOMAIN mem.log \cup DOMAIN mem.recent \subseteq ToSet(mem.lru)
    /\ \A c \in Customers \ ToSet(mem.lru) :
        /\ \A k \in Keys : AdjustedScore(mem, k, c) = AdjustedScore(mem, k, Anyone)
        /\ RoutingProfile(mem, c) = [requests |-> 0, custom |-> FALSE]

(* "Catch gradual degradation": no sequence of signals, each too small to  *)
(* notice, leaves the learnt qualities a tenth below the last snapshot.    *)
(* And a rollback restores the averages and the statistics of outliers     *)
(* from one moment: no key has more signals in its statistics than in its  *)
(* average, which is loaded from the file while the statistics are not.    *)
DriftContained ==
    /\ ~Corrupt(mem)
    /\ \A k \in DOMAIN mem.stats : k \in DOMAIN mem.state /\ mem.stats[k] <= mem.state[k].n

(* "Mark the in-memory state as clean": the file holds all of a clean      *)
(* memory, and a process that loads it rates as this one does, however     *)
(* signals came between an image and its write, unless the image was       *)
(* overtaken by an older one or could not be written, or the memory was    *)
(* rolled back after the image had been taken.                             *)
CleanIsSaved ==
    mem.dirty = 0 /\ newest = "file" /\ ~undone =>
        LET loaded == [Fresh EXCEPT !.state = file.image.global, !.own = file.image.customers] IN
        /\ loaded.state = mem.state
        /\ \A c \in DOMAIN mem.own : Lookup(loaded.own, c, NoWeights) = mem.own[c]
        /\ \A k \in Keys, c \in DOMAIN mem.own \cup {Anyone} :
               AdjustedScore(loaded, k, c) = AdjustedScore(mem, k, c)
=============================================================================
