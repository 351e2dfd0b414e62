----------------------------- MODULE UsageRecords -----------------------------
(***************************************************************************)
(* What is kept of the requests a process has served: the decision log of  *)
(* router/analytics.py, and the usage store and the counters of            *)
(* router/attribution.py.                                                  *)
(*                                                                         *)
(* A request is logged when it is decided, in memory and then in a file.   *)
(* When it has been served its record goes into a bounded queue, from      *)
(* which one writer thread commits batches to a table; then it is counted. *)
(* Readers of the table first wait until the queue has been worked off.    *)
(* Each step is what happens under one lock or in one queue operation.     *)
(***************************************************************************)
EXTENDS Reports, Functions

CONSTANTS
    Requests,
    Row,          \* [Requests -> the row of each: what was recorded of it, see Reports]
    Questions,    \* what readers may ask
    Correlation,  \* its correlation id, which the caller may choose
    Readers,
    QueueMax,     \* ATTRIBUTION_WRITE_QUEUE_MAX_SIZE
    BatchSize,    \* ATTRIBUTION_WRITE_BATCH_SIZE
    MaxLabels,    \* ATTRIBUTION_METRICS_MAX_LABEL_COMBOS
    Overflow,     \* _OVERFLOW_LABEL
    MaxEntries,   \* ANALYTICS_MAX_ENTRIES
    MaxLoaded,    \* ANALYTICS_MAX_STARTUP_ENTRIES
    MaxUnsaved    \* bound: decisions of this process whose line could not be written

ASSUME UsageAssumption ==
    /\ {QueueMax, BatchSize, MaxEntries} \subseteq Nat \ {0}
    /\ {MaxLabels, MaxLoaded} \subseteq Nat
    /\ IsFiniteSet(Requests)
    /\ \A r \in Requests : IsRow(Row[r]) /\ Row[r].tenant \notin {Overflow, Everyone}
    /\ \A q \in Questions : IsQuestion(q)
    /\ Narrowest \in Nat \ {0} /\ {Widest, PageMax} \subseteq Int

VARIABLES
    stage,       \* how far each request has come
    entries,     \* the decision log: its requests, oldest first
    index,       \* the entry a correlation id leads to
    lines,       \* the file of the decision log
    queue, batch, unfinished,  \* the queue, what the writer took of it, its count of tasks
    table,       \* the rows its one connection sees, of the open transaction too
    committed,   \* how many of them have been committed
    writer,      \* "waiting", "gathering" or "dead"
    dropped,     \* records refused by a full queue
    known,       \* tenants with a label of their own
    steps, refusals, costs, actuals,  \* the counters of each label
    reader,      \* "idle", "flushing" or "counting"
    read,        \* the rows each reader is answered from
    \* History:
    accepted,    \* the records the queue took, in order
    lost,        \* what the insert that failed left out
    awaited      \* what had been accepted when each reader began to wait

decisions == <<entries, index, lines>>
store == <<queue, batch, unfinished, table, committed, writer, accepted, lost>>
counters == <<known, steps, refusals, costs, actuals>>
reading == <<reader, read, awaited>>
usage == <<stage, decisions, store, dropped, counters, reading>>

UsageInit ==
    /\ stage = [r \in Requests |-> "new"]
    /\ entries = <<>> /\ index = <<>> /\ lines = <<>>
    /\ queue = <<>> /\ batch = <<>> /\ unfinished = 0 /\ table = <<>> /\ committed = 0
    /\ writer = "waiting" /\ dropped = 0
    /\ known = {} /\ steps = <<>> /\ refusals = <<>> /\ costs = <<>> /\ actuals = <<>>
    /\ reader = [x \in Readers |-> "idle"] /\ read = [x \in Readers |-> <<>>]
    /\ accepted = <<>> /\ lost = <<>> /\ awaited = [x \in Readers |-> {}]

Advance(r, from, to) == stage[r] = from /\ stage' = [stage EXCEPT ![r] = to]
-----------------------------------------------------------------------------
(* The decision log.                                                       *)

Unkeyed(f, x) == Restrict(f, DOMAIN f \ {x})
With(f, x, v) == [y \in DOMAIN f \cup {x} |-> IF y = x THEN v ELSE f[y]]

UnindexAlways(idx, oldest) == Unkeyed(idx, Correlation[oldest])
(* The index forgets an evicted entry, but not a newer one of the same id. *)
Unindex(idx, oldest) ==
    IF Correlation[oldest] \in DOMAIN idx /\ idx[Correlation[oldest]] = oldest
    THEN Unkeyed(idx, Correlation[oldest]) ELSE idx

(* log_decision() and log_cache_hit(): the entry in memory ...             *)
LogDecision(r) ==
    LET full == Len(entries) >= MaxEntries
        kept == IF full THEN Tail(entries) ELSE entries
        left == IF full THEN Unindex(index, Head(entries)) ELSE index
    IN
    /\ Advance(r, "new", "decided")
    /\ entries' = Append(kept, r)
    /\ index' = With(left, Correlation[r], r)
    /\ UNCHANGED <<lines, store, dropped, counters, reading>>

Unsaved == {r \in Requests : stage[r] \in {"logged", "stored", "counted"} /\ ~Contains(lines, r)}

(* ... and its line in the file, which may fail.                           *)
WriteLine(r) ==
    /\ Advance(r, "decided", "logged")
    /\ \/ lines' = Append(lines, r)
       \/ Cardinality(Unsaved) < MaxUnsaved /\ lines' = lines
    /\ UNCHANGED <<entries, index, store, dropped, counters, reading>>

LastOf(k, s) == SubSeq(s, Max({1, Len(s) - k + 1}), Len(s))

(* The index a log has after its lines have been read in order.            *)
IndexOf(log) ==
    [id \in {Correlation[r] : r \in ToSet(log)} |->
        log[Max({i \in DOMAIN log : Correlation[log[i]] = id})]]
-----------------------------------------------------------------------------
(* The usage store.                                                        *)

Enqueue(r) ==
    /\ Advance(r, "logged", "stored")
    /\ IF Len(queue) < QueueMax
       THEN /\ queue' = Append(queue, r) /\ accepted' = Append(accepted, r)
            /\ unfinished' = unfinished + 1 /\ UNCHANGED dropped
       ELSE dropped' = dropped + 1 /\ UNCHANGED <<queue, accepted, unfinished>>
    /\ UNCHANGED <<batch, table, committed, writer, lost, decisions, counters, reading>>

GatherMarksDone ==
    /\ writer \in {"waiting", "gathering"} /\ queue # <<>> /\ Len(batch) < BatchSize
    /\ batch' = Append(batch, Head(queue))
    /\ queue' = Tail(queue)
    /\ unfinished' = unfinished - 1
    /\ writer' = "gathering"
    /\ UNCHANGED <<stage, table, committed, accepted, lost, dropped, decisions, counters, reading>>
(* The writer takes a record: it waits for the first of a batch only.      *)
Gather ==
    /\ writer \in {"waiting", "gathering"} /\ queue # <<>> /\ Len(batch) < BatchSize
    /\ batch' = Append(batch, Head(queue))
    /\ queue' = Tail(queue)
    /\ writer' = "gathering"
    /\ UNCHANGED <<stage, unfinished, table, committed, accepted, lost, dropped, decisions, counters, reading>>

Gathered == writer = "gathering" /\ (queue = <<>> \/ Len(batch) = BatchSize)

CommitCountsOne ==
    /\ Gathered
    /\ table' = table \o batch /\ committed' = Len(table) + Len(batch)
    /\ unfinished' = unfinished - 1
    /\ batch' = <<>> /\ writer' = "waiting"
    /\ UNCHANGED <<stage, queue, accepted, lost, dropped, decisions, counters, reading>>
Commit ==
    /\ Gathered
    /\ table' = table \o batch /\ committed' = Len(table) + Len(batch)
    /\ unfinished' = unfinished - Len(batch)
    /\ batch' = <<>> /\ writer' = "waiting"
    /\ UNCHANGED <<stage, queue, accepted, lost, dropped, decisions, counters, reading>>

(* An exception of the insert or of the commit passes the finally and ends *)
(* the thread.  Nothing is rolled back: the rows that had been inserted    *)
(* stay in the transaction, which the readers' connection is in as well.   *)
InsertFails ==
    /\ Gathered
    /\ \E n \in 0..Len(batch) :
        /\ table' = table \o SubSeq(batch, 1, n)
        /\ lost' = SubSeq(batch, n + 1, Len(batch))
    /\ unfinished' = unfinished - Len(batch)
    /\ batch' = <<>> /\ writer' = "dead"
    /\ UNCHANGED <<stage, queue, committed, accepted, dropped, decisions, counters, reading>>

(* Everything that reads the table waits in Queue.join() first.            *)
AskRows(x) ==
    /\ reader[x] = "idle"
    /\ reader' = [reader EXCEPT ![x] = "flushing"]
    /\ awaited' = [awaited EXCEPT ![x] = ToSet(accepted)]
    /\ UNCHANGED <<stage, decisions, store, dropped, counters, read>>

(* The page of a listing, or one of the aggregates.  A listing waits again *)
(* and counts; an aggregate is a reader that stops here.                   *)
ReadRows(x) ==
    /\ reader[x] = "flushing" /\ unfinished = 0
    /\ reader' = [reader EXCEPT ![x] = "counting"]
    /\ read' = [read EXCEPT ![x] = table]
    /\ UNCHANGED <<stage, decisions, store, dropped, counters, awaited>>

(* The total of a listing, with which it is answered.                      *)
ReadTotal(x) ==
    /\ reader[x] = "counting" /\ unfinished = 0
    /\ reader' = [reader EXCEPT ![x] = "idle"]
    /\ read' = [read EXCEPT ![x] = <<>>] /\ awaited' = [awaited EXCEPT ![x] = {}]
    /\ UNCHANGED <<stage, decisions, store, dropped, counters>>
-----------------------------------------------------------------------------
(* The counters.                                                           *)

LabelIgnoresKnown(tenant) == IF Cardinality(known) < MaxLabels THEN tenant ELSE Overflow
Label(tenant) ==
    IF tenant \in known \/ Cardinality(known) < MaxLabels THEN tenant ELSE Overflow

Bump(f, label, amount) == With(f, label, amount + IF label \in DOMAIN f THEN f[label] ELSE 0)

(* record(): the sums are by tenant and model, the folded ones together.   *)
Tally(r) ==
    LET label == Label(Row[r].tenant)
        pair == IF label = Overflow THEN <<Overflow, Overflow>> ELSE <<label, Row[r].model>>
    IN
    /\ Advance(r, "stored", "counted")
    /\ steps' = Bump(steps, label, 1)
    /\ costs' = Bump(costs, pair, Row[r].cost)
    /\ actuals' = IF Row[r].reported THEN Bump(actuals, pair, Row[r].cost) ELSE actuals
    /\ known' = known \cup ({label} \ {Overflow})
    /\ UNCHANGED <<refusals, decisions, store, dropped, reading>>

(* record_budget_exceeded(), for a request the run's gate refused.         *)
TallyRefused(r) ==
    LET label == Label(Row[r].tenant) IN
    /\ Advance(r, "new", "refused")
    /\ refusals' = Bump(refusals, label, 1)
    /\ known' = known \cup ({label} \ {Overflow})
    /\ UNCHANGED <<steps, costs, actuals, decisions, store, dropped, reading>>

(* /metrics: of each counter, the series a caller is shown.                *)
Exposed(bound) ==
    LET Shown(f) == Restrict(f, {label \in DOMAIN f : bound \in {Everyone, label}})
        ShownPairs(f) == Restrict(f, {pair \in DOMAIN f : bound \in {Everyone, pair[1]}})
    IN  [steps |-> Shown(steps), refusals |-> Shown(refusals),
         costs |-> ShownPairs(costs), actuals |-> ShownPairs(actuals)]

(* The process ends.  The next one has the file, of which it keeps the     *)
(* last lines, and of the table what had been committed.                   *)
Restart ==
    LET log == LastOf(Min({MaxLoaded, MaxEntries}), lines)
        kept == SubSeq(table, 1, committed)
    IN
    /\ stage' = [r \in Requests |-> IF stage[r] = "new" THEN "new" ELSE "gone"]
    /\ entries' = log /\ index' = IndexOf(log)
    /\ queue' = <<>> /\ batch' = <<>> /\ unfinished' = 0
    /\ writer' = "waiting" /\ dropped' = 0
    /\ table' = kept /\ accepted' = kept /\ lost' = <<>>
    /\ known' = {} /\ steps' = <<>> /\ refusals' = <<>> /\ costs' = <<>> /\ actuals' = <<>>
    /\ reader' = [x \in Readers |-> "idle"] /\ read' = [x \in Readers |-> <<>>]
    /\ awaited' = [x \in Readers |-> {}]
    /\ UNCHANGED <<lines, committed>>

Write == Gather \/ Commit \/ InsertFails

UsageNext ==
    \/ \E r \in Requests : LogDecision(r) \/ WriteLine(r) \/ Enqueue(r) \/ Tally(r) \/ TallyRefused(r)
    \/ Write
    \/ \E x \in Readers : AskRows(x) \/ ReadRows(x) \/ ReadTotal(x)
    \/ Restart

(* The writer thread and a reader that can go on are scheduled.            *)
UsageSpec == UsageInit /\ [][UsageNext]_usage /\ WF_usage(Write) /\ \A x \in Readers : WF_usage(ReadRows(x) \/ ReadTotal(x))
-----------------------------------------------------------------------------
(* "Do not remove the index entry for that newer decision": a correlation  *)
(* id leads to the newest entry that has it, and to none only if none has, *)
(* through evictions, duplicate ids and a reload of part of the file.      *)
IndexIsNewest == index = IndexOf(entries)

Rows(ids) == [i \in DOMAIN ids |-> Row[ids[i]]]

(* The tables over which every question has a coherent answer.             *)
CoherentTables ==
    {rows \in {Rows(ids) : ids \in BoundedSeq(Requests, Cardinality(Requests))} :
        \A q \in Questions : Coherent(q, rows)}

(* A record the queue took is in the table once, in order, or still on its *)
(* way there, and the rows of the table are committed, unless an insert or *)
(* a commit failed: then the writer is gone, the table may end in rows     *)
(* that a restart takes back, and the rest of the batch is lost.  The      *)
(* count join() waits for is that of those on their way; and what a reader *)
(* was answered from is part of the table and has every record accepted    *)
(* before it asked, but for those that were lost.                          *)
NothingIsLost ==
    /\ accepted = table \o lost \o batch \o queue
    /\ unfinished = Len(batch) + Len(queue)
    /\ committed <= Len(table)
    /\ lost # <<>> \/ committed # Len(table) => writer = "dead"
    /\ \A x \in Readers : reader[x] = "counting" =>
        IsPrefix(read[x], table) /\ awaited[x] \subseteq ToSet(read[x]) \cup ToSet(lost)

(* "Block until every record enqueued so far has been committed": rows     *)
(* read include every record accepted before, unless an insert failed, and *)
(* unless one failed all of them have been committed.                      *)
(* What is answered is in scope and adds up ("per-tenant costs always sum  *)
(* to the headline total"), and no page is beyond the total counted after  *)
(* it.                                                                     *)
ReadersSeeAll ==
    /\ NothingIsLost
    /\ \A x \in Readers : reader[x] = "counting" => Rows(read[x]) \in CoherentTables

TenantsSeen == {Row[r].tenant : r \in Requests}
Those(phase, tenants) == {r \in Requests : stage[r] = phase /\ Row[r].tenant \in tenants}
Series(f, label) == IF label \in DOMAIN f THEN f[label] ELSE 0
CountsAll(f, phase) ==
    /\ \A tenant \in known : Series(f, tenant) = Cardinality(Those(phase, {tenant}))
    /\ Series(f, Overflow) = Cardinality(Those(phase, TenantsSeen \ known))

(* The cap of /metrics is one on tenants: at most MaxLabels of them have a *)
(* label, the same in every counter.  A tenant with a label has all of its *)
(* requests counted under it and every other request is under the overflow *)
(* label; pairs of tenant and model are had by tenants with a label alone. *)
(* (The class says that past the cap "further NEW (tenant_id, model_id)    *)
(* pairs are folded"; a tenant with a label has a pair for every model it  *)
(* was ever served by, cap or no cap, and no bound on pairs is claimed.)   *)
(* No cost gets lost between the series, no series claims more provider-   *)
(* reported cost than cost, and a caller bound to a tenant is shown its    *)
(* own alone.                                                              *)
SeriesAreWhole ==
    LET shown == Exposed(Everyone) IN
    /\ CountsAll(shown.steps, "counted")
    /\ CountsAll(shown.refusals, "refused")
    /\ Cardinality(known) <= MaxLabels
    /\ \A pair \in DOMAIN shown.costs : pair = <<Overflow, Overflow>> \/ pair[1] \in known
    /\ MapThenSumSet(LAMBDA pair : shown.costs[pair], DOMAIN shown.costs)
         = MapThenSumSet(LAMBDA r : Row[r].cost, Those("counted", TenantsSeen))
    /\ \A pair \in DOMAIN shown.actuals : shown.actuals[pair] <= shown.costs[pair]
    /\ \A tenant \in TenantsSeen : \A pair \in DOMAIN Exposed(tenant).costs :
            pair[1] = tenant /\ pair[2] \in {Row[r].model : r \in Those("counted", {tenant})}

(* A reader does not wait for ever, unless the writer is gone.             *)
ReadersReturn ==
    \A x \in Readers : reader[x] \in {"flushing", "counting"} ~> reader[x] = "idle" \/ writer = "dead"
=============================================================================
