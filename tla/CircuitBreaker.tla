--------------------------- MODULE CircuitBreaker ---------------------------
(***************************************************************************)
(* The per-provider circuit breaker of router/circuit_breaker.py, shared   *)
(* by every concurrent request of the process.  Each public method holds   *)
(* the breaker's lock from its first statement to its last, so each one is *)
(* a single step here.                                                     *)
(*                                                                         *)
(* The callers are modelled by what they do to the breaker.  The routing   *)
(* engine asks is_available() for the provider of every candidate model    *)
(* and then calls one of the available ones; the call may then be reported *)
(* as a success or a failure, or, when it was cancelled or refused as      *)
(* unsupported, not at all.                                                *)
(*                                                                         *)
(* Time is kept as the age of an open circuit, in ticks, and is cut off at *)
(* RecoveryTimeout, the only value it is ever compared with.  The failure  *)
(* counter is cut off at FailureThreshold for the same reason.             *)
(***************************************************************************)
EXTENDS Integers

CONSTANTS
    Providers,         \* the provider names the breaker is keyed by
    Nobody,            \* neither a provider nor a caller: what an idle caller calls
    Requests,          \* concurrent requests, each calling a provider or idle
    FailureThreshold,  \* consecutive failures that trip a circuit
    RecoveryTimeout    \* ticks an open circuit waits before its probe

ASSUME NobodyAssumption == Nobody \notin Providers \cup Requests
ASSUME ThresholdAssumption == FailureThreshold \in Nat \ {0}
ASSUME TimeoutAssumption == RecoveryTimeout \in Nat \ {0}

VARIABLES
    entry,       \* the breaker's record for each provider
    calling,     \* the provider each caller is calling, or Nobody
    \* History, read by no action:
    streak,      \* failures reported since the provider last succeeded
    admitted,    \* probes let through since the circuit last tripped
    sinceProbe,  \* ticks since the provider was last probed
    prober       \* the caller whose call is to decide a half-open circuit,
                 \* or Nobody

history == <<streak, admitted, sinceProbe, prober>>
breaker == <<entry, calling, history>>

States == {"closed", "open", "half-open"}

Circuit == [state : States, failures : 0..FailureThreshold,
          age : 0..RecoveryTimeout, probeInFlight : BOOLEAN]

(* x + 1, kept at most at bound *)
CountTo(bound, x) == IF x < bound THEN x + 1 ELSE bound

-----------------------------------------------------------------------------
(* What each method does to the record of one provider.  A provider with   *)
(* no record behaves as one whose record is ClosedCircuit.                 *)

ClosedCircuit == [state |-> "closed", failures |-> 0, age |-> 0, probeInFlight |-> FALSE]

ProbeDue(e) == e.state = "open" /\ e.age >= RecoveryTimeout /\ ~e.probeInFlight

IsAvailable(e) == \/ e.state = "closed"
                  \/ ProbeDue(e)
                  \/ e.state = "half-open" /\ ~e.probeInFlight

(* Variants of the methods below with a slip in them, for the mutant runs. *)
AfterQueryForgetsProbe(e) == IF ProbeDue(e) THEN [e EXCEPT !.state = "half-open"] ELSE e
AfterSuccessKeepsCount(e) == [e EXCEPT !.state = "closed", !.probeInFlight = FALSE]
AfterFailureKeepsClock(e) ==
    IF e.state = "half-open"
    THEN [e EXCEPT !.state = "open", !.probeInFlight = FALSE]
    ELSE LET failures == CountTo(FailureThreshold, e.failures) IN
         IF e.state = "closed" /\ failures >= FailureThreshold
         THEN [e EXCEPT !.state = "open", !.age = 0, !.failures = failures]
         ELSE [e EXCEPT !.failures = failures]
AfterFailureStaysHalfOpen(e) ==
    LET failures == CountTo(FailureThreshold, e.failures) IN
    IF e.state = "closed" /\ failures >= FailureThreshold
    THEN [e EXCEPT !.state = "open", !.age = 0, !.failures = failures]
    ELSE [e EXCEPT !.failures = failures]

(* Asking is not free: a due probe is spent by the question itself.        *)
AfterQuery(e) == IF ProbeDue(e)
                 THEN [e EXCEPT !.state = "half-open", !.probeInFlight = TRUE]
                 ELSE e

AfterSuccess(e) == ClosedCircuit

AfterFailure(e) ==
    LET failures == CountTo(FailureThreshold, e.failures)
        trips == e.state = "closed" /\ failures >= FailureThreshold
    IN  CASE e.state = "half-open" -> [state |-> "open", failures |-> failures,
                                       age |-> 0, probeInFlight |-> FALSE]
          [] trips -> [e EXCEPT !.state = "open", !.age = 0, !.failures = failures]
          [] OTHER -> [e EXCEPT !.failures = failures]

-----------------------------------------------------------------------------
BreakerInit ==
    /\ entry = [p \in Providers |-> ClosedCircuit]
    /\ calling = [c \in Requests |-> Nobody]
    /\ streak = [p \in Providers |-> 0]
    /\ admitted = [p \in Providers |-> 0]
    /\ sinceProbe = [p \in Providers |-> RecoveryTimeout]
    /\ prober = [p \in Providers |-> Nobody]

(* The engine asks for every provider in asked and the caller goes on to   *)
(* call p, one of those that answered yes.  The probes of the others are   *)
(* spent all the same, with nobody to follow them.                         *)
Route(c, asked, p) ==
    LET probes == {q \in asked : IsAvailable(entry[q]) /\ entry[q].state # "closed"}
    IN
    /\ calling[c] = Nobody
    /\ p \in asked /\ IsAvailable(entry[p])
    /\ entry' = [q \in Providers |-> IF q \in asked THEN AfterQuery(entry[q]) ELSE entry[q]]
    /\ calling' = [calling EXCEPT ![c] = p]
    /\ admitted' = [q \in Providers |-> IF q \in probes THEN admitted[q] + 1 ELSE admitted[q]]
    /\ sinceProbe' = [q \in Providers |-> IF q \in probes THEN 0 ELSE sinceProbe[q]]
    /\ prober' = [q \in Providers |-> IF q \notin probes THEN prober[q]
                                      ELSE IF q = p THEN c ELSE Nobody]
    /\ UNCHANGED streak

(* A call that did not ask first: the relaxed candidate filter and the     *)
(* fallback chains dispatch without consulting the breaker again.          *)
Bypass(c, p) ==
    /\ calling[c] = Nobody
    /\ calling' = [calling EXCEPT ![c] = p]
    /\ UNCHANGED <<entry, history>>

RecordSuccess(c) ==
    LET p == calling[c] IN
    /\ p # Nobody
    /\ entry' = [entry EXCEPT ![p] = AfterSuccess(@)]
    /\ calling' = [calling EXCEPT ![c] = Nobody]
    /\ streak' = [streak EXCEPT ![p] = 0]
    /\ admitted' = [admitted EXCEPT ![p] = 0]
    /\ prober' = [prober EXCEPT ![p] = Nobody]
    /\ UNCHANGED sinceProbe

RecordFailure(c) ==
    LET p == calling[c]
        next == AfterFailure(entry[p])
    IN
    /\ p # Nobody
    /\ entry' = [entry EXCEPT ![p] = next]
    /\ calling' = [calling EXCEPT ![c] = Nobody]
    /\ streak' = [streak EXCEPT ![p] = CountTo(FailureThreshold, @)]
    /\ admitted' = [admitted EXCEPT ![p] =
                      IF entry[p].state # "open" /\ next.state = "open" THEN 0 ELSE @]
    /\ prober' = [prober EXCEPT ![p] = IF next.state = "half-open" THEN @ ELSE Nobody]
    /\ UNCHANGED sinceProbe

(* The call ends without a report: it was cancelled, refused as            *)
(* unsupported, or skipped by a budget check.                              *)
Abandon(c) ==
    LET p == calling[c] IN
    /\ p # Nobody
    /\ calling' = [calling EXCEPT ![c] = Nobody]
    /\ prober' = [prober EXCEPT ![p] = IF @ = c THEN Nobody ELSE @]
    /\ UNCHANGED <<entry, streak, admitted, sinceProbe>>

BreakerTick ==
    /\ entry' = [p \in Providers |->
                   IF entry[p].state = "open"
                   THEN [entry[p] EXCEPT !.age = CountTo(RecoveryTimeout, @)]
                   ELSE entry[p]]
    /\ sinceProbe' = [p \in Providers |-> CountTo(RecoveryTimeout, sinceProbe[p])]
    /\ UNCHANGED <<calling, streak, admitted, prober>>

(* reset() forgets every provider.                                         *)
Reset ==
    /\ entry' = [p \in Providers |-> ClosedCircuit]
    /\ streak' = [p \in Providers |-> 0]
    /\ admitted' = [p \in Providers |-> 0]
    /\ prober' = [p \in Providers |-> Nobody]
    /\ UNCHANGED <<calling, sinceProbe>>

Report(c) == RecordSuccess(c) \/ RecordFailure(c)

BreakerNext ==
    \/ \E c \in Requests, asked \in SUBSET Providers, p \in Providers : Route(c, asked, p)
    \/ \E c \in Requests, p \in Providers : Bypass(c, p)
    \/ \E c \in Requests : Report(c) \/ Abandon(c)
    \/ Reset
    \/ BreakerTick

(* A call that was let through ends (the provider's socket has a timeout), *)
(* time passes, and requests go on for which a provider is a candidate:    *)
(* routing asks for it among others and may well call another one.         *)
RoutedPast(p) ==
    \E c \in Requests, asked \in SUBSET Providers, q \in Providers :
        p \in asked /\ Route(c, asked, q)

Fairness ==
    /\ WF_breaker(BreakerTick)
    /\ \A c \in Requests : WF_breaker(Report(c) \/ Abandon(c))
    /\ \A p \in Providers : SF_breaker(RoutedPast(p))

BreakerSpec == BreakerInit /\ [][BreakerNext]_breaker /\ Fairness

-----------------------------------------------------------------------------
BreakerTypeOK ==
    /\ entry \in [Providers -> Circuit]
    /\ calling \in [Requests -> Providers \cup {Nobody}]
    /\ streak \in [Providers -> 0..FailureThreshold]
    /\ admitted \in [Providers -> Nat]
    /\ sinceProbe \in [Providers -> 0..RecoveryTimeout]
    /\ prober \in [Providers -> Requests \cup {Nobody}]

(* A circuit is tripped exactly when the reports since the provider's last *)
(* success hold FailureThreshold failures, whichever of the interleaved    *)
(* requests made them, admitted before or after the trip ("after           *)
(* CIRCUIT_BREAKER_FAILURE_THRESHOLD consecutive failures the circuit      *)
(* opens").                                                                *)
TrippedIffStreak ==
    \A p \in Providers : entry[p].state # "closed" <=> streak[p] = FailureThreshold

(* "Exactly one half-open probe is allowed per recovery cycle": between    *)
(* two trips of a circuit at most one question is answered yes, whatever   *)
(* reports of older calls arrive in between.                               *)
OneProbePerCycle == \A p \in Providers : admitted[p] <= 1

(* Two probes of one provider are never closer than RecoveryTimeout: the   *)
(* failure of the first restarts the wait, and so does a fresh trip after  *)
(* a late success closed the circuit.                                      *)
ProbesAreSpaced ==
    [][\A p \in Providers :
          entry[p].state = "open" /\ entry'[p].state = "half-open"
          => sinceProbe[p] >= RecoveryTimeout]_breaker

-----------------------------------------------------------------------------
(* The strengthening that makes the properties above inductive: an open    *)
(* circuit has admitted nothing since its trip and has no probe out, a     *)
(* half-open one has spent its probe, and the wait of an open circuit is   *)
(* never ahead of the time since the last probe.                           *)
CycleInv ==
    \A p \in Providers :
       /\ entry[p].state = "closed" => /\ entry[p].failures < FailureThreshold
                                       /\ entry[p].failures = streak[p]
                                       /\ ~entry[p].probeInFlight
                                       /\ admitted[p] = 0
       /\ entry[p].state # "closed" => streak[p] = FailureThreshold
       /\ entry[p].state = "open" => /\ ~entry[p].probeInFlight
                                     /\ admitted[p] = 0
                                     /\ entry[p].age <= sinceProbe[p]
       /\ entry[p].state = "half-open" => /\ entry[p].probeInFlight
                                          /\ admitted[p] = 1

(* The one dead end: a circuit that waits for the outcome of a probe which *)
(* nobody is making, because the request whose question spent it called    *)
(* another provider, or ended without a report.                            *)
Stranded(p) == entry[p].state = "half-open" /\ prober[p] = Nobody

(* "A half-open probe is allowed once the timeout expires", however        *)
(* reports, resets and abandoned calls interleave: an open circuit always  *)
(* lets a question through again, and a half-open one that is really being *)
(* probed is closed or opened by the outcome.  What is not promised is     *)
(* that somebody makes the call: routing asks is_available() for every     *)
(* candidate and calls one of them, and a circuit whose question was not   *)
(* followed is Stranded, where only a report of a call that did not ask,   *)
(* or reset(), frees it.                                                   *)
TrippedIsRetried ==
    \A p \in Providers :
       /\ entry[p].state = "open" ~> entry[p].state # "open"
       /\ entry[p].state = "half-open" ~> entry[p].state # "half-open" \/ Stranded(p)

=============================================================================
