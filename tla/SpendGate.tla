----------------------------- MODULE SpendGate ------------------------------
(***************************************************************************)
(* What a plan budget promises about its user's spend, however many        *)
(* processes enforce it (the docstring of RedisBudgetTracker: "concurrent  *)
(* workers reserving against the same user's budget can't both observe     *)
(* \"ok\" before either commits"): a call is granted its estimate only if  *)
(* it fits beside what is spent and what is held; what is held is charged  *)
(* or given back once; and it lapses only with age.                        *)
(***************************************************************************)
EXTENDS Integers, FiniteSetsExt

CONSTANTS
    Calls,
    Limit,
    Lifetime   \* of what is held

VARIABLES
    spent,
    held,      \* [call, amount, at] of the calls that are granted
    now

Amount(holds) == MapThenSumSet(LAMBDA hold : hold.amount, holds)
Lapsed(holds) == {hold \in holds : now - hold.at > Lifetime}

Init == spent = 0 /\ held = {} /\ now = 0

Grant(c, amount) ==
    LET kept == held \ Lapsed(held) IN
    /\ \A hold \in held : hold.call # c
    /\ spent + Amount(kept) + amount <= Limit
    /\ held' = kept \cup {[call |-> c, amount |-> amount, at |-> now]}
    /\ UNCHANGED <<spent, now>>

Charge(c, paid) ==
    \E hold \in held :
        /\ hold.call = c
        /\ held' = held \ {hold}
        /\ spent' = spent + paid
        /\ UNCHANGED now

GiveBack(c) ==
    \E hold \in held :
        /\ hold.call = c
        /\ held' = held \ {hold}
        /\ UNCHANGED <<spent, now>>

Tick == now' = now + 1 /\ UNCHANGED <<spent, held>>

Next ==
    \/ \E c \in Calls : GiveBack(c)
    \/ \E c \in Calls, amount \in 0..Limit : Grant(c, amount) \/ Charge(c, amount)
    \/ Tick

Spec == Init /\ [][Next]_<<spent, held, now>>
=============================================================================
