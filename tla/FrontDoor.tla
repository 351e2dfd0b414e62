----------------------------- MODULE FrontDoor -----------------------------
(***************************************************************************)
(* One agent talks to the proxy (POST /v1/chat/completions of              *)
(* router/server.py) and resends its whole conversation with every step;   *)
(* others knock at the same door.  Each post is first weighed by the rate  *)
(* limiter, then read and sent to the provider the router chose, whose     *)
(* reply, with the calls it makes, the agent appends.  Every step is one   *)
(* of RateLimiter's or leaves the limiter alone.                           *)
(***************************************************************************)
EXTENDS RateLimiter, Messages

CONSTANTS
    Families,       \* subset of {"openai", "anthropic", "google"}
    Lengths,           \* the sizes of texts
    MaxCalls,        \* calls a reply makes at most
    MaxTalk          \* bound: messages in the conversation

ASSUME DoorAssumption ==
    /\ Families \subseteq {"openai", "anthropic", "google"}
    /\ Lengths \subseteq Nat /\ IsFiniteSet(Lengths) /\ Lengths # {}
    /\ MaxCalls \in Nat

VARIABLES
    talk,      \* the agent's conversation
    sent       \* the post under way: [provider, turns, short, request], or Nothing

door == <<talk, sent, limiter>>
-----------------------------------------------------------------------------
DoorInit ==
    /\ talk = <<>>
    /\ sent = Nothing
    /\ LimiterInit

(* The calls of the last reply that have no result yet.                    *)
Pending ==
    LET replies == {i \in DOMAIN talk : talk[i].role = "assistant"}
        reply == Max(replies)
    IN  IF replies = {} THEN {}
        ELSE ToSet(talk[reply].calls) \
                {talk[i].answers : i \in {j \in DOMAIN talk : j > reply}}

LastRole == IF talk = <<>> THEN "nobody" ELSE Last(talk).role

(* The agent writes: the instructions first, words when it is its turn,    *)
(* the results of the calls it was asked to make, long texts all.          *)
Instruct ==
    /\ talk = <<>>
    /\ talk' = <<Says("system", 1)>>
    /\ UNCHANGED <<sent, limiter>>

Speak(size) ==
    /\ sent = Nothing
    /\ Len(talk) < MaxTalk
    /\ Pending = {}
    /\ LastRole # "user"
    /\ talk' = Append(talk, Says("user", size))
    /\ UNCHANGED <<sent, limiter>>

Observe(id) ==
    /\ id \in Pending
    /\ talk' = Append(talk, Message("tool", Max(Lengths), <<>>, id))
    /\ UNCHANGED <<sent, limiter>>

(* The proxy admits the agent's post and sends it on.                      *)
Post(provider) ==
    /\ sent = Nothing
    /\ LastRole \in {"user", "tool"}
    /\ Pending = {}
    /\ Check(Agent, TRUE)
    /\ LET request == Parse(talk) IN
       sent' = [provider |-> provider, request |-> request, short |-> Compress(request),
                turns |-> Turns(provider, request)]
    /\ talk' = talk

(* A post is refused: the agent's, or that of someone else, of whom only   *)
(* the bucket matters.                                                     *)
Refuse(key) ==
    /\ Check(key, FALSE)
    /\ key = Agent => LastRole \in {"user", "tool"} /\ Pending = {} /\ sent = Nothing
    /\ UNCHANGED <<talk, sent>>

AdmitOther(key) ==
    /\ key # Agent
    /\ Check(key, TRUE)
    /\ UNCHANGED <<talk, sent>>

(* The provider answers, with words, with calls, or with an error.         *)
Reply(size, count) ==
    /\ sent # Nothing
    /\ Len(talk) < MaxTalk
    /\ talk' = Append(talk, Message("assistant", size,
                                    CallIds(sent.provider, Len(talk), count), NoId))
    /\ sent' = Nothing
    /\ UNCHANGED limiter

Fails ==
    /\ sent # Nothing
    /\ sent' = Nothing
    /\ UNCHANGED <<talk, limiter>>

DoorTick ==
    /\ ClockTicks
    /\ UNCHANGED <<talk, sent>>

DoorNext ==
    \/ Instruct
    \/ \E size \in Lengths : Speak(size)
    \/ \E id \in Pending : Observe(id)
    \/ \E provider \in Families : Post(provider)
    \/ \E key \in Keys : Refuse(key) \/ AdmitOther(key)
    \/ \E size \in Lengths, count \in 0 .. MaxCalls : Reply(size, count)
    \/ Fails
    \/ DoorTick

DoorSpec == DoorInit /\ [][DoorNext]_door
-----------------------------------------------------------------------------
(* Whatever providers answered before, an Anthropic model is sent a        *)
(* conversation it accepts: the results of a reply's calls, all of them    *)
(* and no others, in the very next turn (_openai_messages_to_anthropic).   *)
ToolTurnsPaired ==
    sent # Nothing /\ sent.provider = "anthropic" =>
        /\ \A i \in DOMAIN sent.turns : sent.turns[i].calls # {} =>
               i < Len(sent.turns) /\ sent.turns[i + 1].results = sent.turns[i].calls
        /\ \A i \in DOMAIN sent.turns : sent.turns[i].results # {} =>
               i > 1 /\ sent.turns[i - 1].calls = sent.turns[i].results

(* After compression the recent messages are all there, and either what    *)
(* is left fits the target or nothing older is left but the note about it, *)
(* which is not counted (ContextCompressor.compress).                      *)
CompressedFits ==
    sent # Nothing =>
        LET old == sent.request.history
            new == sent.short.history
            recent == Min({PreserveRecent, Len(old)})
        IN  /\ SubSeq(new, Len(new) - recent + 1, Len(new)) = SubSeq(old, Len(old) - recent + 1, Len(old))
            /\ \/ \A i \in 1 .. Len(new) - recent : new[i].role = "system"
               \/ MapThenSumSet(LAMBDA i : new[i].size,
                                {i \in DOMAIN new : new[i].role # "system"}) <= Target
=============================================================================
