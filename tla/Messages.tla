------------------------------ MODULE Messages ------------------------------
(***************************************************************************)
(* The shapes a conversation takes on its way to a provider: the client's  *)
(* list of messages, the request the proxy reads from it                   *)
(* (router/server.py), the shorter history the engine prices when the      *)
(* context is tight (router/context_compressor.py), and the turns each     *)
(* family of providers is sent (router/provider_caller.py).                *)
(*                                                                         *)
(* Of a text only its size in tokens is kept; of a tool call its id.       *)
(***************************************************************************)
EXTENDS Sequences, FiniteSetsExt, Lists

CONSTANTS
    NoId,            \* a message that answers no call
    Target,          \* CONTEXT_SUMMARY_TARGET_TOKENS
    PreserveRecent,  \* _PRESERVE_RECENT
    Long,            \* the size above which an old assistant text is truncated
    Truncated        \* and its size then: the marker in the middle may make it longer

ASSUME MessagesAssumption ==
    {Target, PreserveRecent, Long, Truncated} \subseteq Nat \ {0}

(* A message: the assistant's may make calls, a tool's answers one.        *)
Message(role, size, calls, answers) ==
    [role |-> role, size |-> size, calls |-> calls, answers |-> answers]

Says(role, size) == Message(role, size, <<>>, NoId)

-----------------------------------------------------------------------------
(* The request the proxy reads from the client's list: the system texts,   *)
(* the last message as the prompt, the others as the history, unless the   *)
(* last one is a tool's result, which stays in the history.  A prompt is   *)
(* only a text: 0 is the empty one.                                        *)
Parse(list) ==
    LET turns == Where(list, LAMBDA m : m.role # "system")
        system == \E i \in DOMAIN list : list[i].role = "system"
    IN  IF Last(turns).role = "tool"
        THEN [system |-> system, prompt |-> 0, history |-> turns]
        ELSE [system |-> system, prompt |-> Last(turns).size, history |-> Front(turns)]

(* The chat turns of a request, in the form of OpenAI.  After a tool's     *)
(* result there is taken to be no prompt.                                  *)
BuildMessages(request) ==
    IF request.history # <<>> /\ Last(request.history).role = "tool" THEN request.history
    ELSE Append(request.history, Says("user", request.prompt))

OpenAiTurns(request) ==
    (IF request.system THEN <<Says("system", 1)>> ELSE <<>>) \o BuildMessages(request)

(* Anthropic knows no role for tools: their results are blocks of a turn   *)
(* of the user, and those that follow one another share that turn.         *)
Block(role, m) == [role |-> role, calls |-> ToSet(m.calls),
                   results |-> IF m.role = "tool" THEN {m.answers} ELSE {}]

Turned(out, m) ==
    IF m.role # "tool" THEN Append(out, Block(m.role, m))
    ELSE IF out # <<>> /\ Last(out).results # {}
         THEN [out EXCEPT ![Len(out)].results = @ \cup {m.answers}]
         ELSE Append(out, Block("user", m))

AnthropicTurnsApart(turns) == [i \in DOMAIN turns |->
    Block(IF turns[i].role = "tool" THEN "user" ELSE turns[i].role, turns[i])]
AnthropicTurns(turns) ==
    LET out[n \in 0 .. Len(turns)] == IF n = 0 THEN <<>> ELSE Turned(out[n - 1], turns[n])
    IN  out[Len(turns)]

(* Google is sent texts only, and always the prompt.                       *)
GoogleTurns(request) ==
    [i \in DOMAIN request.history |-> Says(request.history[i].role, request.history[i].size)]
        \o <<Says("user", request.prompt)>>

(* What call_provider() sends: each family has a caller of its own.        *)
Turns(provider, request) ==
    CASE provider = "openai" -> OpenAiTurns(request)
      [] provider = "anthropic" -> AnthropicTurns(BuildMessages(request))
      [] provider = "google" -> GoogleTurns(request)

(* The ids of a reply's calls.  Google gives none, and its calls are named *)
(* by their places in the reply.                                           *)
GivenIds(turn, count) == [i \in 1 .. count |-> <<turn, i>>]
PlaceIds(count) == [i \in 1 .. count |-> <<0, i>>]
CallIds(provider, turn, count) ==
    IF provider = "google" THEN PlaceIds(count) ELSE GivenIds(turn, count)
-----------------------------------------------------------------------------
(* The compressor.                                                         *)

Tokens(messages) == MapThenSumSet(LAMBDA i : messages[i].size, DOMAIN messages)

(* What pass 1 leaves of the old messages.                                 *)
Shrunk(old) ==
    LET kept == Where(old, LAMBDA m : m.role # "tool")
    IN  [i \in DOMAIN kept |->
            IF kept[i].role = "assistant" /\ kept[i].size > Long
            THEN [kept[i] EXCEPT !.size = Truncated] ELSE kept[i]]

(* Pass 3 drops the oldest messages, one by one, until the rest fits.      *)
CutOneLess(old, room) ==
    LET fits == {n \in 0 .. Len(old) : Tokens(SubSeq(old, n + 1, Len(old))) <= room}
    IN  SubSeq(old, Max(fits \cup {0}), Len(old))
Cut(old, room) ==
    LET fits == {n \in 0 .. Len(old) : Tokens(SubSeq(old, n + 1, Len(old))) <= room}
    IN  IF fits = {} THEN <<>> ELSE SubSeq(old, Min(fits) + 1, Len(old))

Compress(request) ==
    LET history == request.history
        split == Max({0, Len(history) - PreserveRecent})
        recent == SubSeq(history, split + 1, Len(history))
        room == Target - Tokens(recent)
        pass1 == Shrunk(SubSeq(history, 1, split))
        pass2 == IF Tokens(pass1) <= room THEN pass1
                 ELSE Where(pass1, LAMBDA m : m.role = "user")
        pass3 == IF Tokens(pass2) <= room THEN pass2 ELSE Cut(pass2, room)
        note == IF Len(pass3) < split THEN <<Says("system", 1)>> ELSE <<>>
    IN  IF Tokens(history) <= Target THEN request
        ELSE [request EXCEPT !.history = note \o pass3 \o recent]
=============================================================================
