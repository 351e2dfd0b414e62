----------------------------- MODULE Classifier -----------------------------
(***************************************************************************)
(* What the router makes of a request before it looks at any model         *)
(* (router/classifier.py): its kind of task, its step in an agent's run,   *)
(* how complex it is, how much it will cost to send, how sensitive it is.  *)
(*                                                                         *)
(* Of the prompt only its facts are kept: the patterns it matches and the  *)
(* counts that pass a threshold, each a string.  The complexity is kept in *)
(* hundredths as it is before the sigmoid, which is increasing: a score    *)
(* reaches .15, .30, .60, .70 and .85 when that sum reaches the values     *)
(* given here.                                                             *)
(***************************************************************************)
EXTENDS Messages

CONSTANTS
    SystemSize,      \* [prompts of the system -> their tokens]
    NoPrompt         \* a request without a prompt of the system

Tiers == <<"free", "cheap", "mid", "premium">>
Rank == [free |-> 1, cheap |-> 2, mid |-> 3, premium |-> 4]

(* Where the score passes the bounds of the configuration.                 *)
At15 == 16
At30 == 34
At60 == 59
At70 == 67
At85 == 85
-----------------------------------------------------------------------------
(* The task: the first rule that one of its sets of facts fires, the most  *)
(* specific first.                                                         *)
TaskRules == <<
    [task |-> "vision",           if |-> {{"vision"}, {"image"}}],
    [task |-> "function_calling", if |-> {{"function_calling"}, {"metadata tools"}}],
    [task |-> "medical",          if |-> {{"medical"}}],
    [task |-> "legal",            if |-> {{"legal"}}],
    [task |-> "long_document",    if |-> {{"words>2000"}}],
    [task |-> "conversation",     if |-> {{"brief", "casual"}, {"brief", "words<=3"}}],
    [task |-> "simple_qa",        if |-> {{"convert to"}}],
    [task |-> "analysis",         if |-> {{"design a"}}],
    [task |-> "code_review",      if |-> {{"fence", "review"}, {"defect"}}],
    [task |-> "extraction",       if |-> {{"extract structured"}}],
    [task |-> "creative_writing", if |-> {{"longform"}}],
    [task |-> "code_generation",  if |-> {{"code"}, {"language name", "write"}}],
    [task |-> "reasoning",        if |-> {{cue, matter} : cue \in {"reasoning", "step by step"},
                                                          matter \in {"math", "proof"}}],
    [task |-> "analysis",         if |-> {{"compare"}}],
    [task |-> "reasoning",        if |-> {{"figure out"}}],
    [task |-> "translation",      if |-> {{"translate", "human language"}}],
    [task |-> "summarization",    if |-> {{"summarize"}}],
    [task |-> "classification",   if |-> {{"classify"}}],
    [task |-> "extraction",       if |-> {{"extract"}}],
    [task |-> "creative_writing", if |-> {{"creative"}, {"creative extended"}}],
    [task |-> "reasoning",        if |-> {{"reasoning", "words>8"}}],
    [task |-> "simple_qa",        if |-> {{"question word"}, {"short question"}}],
    [task |-> "code_review",      if |-> {{"fence"}}] >>

(* Else the words of three vocabularies are counted.                       *)
ByKeywords(hits) ==
    LET best == Max({hits.code, hits.reasoning, hits.creative})
    IN  CASE best < 2 -> "general"
          [] best >= 2 /\ hits.code = best -> "code_generation"
          [] best >= 2 /\ hits.code # best /\ hits.reasoning = best -> "reasoning"
          [] OTHER -> "creative_writing"

DetectTaskType(request) ==
    LET facts == request.facts \cup request.capabilities
        fired == {i \in DOMAIN TaskRules : \E some \in TaskRules[i].if : some \subseteq facts}
    IN  IF fired = {} THEN ByKeywords(request.hits) ELSE TaskRules[Min(fired)].task

(* The step of an agent's run, unless the request names it: the strongest  *)
(* evidence first, and a tool's result only if it is the latest message.   *)
StepRules(request) ==
    LET history == request.history
        inRun == request.run # "no run"
    IN  << <<"final_answer",          "final answer" \in request.facts>>,
           <<"tool_result_summarize", history # <<>> /\ Last(history).role = "tool">>,
           <<"tool_select",           request.tools>>,
           <<"extract",               request.structured>>,
           <<"reflect",               "reflect" \in request.facts>>,
           <<"plan",                  inRun /\ "plan" \in request.facts>>,
           <<"final_answer",          inRun /\ history # <<>>>>,
           <<"unknown",               TRUE>> >>

InferStepType(request) ==
    IF request.step # "unset" THEN request.step
    ELSE LET rules == StepRules(request)
         IN  rules[Min({i \in DOMAIN rules : rules[i][2]})][1]
-----------------------------------------------------------------------------
(* Tokens in and out.                                                      *)

SystemTokens(request) ==
    IF request.system = NoPrompt THEN 0 ELSE SystemSize[request.system]

InputTokens(request) == request.prompt + SystemTokens(request) + Tokens(request.history)

(* What a task usually yields.                                             *)
EstimateOutputTokens(task, input) ==
    CASE task \in {"simple_qa", "conversation"} -> 150
      [] task = "classification" -> 50
      [] task = "code_generation" -> 1000
      [] task = "code_review" -> 600
      [] task = "creative_writing" -> 1500
      [] task = "analysis" -> 800
      [] task = "reasoning" -> 1200
      [] task = "translation" -> Max({50, (input * 9) \div 10})
      [] task = "extraction" -> Min({500, Max({100, input \div 2})})
      [] task = "summarization" -> Max({100, input \div 5})
      [] task = "long_document" -> Max({400, (input * 15) \div 100})
      [] OTHER -> 400

(* A length the prompt asks for, in tokens, comes first (0: none).         *)
OutputTokens(request, task) ==
    IF request.asked > 0 THEN request.asked
    ELSE EstimateOutputTokens(task, InputTokens(request))
-----------------------------------------------------------------------------
(* Complexity.                                                             *)

BaseScore ==
    [simple_qa |-> 8, conversation |-> 5, translation |-> 12, classification |-> 15,
     extraction |-> 25, summarization |-> 30, code_generation |-> 55, code_review |-> 60,
     creative_writing |-> 45, analysis |-> 55, reasoning |-> 70, function_calling |-> 40,
     vision |-> 50, long_document |-> 50, legal |-> 62, medical |-> 62, general |-> 40]

(* The signals and what each adds.                                         *)
Signals(request, input) ==
    LET facts == request.facts
        If(signal, holds, weight) == IF holds THEN {<<signal, weight>>} ELSE {}
    IN  If("input_tokens_gt_2000", input > 2000, 10)
        \cup If("input_tokens_gt_8000", input > 8000, 20)
        \cup If("conversation_turns_gt_5", Len(request.history) > 5, 10)
        \cup If("requires_structured_output", "structured output" \in facts, 10)
        \cup If("requires_reasoning", {"reasoning", "step by step"} \cap facts # {}, 20)
        \cup If("multilingual", "human language" \in facts, 10)
        \cup If("domain_specific", "jargon" \in facts, 15)
        \cup If("complex_system_prompt", SystemTokens(request) > 200 \/ "system lines" \in facts, 10)
        \cup If("multiple_questions_detected", "questions" \in facts, 12)
        \cup If("math_symbols_present", "math in prose" \in facts, 15)
        \cup If("high_code_fence_density", "fences" \in facts, 10)
        \cup If("high_bullet_density", "bullets" \in facts, 5)
        \cup If("repetitive_templated", "template" \in facts, -10)
        \cup If("expected_short_response", "words<15" \in facts, -10)
        \cup If("prompt_words_gt_60", "words>60" \in facts, 8)
        \cup If("prompt_words_gt_150", "words>150" \in facts, 8)
        \cup If("code_defect_class", "defect" \in facts, 12)
        \cup If("multi_constraint", "constraints" \in facts, 10)

(* The priority is clamped in last: critical to .70 at least, low to .40   *)
(* at most, which no bound tells from 41.                                  *)
Complexity(request, task, input) ==
    LET raw == BaseScore[task] + FoldSet(LAMBDA s, sum : s[2] + sum, 0, Signals(request, input))
    IN  CASE request.priority = "critical" -> Max({raw, At70})
          [] request.priority = "low" -> Min({raw, 41})
          [] OTHER -> raw
-----------------------------------------------------------------------------
(* An explicit level comes first, then the strictest word found.           *)
DetectSensitivity(request) ==
    LET words == <<"secret", "proprietary", "team only">>
        found == {i \in DOMAIN words : words[i] \in request.facts}
    IN  IF request.level # "unset" THEN request.level
        ELSE <<"restricted", "confidential", "internal", "public">>[Min(found \cup {4})]

(* What the router goes by.                                                *)
Analyze(request) ==
    LET task == DetectTaskType(request)
        input == InputTokens(request)
        output == OutputTokens(request, task)
    IN  [task |-> task,
         step |-> InferStepType(request),
         score |-> Complexity(request, task, input),
         input |-> input,
         billing |-> IF request.maxTokens > 0 THEN request.maxTokens ELSE output,
         context |-> input + output + SystemTokens(request),
         sensitivity |-> DetectSensitivity(request)]
=============================================================================
