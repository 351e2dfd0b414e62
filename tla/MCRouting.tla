----------------------------- MODULE MCRouting ------------------------------
(* An instance of Routing: a small catalogue over three providers, the     *)
(* requests that take each way through the engine, and a few moods of its  *)
(* surroundings.                                                           *)
EXTENDS Routing

Model(id, provider, tier, in, out, quality, latency) ==
    [id |-> id, provider |-> provider, tier |-> tier, in |-> in, out |-> out,
     ratings |-> [general |-> quality], steps |-> <<>>, latency |-> latency,
     window |-> 16000, maxOut |-> 4000, rpm |-> 100, tools |-> TRUE, structured |-> TRUE,
     streaming |-> TRUE, capabilities |-> {"vision"}, cacheRead |-> in \div 10, cacheMin |-> 1024,
     levels |-> {"public", "internal", "confidential", "restricted"},
     adjusted |-> 50, score |-> 0]

MCCatalog == <<
    [Model("flash", "google", "free", 0, 0, 62, 300) EXCEPT
        !.tools = FALSE, !.rpm = 3, !.cacheRead = -1, !.levels = {"public", "internal"}],
    [Model("mini", "openai", "cheap", 2, 6, 70, 500) EXCEPT
        !.steps = [reflect |-> 80], !.rpm = 1],
    [Model("sonnet", "anthropic", "mid", 30, 150, 86, 900) EXCEPT !.window = 200000],
    Model("four", "openai", "mid", 25, 100, 80, 800),
    [Model("opus", "anthropic", "premium", 150, 750, 96, 1800) EXCEPT !.window = 200000],
    Model("five", "openai", "premium", 100, 400, 92, 1500) >>

Plain ==
    [user |-> "ann", tenant |-> None, talk |-> None, run |-> "no run", system |-> NoPrompt, prompt |-> 100,
     facts |-> {}, hits |-> [code |-> 0, reasoning |-> 0, creative |-> 0], history |-> <<>>,
     step |-> "unset", tools |-> FALSE, structured |-> FALSE, capabilities |-> {},
     plan |-> "pro_plan", priority |-> "normal", routing |-> "balanced", level |-> "unset",
     maxTokens |-> 0, asked |-> 0, cap |-> -1, model |-> "any", streaming |-> FALSE,
     explores |-> FALSE, overrideCeiling |-> FALSE]

LongHistory == <<Says("user", 1000), Says("assistant", 9000), Says("user", 1000),
                 Says("assistant", 501), Says("user", 500), Says("assistant", 400)>>

(* Turns of conversations: two users of a tenant go on with the same one,  *)
(* and one of them, outside the tenant, chooses the same name for another. *)
Greeting == [Plain EXCEPT !.tenant = "acme", !.talk = "t", !.facts = {"brief", "casual", "words<15"}, !.prompt = 10]
Coding == [Plain EXCEPT !.talk = "t", !.system = "rules", !.facts = {"code"}]
Review == [Plain EXCEPT !.talk = "u", !.system = "rules", !.facts = {"fence", "review", "defect"},
                        !.priority = "critical"]
Asking == [Plain EXCEPT !.user = "bob", !.tenant = "acme", !.plan = "free_plan", !.talk = "t",
                        !.facts = {"short question", "words<15"}]
Secret == [Plain EXCEPT !.user = "bob", !.plan = "free_plan", !.tools = TRUE, !.step = "reflect",
                        !.facts = {"secret"}, !.cap = 3000]
(* Steps of an agent.                                                      *)
Choosing == [Plain EXCEPT !.run = "r", !.system = "rules", !.tools = TRUE, !.model = "opus"]
Reading == [Plain EXCEPT !.run = "r", !.system = "rules", !.explores = TRUE,
                         !.history = <<Says("user", 100), Message("tool", 400, <<>>, 1)>>]
(* Others.                                                                 *)
Medical == [Plain EXCEPT !.facts = {"medical"}, !.routing = "cascade"]
Lengthy == [Plain EXCEPT !.history = LongHistory, !.facts = {"summarize"}]
Proof == [Plain EXCEPT !.facts = {"reasoning", "proof", "math", "math in prose"},
                       !.routing = "quality_max"]
Huge == [Plain EXCEPT !.maxTokens = 128000, !.prompt = 190000, !.routing = "always-premium"]

MCRequests ==
    [greeting |-> Greeting, coding |-> Coding, review |-> Review, asking |-> Asking,
     secret |-> Secret, choosing |-> Choosing, reading |-> Reading, medical |-> Medical,
     lengthy |-> Lengthy, proof |-> Proof, huge |-> Huge]

Calm == [broken |-> {}, bad |-> {}, room |-> 10000000, capped |-> FALSE, pressed |-> FALSE]
NoAnthropic == [Calm EXCEPT !.broken = {"anthropic"}]
OnlyGoogle == [Calm EXCEPT !.broken = {"openai", "anthropic"}, !.room = 40000]
Doubted == [Calm EXCEPT !.bad = {"sonnet", "opus"}, !.pressed = TRUE]
Tight == [Calm EXCEPT !.room = 40000]
Broke == [Calm EXCEPT !.room = 0]
Capped == [Calm EXCEPT !.capped = TRUE]
MCSurroundings ==
    [greeting |-> {Calm, Capped}, coding |-> {NoAnthropic, Doubted, Broke},
     review |-> {OnlyGoogle}, asking |-> {Calm}, secret |-> {Tight},
     choosing |-> {OnlyGoogle}, reading |-> {Calm},
     medical |-> {NoAnthropic}, lengthy |-> {Calm}, proof |-> {Doubted},
     huge |-> {Calm}]

MCSystemSize == [rules |-> 1500]
=============================================================================
