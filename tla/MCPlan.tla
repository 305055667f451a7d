-------------------------------- MODULE MCPlan --------------------------------
(***************************************************************************)
(* Bounds for Planner.tla and Advice.tla.  A behaviour explores one of     *)
(* three scenarios: the price caches with few spec loads, the spec cache   *)
(* alone with more, or the report of one of the requests below.            *)
(***************************************************************************)
EXTENDS Planner, Advice

CONSTANTS p1, p2

VARIABLE scenario

Line(wanted, refresh, offline) == [wanted |-> wanted, refresh |-> refresh, offline |-> offline]
Both == <<"lambda", "runpod">>

MCLines ==
  (p1 :> {Line(Both, FALSE, FALSE), Line(Both, TRUE, FALSE), Line(<<"runpod">>, FALSE, TRUE)})
    @@ (p2 :> {Line(<<"runpod">>, TRUE, FALSE)})

------------------------------------------------------------------------------
(* Requests: a market for one model, or one offer for models found         *)
(* anywhere.  The model has 62 parameters of two bytes, a GiB has 64.      *)

MCDefaults == [layers |-> 1, hidden |-> 2, heads |-> 1, vocab |-> 4]
MCGuesses == <<[below |-> 60, layers |-> 1, hidden |-> 2, ffn |-> 4, heads |-> 1, kvHeads |-> 1, vocab |-> 4],
               [below |-> 99, layers |-> 2, hidden |-> 2, ffn |-> 4, heads |-> 2, kvHeads |-> 1, vocab |-> 4]>>

Dense == [layers |-> 1, hidden |-> 2, heads |-> 1, kvHeads |-> Missing, headDim |-> Missing,
          ffn |-> Missing, vocab |-> 4, gated |-> FALSE, tied |-> FALSE, experts |-> Missing,
          perToken |-> Missing, moeFfn |-> Missing, params |-> Missing, text |-> <<>>]
Experts == [Dense EXCEPT !.experts = 4, !.perToken = 2, !.moeFfn = 2]
Nested == [Dense EXCEPT !.layers = Missing, !.text = <<[Dense EXCEPT !.gated = TRUE]>>]
Bare == [Dense EXCEPT !.layers = Missing, !.params = 70]

Spec3090 == [name |-> <<"rtx", "3090">>, aliases |-> {<<"geforce", "3090">>}, tflops |-> 10]
Spec3090Ti == [name |-> <<"rtx", "3090", "ti">>, aliases |-> {}, tflops |-> 12]
SpecA100 == [name |-> <<"a100", "sxm">>, aliases |-> {<<"a100", "pg509">>}, tflops |-> 30]
SpecM3 == [name |-> <<"m3", "max">>, aliases |-> {}, tflops |-> 5]
Spec4070 == [name |-> <<"rtx", "4070">>, aliases |-> {}, tflops |-> 7]
MCVocabulary ==
  {"nvidia", "geforce", "apple", "rtx", "3090", "ti", "a100", "sxm", "sxm4", "pg509", "m3", "max",
   "4070", "4070s", "super", "b200", "(community)"}
MCBuiltin == <<Spec3090, SpecA100, Spec3090Ti, SpecM3, Spec4070>>
Remotes == {<<>>,
            <<[SpecA100 EXCEPT !.aliases = {}, !.tflops = 31],
              [Spec3090 EXCEPT !.tflops = 0],
              [name |-> <<"rtx", "4070", "super">>, aliases |-> {}, tflops |-> 8]>>}

Offer(gpu, count, vram, hourly, usable) ==
  [gpu |-> gpu, count |-> count, vram |-> vram, hourly |-> hourly, usable |-> usable,
   community |-> 0]
A100(count, hourly, usable) == Offer(<<"nvidia", "a100", "sxm4">>, count, 40, hourly, usable)
Rtx3090(vram, hourly) == Offer(<<"rtx", "3090">>, 1, vram, hourly, TRUE)
Rtx3090Ti(hourly) == Offer(<<"geforce", "rtx", "3090", "ti">>, 1, 24, hourly, TRUE)

Lambdas == {<<>>, <<A100(1, 110, FALSE), A100(2, 240, TRUE)>>, <<A100(1, 0, TRUE), A100(1, 150, TRUE)>>}
RunPods == {<<>>, <<[Rtx3090(24, 40) EXCEPT !.community = 25]>>,
            <<Rtx3090Ti(60), Offer(<<"b200">>, 1, 180, 20, TRUE)>>,
            <<Offer(<<"apple", "m3", "max">>, 1, 16, 10, TRUE)>>}
Vasts == {<<>>, <<Rtx3090(24, 30), Rtx3090(12, 20)>>,
          <<Rtx3090(24, 35), Offer(<<"rtx", "4070s">>, 1, 24, 35, TRUE), Rtx3090(24, 35)>>}
Files == {<<>>, <<Rtx3090(24, 0)>>, <<Rtx3090(0, 30), Rtx3090Ti(60)>>}

Setup(method, lib, quant) ==
  [method |-> method, lib |-> lib, quant |-> quant, batch |-> 1, seqLen |-> 1]
Setups == {Setup("full", "none", "none"), Setup("qlora", "unsloth", "none"),
           Setup("lora", "deepspeed", "8bit"), Setup("full", "none", "4bit")}

Disk(config, c, headers) == [config |-> config, cfg |-> c, headers |-> headers]
Hub(model, total, config, c) == [model |-> model, total |-> total, config |-> config, cfg |-> c]
Model(override, onDisk, offline, disk, hub) ==
  [override |-> override, onDisk |-> onDisk, offline |-> offline, disk |-> disk, hub |-> hub,
   count |-> 62, files |-> 2]
NoDisk == Disk("none", Dense, <<>>)
NoHub == Hub("unreachable", 0, "unreachable", Dense)
Models ==
  {Model(o, FALSE, offline, NoDisk, Hub(m, t, config, c)) :
     o \in {<<>>, <<[count |-> 50, source |-> "override"]>>}, offline \in BOOLEAN,
     m \in {"ok", "refused", "not_found", "unreachable"}, t \in {0, 62},
     config \in {"ok", "bad", "gated", "unreachable"}, c \in {Dense, Experts}}
  \cup
  {Model(o, TRUE, FALSE, Disk(config, c, headers), NoHub) :
     o \in {<<>>, <<[count |-> 99, source |-> "override"]>>}, config \in {"ok", "bad", "none"},
     c \in {Dense, Experts, Nested, Bare}, headers \in {<<>>, <<40, 22>>, <<40>>, <<40, Missing>>}}

Request(model, setup, remote, file, market, budget, now) ==
  [model |-> model, setup |-> setup, remote |-> remote, file |-> file,
   lambda |-> market[1], runpod |-> market[2], vast |-> market[3],
   rows |-> 10, epochs |-> 1, utilization |-> 30, budget |-> budget, now |-> now]

FromHub == Model(<<>>, FALSE, FALSE, NoDisk, Hub("ok", 62, "ok", Dense))

MCRequests ==
  {Request(FromHub, s, remote, file, market, budget, now) :
     s \in Setups, remote \in Remotes, file \in Files, now \in BOOLEAN,
     market \in Lambdas \X RunPods \X Vasts, budget \in {NoBudget, 60, 300}}
  \cup
  {Request(w, Setup("full", "none", "none"), <<>>, <<>>, <<<<>>, <<Rtx3090Ti(60)>>, <<>>>>, NoBudget, FALSE) :
     w \in Models}

------------------------------------------------------------------------------
UrlSymmetry == Permutations(Urls)

MCPlanInit ==
  /\ PlanInit
  /\ \/ scenario \in {"prices", "specs"} /\ request = FromHub /\ report = NotReady
     \/ scenario = "report" /\ ReportInit

\* With the price caches, a load is not interleaved with the other process, gets
\* an answer and cannot save it; only the provider that both ask has every kind
\* of answer, and only for p1.
Few ==
  /\ loads' <= 1
  /\ plan'[p1].answer["lambda"] \notin {"empty", "panicked"}
  /\ plan'[p2].answer["runpod"] \notin {"error", "panicked"}
  /\ \A r \in Processes : /\ Busy(r) => loader'[r] # loader[r]
                          /\ loader'[r].at # "write" /\ loader'[r].answer \in {None, "specs"}
                          /\ loader'[r].url = loader[r].url /\ loader'[r].readable

\* Only p1 cannot read or write the spec cache.
OneFails ==
  loader'[p2] # loader[p2] => loader'[p2].readable /\ (latest' # latest => latest'.answer # Unsaved)

MCPlanNext ==
  /\ UNCHANGED scenario
  /\ \/ /\ scenario \in {"prices", "specs"} /\ PlanNext /\ UNCHANGED reportVars
        /\ scenario = "prices" => Few
        /\ scenario = "specs" => OneFails /\ UNCHANGED planVars
     \/ scenario = "report" /\ BuildReport /\ UNCHANGED <<specVars, planVars>>

MCPlanSpec == MCPlanInit /\ [][MCPlanNext]_<<specVars, planVars, reportVars, scenario>>
==============================================================================
