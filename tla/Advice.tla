-------------------------------- MODULE Advice --------------------------------
(***************************************************************************)
(* `calibrate plan` from prices and specs to the recommendation            *)
(* (commands/plan.rs build_report): what the providers' answers list, what *)
(* the model needs, what training it costs, and which offer is advised.    *)
(*                                                                         *)
(* Memory is counted in hundredths of a byte, shares in percent and money  *)
(* in cents, rounded down; the model, the CUDA context and the slack are   *)
(* scaled to an instance that TLC can count with.                          *)
(***************************************************************************)
EXTENDS ModelSpec, SpecDb

CONSTANTS
  LoraRank, Tiers,
  Gib,         \* bytes of a GiB
  AppleChips,  \* words like "m3" that normalise to an Apple GPU
  FlopsScale,  \* floating-point operations to the second, at one TFLOPS
  Requests     \* command lines with what disk, Hub and providers hold

\* The Hub counts the parameters the model has, and so do the headers of its
\* files when all of them are there; a count given with --params-b may be any.
ModelAssumed(w) ==
  /\ w.disk.config \in {"ok", "bad", "none"}
  /\ w.count \in Nat /\ w.hub.total \in {0, w.count}
  /\ w.disk.headers \in Seq(Nat \cup {Missing})
  /\ Len(w.disk.headers) = w.files /\ Missing \notin ToSet(w.disk.headers) =>
       Cardinality(Parameters(w.disk.headers)) = w.count
  /\ w.override # <<>> => w.override[1].count \in Nat /\ w.override[1].source = "override"
  /\ \A c \in {w.disk.cfg, w.hub.cfg} : IsConfig(c) /\ (c.text # <<>> => IsConfig(c.text[1]))

Offers == [gpu : Seq(Vocabulary), count : Nat, vram : Int, hourly : Int, usable : BOOLEAN,
           community : Int]

IsRequest(r) ==
  /\ ModelAssumed(r.model)
  /\ r.remote \in Seq(Specs)
  /\ {r.file, r.lambda, r.runpod, r.vast} \subseteq Seq(Offers)
  /\ {r.rows, r.epochs, r.utilization, r.setup.seqLen} \subseteq Nat

ASSUME RequestsAssumption == FlopsScale \in Nat /\ \A r \in Requests : IsRequest(r)

VARIABLES request, report

NoBudget == -1   \* no --budget
reportVars == <<request, report>>

------------------------------------------------------------------------------
(* Offers.                                                                 *)

Listing(provider, o, launchable, flags) ==
  [provider |-> provider, gpu |-> o.gpu, count |-> o.count, vram |-> o.vram,
   hourly |-> o.hourly, launchable |-> launchable, flags |-> flags]

\* lambda.rs parse: types without a price are left out, those without a
\* region that has capacity are listed as unavailable.
LambdaListings(offers) ==
  LET Of(o) == IF o.hourly > 0 THEN <<Listing("lambda", o, o.usable, {})>> ELSE <<>>
  IN FlattenSeq([i \in DOMAIN offers |-> Of(offers[i])])

\* runpod.rs parse: a secure and a community listing where there is a price.
RunPodListings(types) ==
  LET Of(o) == (IF o.hourly > 0 THEN <<Listing("runpod", o, TRUE, {})>> ELSE <<>>) \o
               (IF o.community > 0
                  THEN <<Listing("runpod", [o EXCEPT !.gpu = Append(@, "(community)"),
                                                     !.hourly = o.community],
                                 TRUE, {"community"})>>
                  ELSE <<>>)
  IN FlattenSeq([i \in DOMAIN types |-> Of(types[i])])

\* vastai.rs parse: of the reliable, rentable offers of a GPU and a count the
\* cheapest one, the first of equals.
VastListings(offers) ==
  LET usable == {i \in DOMAIN offers : offers[i].usable /\ offers[i].hourly > 0}
      Beats(i, j) == /\ offers[i].gpu = offers[j].gpu /\ offers[i].count = offers[j].count
                     /\ \/ offers[i].hourly < offers[j].hourly
                        \/ offers[i].hourly = offers[j].hourly /\ i < j
  IN {Listing("vastai", offers[i], TRUE, {"volatile"}) :
        i \in {k \in usable : ~\E j \in usable : Beats(j, k)}}

\* load_prices_file: one bad line and the file is refused.
FileIsValid(offers) == \A i \in DOMAIN offers : offers[i].hourly >= 0 /\ offers[i].vram > 0
FileListings(offers) ==
  [i \in DOMAIN offers |-> Listing("file", offers[i], offers[i].usable, {})]

------------------------------------------------------------------------------
(* What the model needs.                                                   *)

\* validate: combinations that no framework supports.
Supported(s) ==
  /\ s.method = "full" => s.quant = "none"
  /\ s.method = "qlora" => s.quant # "8bit"

Quantization(s) == IF s.method = "qlora" THEN "4bit" ELSE s.quant

LoraParams(spec) ==
  LET q == spec.heads * spec.headDim
      kv == spec.kvHeads * spec.headDim
  IN LoraRank * spec.layers *
       (2 * (spec.hidden + q) + 2 * (spec.hidden + kv) + 3 * (spec.hidden + spec.ffn))

Embedding(spec) ==
  Min({spec.params, spec.vocab * spec.hidden * (IF spec.tied THEN 1 ELSE 2)})

Weights(spec, s) ==
  LET rest == spec.params - Embedding(spec)
  IN CASE Quantization(s) = "none" -> 200 * spec.params
       [] Quantization(s) = "8bit" -> 100 * rest + 200 * Embedding(spec)
       [] Quantization(s) = "4bit" -> 53 * rest + 200 * Embedding(spec)

Gradients(spec, s) == IF s.method = "full" THEN 200 * spec.params ELSE 400 * LoraParams(spec)
Optimizer(spec, s) == IF s.method = "full" THEN 1200 * spec.params ELSE 1200 * LoraParams(spec)

IsApple(gpu) == \E chip \in AppleChips : IsPrefix(<<chip>>, Normalized(gpu))

\* estimate_for: what each of n GPUs has to hold.
Need(spec, s, n, apple) ==
  LET tokens == s.batch * s.seqLen
      activations == 100 * (2 * spec.layers * tokens * spec.hidden
                            + tokens * (16 * spec.hidden + 6 * spec.ffn))
      logits == 600 * tokens * spec.vocab
      unsloth == s.lib = "unsloth"
      sharded == IF s.lib = "deepspeed" THEN Max({1, n}) ELSE 1
      offloaded == s.lib = "deepspeed" /\ n <= 1
      state == Weights(spec, s) + Gradients(spec, s)
               + (IF offloaded THEN 0 ELSE Optimizer(spec, s))
      sum == state \div sharded
             + (IF unsloth THEN activations \div 2 + logits \div 4 ELSE activations + logits)
  IN sum + sum \div 20 + (IF apple THEN 0 ELSE 75 * Gib)

FittingTiers(need) == {t \in Tiers : 100 * t * Gib >= need}

------------------------------------------------------------------------------
(* What training costs.                                                    *)

Passes(s) == IF s.method = "full" THEN 4 ELSE 3
FlopsPerToken(spec, s) ==
  Passes(s) * 2 * (spec.active + spec.layers * s.seqLen * spec.heads * spec.headDim)

Scaling(n) == IF n <= 1 THEN 100 ELSE IF n <= 8 THEN 90 ELSE 85

\* estimate_duration_range and cost_range: <<low, high>>, or nothing.
Cost(flops, peak, l, utilization) ==
  LET rate == Max({1, l.count}) * peak * Max({1, Min({100, utilization})}) * Scaling(l.count)
      point == (flops * FlopsScale) \div rate
  IN IF peak = 0 \/ flops = 0 THEN <<>>
     ELSE <<(point * 80 * l.hourly) \div 360000, (point * 150 * l.hourly) \div 360000>>

------------------------------------------------------------------------------
(* The report.                                                             *)

Flops(r, spec) == r.rows * r.setup.seqLen * Max({1, r.epochs}) * FlopsPerToken(spec, r.setup)

Row(r, spec, db, l) ==
  LET Peak(found) == IF found = 0 THEN 0 ELSE db[found].tflops
      Costing(found, cost) ==
        [listing |-> l, spec |-> found, need |-> Need(spec, r.setup, l.count, IsApple(l.gpu)),
         cost |-> cost, overBudget |-> r.budget # NoBudget /\ cost # <<>> /\ cost[1] > r.budget]
      On(found) == Costing(found, Cost(Flops(r, spec), Peak(found), l, r.utilization))
  IN On(Found(db, l.gpu))

Fits(row) == 100 * Gib * row.listing.vram + 50 * Gib >= row.need

\* sort_key: a day of compute where there is no estimate.
Key(row) == IF row.cost = <<>> THEN 24 * row.listing.hourly ELSE row.cost[1]

\* Mutant of Before: sorted by the price of the hour.
BeforeByHour(a, b) == a.listing.hourly < b.listing.hourly

\* Those with an estimate come first, then the lower key, then the hour.
Before(a, b) ==
  \/ a.cost # <<>> /\ b.cost = <<>>
  \/ /\ (a.cost = <<>>) = (b.cost = <<>>)
     /\ \/ Key(a) < Key(b)
        \/ Key(a) = Key(b) /\ a.listing.hourly < b.listing.hourly

\* The rows at the indices, in that order and equal ones as they are listed.
Ahead(rows, indices, i) ==
  {j \in indices : \/ Before(rows[j], rows[i])
                   \/ ~Before(rows[i], rows[j]) /\ j < i}
Sorted(rows, indices) ==
  [place \in 1..Cardinality(indices) |->
     rows[CHOOSE i \in indices : Cardinality(Ahead(rows, indices, i)) = place - 1]]

Risky(row) == row.listing.flags \cap {"volatile", "community"} # {}

FirstOf(rows, places) == IF places = {} THEN <<>> ELSE <<rows[Min(places)]>>

\* build_recommendation: the first viable row, and for a risky one the first
\* that is not and costs at most half as much again.
Recommendation(ranked) ==
  LET viable == {p \in DOMAIN ranked : ranked[p].listing.launchable /\ ~ranked[p].overBudget}
      priced == {p \in viable : ranked[p].cost # <<>>}
      pool == IF priced = {} THEN viable ELSE priced
      best == FirstOf(ranked, pool)
      safe == {p \in pool : ~Risky(ranked[p]) /\ 2 * Key(ranked[p]) <= 3 * Key(best[1])}
  IN [best |-> best,
      safe |-> IF best # <<>> /\ Risky(best[1]) THEN FirstOf(ranked, safe) ELSE <<>>]

AllApple(listings) == listings # <<>> /\ \A i \in DOMAIN listings : IsApple(listings[i].gpu)

\* With --now, what could not be launched is not shown.
Shown(r, listings) == {i \in DOMAIN listings : ~r.now \/ listings[i].launchable}
Rows(r, spec, db, listings) == [i \in DOMAIN listings |-> Row(r, spec, db, listings[i])]

Report(r, spec, listings) ==
  LET Summary(db, ranked) ==
        [at |-> "ready", db |-> db, spec |-> spec, ranked |-> ranked,
         tooSmall |-> Cardinality(Shown(r, listings)) - Len(ranked),
         tiers |-> FittingTiers(Need(spec, r.setup, 1, AllApple(listings))),
         nothingInBudget |-> ranked # <<>> /\ \A i \in DOMAIN ranked : ranked[i].overBudget,
         advice |-> Recommendation(ranked)]
      Ranked(rows) == Sorted(rows, {i \in Shown(r, listings) : Fits(rows[i])})
      With(db) == Summary(db, Ranked(Rows(r, spec, db, listings)))
  IN With(Merged(r.remote))

NotReady == [at |-> "asked"]

ReportInit == request \in Requests /\ report = NotReady

\* Vast.ai's offers leave a hash map in any order.
Listings(r) ==
  IF r.file # <<>> THEN {FileListings(r.file)}
  ELSE {LambdaListings(r.lambda) \o RunPodListings(r.runpod) \o vast :
          vast \in SetToSeqs(VastListings(r.vast))}

BuildReport ==
  /\ report = NotReady
  /\ \E spec \in {Resolve(request.model)} :
       IF Supported(request.setup) /\ spec # Failed /\ FileIsValid(request.file)
         THEN \E listings \in Listings(request) : report' = Report(request, spec[1], listings)
         ELSE report' = [at |-> "error"]
  /\ UNCHANGED request

ReportSpec == ReportInit /\ [][BuildReport]_reportVars

------------------------------------------------------------------------------
(* Properties.                                                             *)

\* What the providers offer, before any of it is left out; of Vast.ai the
\* cheapest of each GPU and count.
Every(offers, provider) == {Listing(provider, offers[i], offers[i].usable, {}) : i \in DOMAIN offers}

Offered(r) ==
  IF r.file # <<>> THEN Every(r.file, "file")
  ELSE {l \in UNION {Every(r.lambda, "lambda"), Every(r.runpod, "runpod"), VastListings(r.vast),
                     Every([i \in DOMAIN r.runpod |->
                              [r.runpod[i] EXCEPT !.hourly = r.runpod[i].community]], "runpod")} :
          l.hourly > 0}

Usable(row) == row.listing.launchable /\ Fits(row) /\ ~row.overBudget

\* commands/plan.rs:241: the advice is launchable, in the budget, holds the
\* model and is the cheapest of all that any provider offers so; and there is
\* advice whenever there is such an offer.  Only a dearer Vast.ai offer that a
\* cheaper one of the same GPU and count hides is not considered.
RecommendationIsSound ==
  LET Sound(advice, listed, usable) ==
        IF advice.best = <<>> THEN usable = {}
        ELSE \E best \in {advice.best[1]} :
               /\ best \in listed /\ Usable(best)
               /\ \A row \in usable :
                    /\ best.cost = <<>> => row.cost = <<>>
                    /\ (row.cost = <<>>) = (best.cost = <<>>) => Key(best) <= Key(row)
               /\ Risky(best) =>
                    \A row \in listed : /\ row.listing.launchable /\ ~Risky(row) /\ ~row.overBudget
                                        /\ (row.cost = <<>>) = (best.cost = <<>>)
                                        /\ 2 * Key(row) <= 3 * Key(best)
                                        => advice.safe # <<>>
  IN report.at = "ready" =>
       Sound(report.advice, ToSet(report.ranked),
             {row \in {Row(request, report.spec, report.db, l) : l \in Offered(request)} : Usable(row)})

\* gpu_specs/mod.rs:164: a "3090 Ti" never passes for a "3090": the spec that an
\* offer is priced with has a name with every variant of the offer's, and no
\* remote list takes away a name that the built-in table knows.
NoGpuPassesForAnother ==
  report.at = "ready" =>
    /\ \A i \in DOMAIN report.ranked : LET row == report.ranked[i] IN row.spec # 0 =>
         \E name \in Names(report.db[row.spec]) :
           ToSet(Normalized(row.listing.gpu)) \cap Variants
             = ToSet(Normalized(name)) \cap Variants
    /\ \A i \in DOMAIN Builtin : \A name \in Names(Builtin[i]) : Found(report.db, name) # 0

\* resolver.rs:3: a count given on the command line is used wherever the model
\* is looked for, and no answer of the Hub makes it fail; a count that is
\* called exact is the model's, if all of its files are on the disk.
CountsAreHonest ==
  LET w == request.model
      asked == Supported(request.setup) /\ FileIsValid(request.file)
  IN report.at # "asked" =>
       /\ w.override # <<>> /\ asked /\ report.at = "error" =>
            IF w.onDisk THEN w.disk.config = "bad" ELSE ~w.offline /\ w.hub.config = "bad"
       /\ report.at = "ready" =>
            /\ w.override # <<>> => report.spec.params = w.override[1].count
            /\ report.spec.source = "hub" => report.spec.params = w.count
            /\ report.spec.source = "local" /\ Len(w.disk.headers) = w.files =>
                 report.spec.params = w.count
            /\ report.spec.active <= report.spec.params
==============================================================================
