------------------------------- MODULE Planner -------------------------------
(***************************************************************************)
(* `calibrate plan` up to its report: cloud prices from the providers'     *)
(* APIs and from one cache file per provider (plan/providers/mod.rs), then *)
(* the GPU specs (SpecCache), by several processes on one cache directory. *)
(*                                                                         *)
(* A price list is known by the time it was fetched at and by whether it   *)
(* is empty.  Times are in the unit of SpecCache; a file that is missing   *)
(* or does not parse is NoPrices, and its age is Unread.                   *)
(***************************************************************************)
EXTENDS SpecCache, Sequences, Functions

CONSTANTS
  PriceTtl,    \* plan.price_cache_ttl_secs
  DefaultTtl,  \* DEFAULT_CACHE_TTL_SECS, 15 minutes
  Providers,   \* PROVIDERS
  Lines        \* command lines by process: wanted providers in their order, refresh, offline

ASSUME PriceAssumption == PriceTtl \in Nat /\ DefaultTtl \in Nat /\ MaxClock \in Nat
ASSUME LinesAssumption ==
  \A p \in Processes : \A l \in Lines[p] :
    l.wanted \in Seq(Providers) /\ l.refresh \in BOOLEAN /\ l.offline \in BOOLEAN

VARIABLES
  priceFile,  \* prices-<provider>.json
  plan        \* fetch_all of each process

planVars == <<priceFile, plan>>

Unread == MaxClock + 1
NoPrices == [at |-> Unread, empty |-> FALSE]
NotAsked == "not_asked"

IdlePlan == [at |-> "idle", refresh |-> FALSE, offline |-> FALSE, wanted |-> <<>>,
             answer |-> [v \in Providers |-> NotAsked], next |-> None,
             age |-> [v \in Providers |-> Unread], bare |-> {}, noted |-> {}]

PlanInit ==
  /\ SpecInit
  /\ priceFile = [v \in Providers |-> NoPrices]
  /\ plan = [p \in Processes |-> IdlePlan]

PlanUpdate(p, r) == plan' = [plan EXCEPT ![p] = r]

Heard(r) == {v \in Providers : r.age[v] # Unread}   \* providers whose list is in use
Listed(r) == Heard(r) \ r.bare                      \* of which it is not empty

------------------------------------------------------------------------------
(* fetch_all.                                                              *)

\* read_cache: the age of the list, if it is there and not older than max.
Cached(v, max) ==
  IF priceFile[v] = NoPrices \/ Age(priceFile[v].at) > max THEN Unread
  ELSE Age(priceFile[v].at)

Free(p) == plan[p].at \in {"idle", "done"} /\ ~Busy(p)

\* The caches are read first, those that are `readable`; what they do not have
\* is fetched, all at once.
PlanStart(p, line, refresh, offline, readable) ==
  /\ Free(p) /\ loads < MaxLoads
  /\ LET wanted == Range(line)
         age == [v \in Providers |->
           CASE v \notin wanted \cap readable \/ (refresh /\ ~offline) -> Unread
             [] v \in wanted \cap readable /\ offline -> Cached(v, MaxClock)
             [] OTHER -> Cached(v, PriceTtl)]
         ask == IF offline THEN {} ELSE {v \in wanted : age[v] = Unread}
         old == {v \in wanted : age[v] = Unread \/ age[v] > DefaultTtl}
     IN PlanUpdate(p, [IdlePlan EXCEPT
          !.at = "fetching", !.refresh = refresh, !.offline = offline, !.wanted = line,
          !.answer = [v \in Providers |-> IF v \in ask THEN "asked" ELSE NotAsked],
          !.age = age, !.noted = IF offline THEN old ELSE {},
          !.bare = {v \in Providers : age[v] # Unread /\ priceFile[v].empty}])
  /\ UNCHANGED <<priceFile, specVars>>

Asked(r) == {v \in Providers : r.answer[v] # NotAsked}

\* futures_join: every task has ended; one that panicked is dropped.  A
\* provider of whose offers none can be used answers with an empty list.
Join(p) ==
  /\ plan[p].at = "fetching"
  /\ \E answer \in [Asked(plan[p]) -> {"ok", "empty", "error", "panicked"}] :
       PlanUpdate(p, [plan[p] EXCEPT !.at = "collecting", !.answer =
         [v \in Providers |-> IF v \in Asked(plan[p]) THEN answer[v] ELSE NotAsked]])
  /\ UNCHANGED <<priceFile, specVars>>

\* The answers that are still to be looked at.
Live(r) == {v \in Providers : r.answer[v] \in {"ok", "empty"}}
Left(r) == {v \in Asked(r) : \/ v \in Live(r) /\ r.age[v] = Unread
                             \/ r.answer[v] = "error" /\ v \notin r.noted}

\* They are looked at in the order they were wanted in.
Turn(r, v) == v \in Left(r) /\ v = Head(SelectSeq(r.wanted, LAMBDA u : u \in Left(r)))

\* The list that was fetched is in use, from now on.
Fetched(r, v) ==
  [r EXCEPT !.age[v] = 0, !.bare = IF r.answer[v] = "empty" THEN @ \cup {v} ELSE @ \ {v}]

\* write_cache truncates the file in place ...
OpenPrices(p, v) ==
  /\ plan[p].at = "collecting" /\ Turn(plan[p], v) /\ v \in Live(plan[p])
  /\ priceFile' = [priceFile EXCEPT ![v] = NoPrices]
  /\ PlanUpdate(p, [Fetched(plan[p], v) EXCEPT !.at = "filling", !.next = v])
  /\ UNCHANGED specVars

\* ... unless there is no cache directory or the file cannot be opened ...
KeepPrices(p, v) ==
  /\ plan[p].at = "collecting" /\ Turn(plan[p], v) /\ v \in Live(plan[p])
  /\ PlanUpdate(p, Fetched(plan[p], v))
  /\ UNCHANGED <<priceFile, specVars>>

\* ... and fills it; two processes may leave a mixture, and the disk be full.
FillPrices(p) ==
  /\ plan[p].at = "filling"
  /\ \E file \in {NoPrices, [at |-> clock, empty |-> plan[p].next \in plan[p].bare]} :
       priceFile' = [priceFile EXCEPT ![plan[p].next] = file]
  /\ PlanUpdate(p, [plan[p] EXCEPT !.at = "collecting", !.next = None])
  /\ UNCHANGED specVars

\* What is left of a provider that failed: its file, however old, if it can be
\* read.
FromFile(r, v, readable) ==
  LET age == IF readable THEN Cached(v, MaxClock) ELSE Unread
  IN [r EXCEPT !.age[v] = age,
               !.bare = IF age # Unread /\ priceFile[v].empty THEN @ \cup {v} ELSE @ \ {v}]

\* Mutant of FallBack: a stale list is used without saying so.
FallBackSilently(p, v, readable) ==
  /\ plan[p].at = "collecting" /\ Turn(plan[p], v) /\ plan[p].answer[v] = "error"
  /\ PlanUpdate(p, IF FromFile(plan[p], v, readable).age[v] = Unread
                   THEN [plan[p] EXCEPT !.noted = @ \cup {v}]
                   ELSE [FromFile(plan[p], v, readable) EXCEPT !.answer[v] = NotAsked])
  /\ UNCHANGED <<priceFile, specVars>>

FallBack(p, v, readable) ==
  /\ plan[p].at = "collecting" /\ Turn(plan[p], v) /\ plan[p].answer[v] = "error"
  /\ PlanUpdate(p, [FromFile(plan[p], v, readable) EXCEPT !.noted = @ \cup {v}])
  /\ UNCHANGED <<priceFile, specVars>>

\* "live", "cache", "live+cache".
PriceSource(r) ==
  CASE Heard(r) \subseteq Live(r) -> "live"
    [] Live(r) = {} -> "cache"
    [] OTHER -> "live+cache"

\* run() goes on to the specs: the built-in table offline, else SpecDb::load.
PlanSpecs(p) ==
  /\ plan[p].at = "collecting" /\ Left(plan[p]) = {}
  /\ IF plan[p].offline
       THEN PlanUpdate(p, [plan[p] EXCEPT !.at = "done"]) /\ UNCHANGED specVars
       ELSE /\ PlanUpdate(p, [plan[p] EXCEPT !.at = "specs"])
            /\ \E url \in Urls, readable \in BOOLEAN : LoadStart(p, url, FALSE, readable)
  /\ UNCHANGED priceFile

PlanReport(p) ==
  /\ plan[p].at = "specs" /\ ~Busy(p)
  /\ PlanUpdate(p, [plan[p] EXCEPT !.at = "done"])
  /\ UNCHANGED <<priceFile, specVars>>

PlanCrash(p) ==
  /\ plan[p].at \in {"fetching", "collecting", "filling"}
  /\ PlanUpdate(p, IdlePlan)
  /\ UNCHANGED <<priceFile, specVars>>

\* Other commands load the specs too; a crash of a load ends its command.
PlanNext ==
  \/ Tick /\ (\A p \in Processes : Free(p)) /\ UNCHANGED planVars
  \/ \E p \in Processes :
       \/ \E l \in Lines[p], readable \in SUBSET Providers :
            PlanStart(p, l.wanted, l.refresh, l.offline, readable)
       \/ \E v \in Providers :
            OpenPrices(p, v) \/ KeepPrices(p, v) \/ \E readable \in BOOLEAN : FallBack(p, v, readable)
       \/ Join(p) \/ FillPrices(p) \/ PlanSpecs(p) \/ PlanReport(p) \/ PlanCrash(p)
       \/ (Fetch(p) \/ OpenTmp(p) \/ WriteTmp(p) \/ Rename(p) \/ SaveFails(p)) /\ UNCHANGED planVars
       \/ Crash(p) /\ PlanUpdate(p, IdlePlan) /\ UNCHANGED priceFile
       \/ /\ Free(p) /\ PlanUpdate(p, IdlePlan) /\ UNCHANGED priceFile
          /\ \E url \in Urls, offline, readable \in BOOLEAN : LoadStart(p, url, offline, readable)

PlanSpec == PlanInit /\ [][PlanNext]_<<specVars, planVars>>

------------------------------------------------------------------------------
(* Properties.                                                             *)

\* providers/mod.rs:106: "One failing provider never hides the others": every
\* wanted provider is accounted for.  It has listings, or a note, or the list in
\* use is empty because the provider itself said so, of which the report says
\* nothing; or its task panicked, which goes unmentioned too.  One that
\* answered in this run is listed by that answer alone, nothing stale is in use
\* without a note, and "live" means that nothing comes from a file.  It holds
\* however processes tear each other's files, and whether or not these can be
\* read and written.
PricesAreAccounted ==
  \A p \in Processes : LET r == plan[p] IN r.at \in {"specs", "done"} =>
    /\ \A v \in Range(r.wanted) :
         v \in Listed(r) \cup r.noted \cup (Heard(r) \cap r.bare) \/ r.answer[v] = "panicked"
    /\ \A v \in Live(r) : r.age[v] = 0 /\ (v \in Listed(r) <=> r.answer[v] = "ok")
    /\ \A v \in Heard(r) : r.age[v] > PriceTtl /\ r.age[v] > DefaultTtl => v \in r.noted
    /\ \A v \in Heard(r) : r.refresh /\ ~r.offline /\ v \notin Live(r) => v \in r.noted
    /\ PriceSource(r) = "live" => \A v \in Listed(r) : r.answer[v] = "ok"
==============================================================================
