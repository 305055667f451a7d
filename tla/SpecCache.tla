------------------------------ MODULE SpecCache ------------------------------
(***************************************************************************)
(* The on-disk cache of the GPU spec database, gpu_specs/client.rs: each   *)
(* calibrate process reads it, may fetch, and replaces it by writing a     *)
(* temporary file, the same one for every process, and renaming it.        *)
(*                                                                         *)
(* Specs are named by the source they came from.  A file that is missing   *)
(* or does not parse reads as NoCache.  Times are in units of RetryAfter   *)
(* or less.  A cache that cannot be read or written is no error: the load  *)
(* goes on without it.                                                     *)
(***************************************************************************)
EXTENDS Naturals, FiniteSets

CONSTANTS
  Processes,   \* concurrent calibrate processes
  Urls,        \* values of $CALIBRATE_SPECS_URL
  SpecTtl,     \* CACHE_TTL_SECS, a day
  RetryAfter,  \* RETRY_AFTER_FAILURE_SECS, a quarter of it
  MaxClock,    \* bound on the clock
  MaxLoads     \* bound on the loads of a behaviour

ASSUME SpecAssumption == RetryAfter \in Nat \ {0} /\ SpecTtl \in Nat /\ RetryAfter < SpecTtl

VARIABLES
  clock,
  specFile,  \* gpu-specs.json
  specTmp,   \* gpu-specs.json.tmp: whether it is there, its content
  loader,    \* load_remote_specs of each process
  loads,     \* how many were started
  latest     \* the last load that finished: what it recorded, when, was it alone

specVars == <<clock, specFile, specTmp, loader, loads, latest>>

None == "none"
NoCache == [fetchedAt |-> 0, attemptAt |-> 0, url |-> None, specs |-> None]
NoTmp == [there |-> FALSE, data |-> NoCache]

Answers == {"specs", "empty", "failed", None}   \* None: nothing was fetched
Unsaved == "unsaved"                            \* an answer that was not recorded

SpecInit ==
  /\ clock = SpecTtl /\ loads = 0
  /\ specFile = NoCache /\ specTmp = NoTmp
  /\ \E url \in Urls :
       loader = [p \in Processes |-> [at |-> "done", url |-> url, now |-> 0, cache |-> NoCache,
                                      answer |-> None, alone |-> TRUE, readable |-> TRUE,
                                      file |-> "tmp", mixed |-> FALSE]]
  /\ latest = [url |-> None, now |-> 0, answer |-> None, alone |-> FALSE]

Busy(p) == loader[p].at # "done"
Others(p) == Processes \ {p}

\* The load has returned these specs.
Returned(r, specs) ==
  [r EXCEPT !.at = "done", !.now = 0, !.cache = [NoCache EXCEPT !.specs = specs],
            !.alone = TRUE, !.readable = TRUE, !.file = "tmp", !.mixed = FALSE]

Update(p, r) == loader' = [loader EXCEPT ![p] = r]

------------------------------------------------------------------------------
(* load_remote_specs.                                                      *)

Age(t) == IF clock > t THEN clock - t ELSE 0

\* The cache is read and, offline, while it is fresh, or soon after a failure,
\* is all there is; `now` is taken once.  There may be no cache directory, or
\* the file may not be readable.
LoadStart(p, url, offline, readable) ==
  /\ ~Busy(p) /\ loads < MaxLoads
  /\ LET cache == IF readable THEN specFile ELSE NoCache
         same == cache.url = url
         fresh == same /\ Age(cache.fetchedAt) < SpecTtl
         backingOff == same /\ Age(cache.attemptAt) < RetryAfter
         alone == \A q \in Others(p) : ~Busy(q)
         mine == [at |-> "fetch", url |-> url, now |-> clock, cache |-> cache,
                  answer |-> None, alone |-> alone, readable |-> readable,
                  file |-> "tmp", mixed |-> FALSE]
     IN loader' = [q \in Processes |->
          IF q # p THEN [loader[q] EXCEPT !.alone = @ /\ ~Busy(q)]
          ELSE IF fresh \/ offline \/ backingOff
                 THEN Returned(mine, IF same THEN cache.specs ELSE None)
                 ELSE mine]
  /\ loads' = loads + 1
  /\ UNCHANGED <<clock, specFile, specTmp, latest>>

\* Mutant of Answered: a failure is not put down.
AnsweredUnmarked(r, answer) ==
  [r EXCEPT !.at = "open", !.answer = answer, !.cache =
     IF answer = "specs" THEN [@ EXCEPT !.fetchedAt = r.now, !.url = r.url, !.specs = r.url] ELSE @]

\* Mutant of Answered: the old source's specs are kept under the new one's name.
AnsweredRelabelled(r, answer) ==
  [r EXCEPT !.at = "open", !.answer = answer, !.cache =
     IF answer = "empty" THEN [@ EXCEPT !.attemptAt = r.now]
     ELSE [@ EXCEPT !.attemptAt = r.now, !.url = r.url,
                    !.fetchedAt = IF answer = "specs" THEN r.now ELSE @,
                    !.specs = IF answer = "specs" THEN r.url ELSE @]]

\* What fetch() returned: an empty table leaves the cache as it was, whatever
\* source it is of; an error from a new source drops the old one's specs.
Answered(r, answer) ==
  LET marked == [r.cache EXCEPT !.attemptAt = r.now]
  IN [r EXCEPT !.at = "open", !.answer = answer, !.cache =
       CASE answer = "specs" -> [marked EXCEPT !.fetchedAt = r.now, !.url = r.url, !.specs = r.url]
         [] answer = "empty" -> marked
         [] answer = "failed" -> IF marked.url = r.url THEN marked
                                 ELSE [marked EXCEPT !.url = r.url, !.specs = None]]

Fetch(p) ==
  /\ loader[p].at = "fetch"
  /\ \E answer \in Answers \ {None} : Update(p, Answered(loader[p], answer))
  /\ UNCHANGED <<clock, specFile, specTmp, loads, latest>>

Filling == {p \in Processes : loader[p].at = "write" /\ loader[p].file = "tmp"}

\* write() opens and truncates the temporary file ...
OpenTmp(p) ==
  /\ loader[p].at = "open"
  /\ specTmp' = [there |-> TRUE, data |-> NoCache]
  /\ loader' = [q \in Processes |->
       IF q = p THEN [loader[p] EXCEPT !.at = "write", !.file = "tmp", !.mixed = Filling # {}]
       ELSE [loader[q] EXCEPT !.mixed = @ \/ q \in Filling]]
  /\ UNCHANGED <<clock, specFile, loads, latest>>

\* ... and fills it.  What two processes fill at once may be a mixture of the
\* two; when the file has been renamed, it is the cache itself that is filled.
WriteTmp(p) ==
  /\ loader[p].at = "write"
  /\ Update(p, [loader[p] EXCEPT !.at = "rename"])
  /\ \E data \in {loader[p].cache} \cup (IF loader[p].mixed THEN {NoCache} ELSE {}) :
       CASE loader[p].file = "tmp" ->
              specTmp' = [specTmp EXCEPT !.data = data] /\ UNCHANGED specFile
         [] loader[p].file = "renamed" -> specFile' = data /\ UNCHANGED specTmp
         [] loader[p].file = "replaced" -> UNCHANGED <<specFile, specTmp>>
  /\ UNCHANGED <<clock, loads, latest>>

\* rename(), which fails when there is no temporary file any more; the writers
\* still have the file open under its new name.
Rename(p) ==
  /\ loader[p].at = "rename"
  /\ IF specTmp.there THEN specFile' = specTmp.data /\ specTmp' = NoTmp
                      ELSE UNCHANGED <<specFile, specTmp>>
  /\ loader' = [q \in Processes |->
       IF q = p THEN Returned(loader[p], loader[p].cache.specs)
       ELSE IF loader[q].at = "write" /\ specTmp.there
         THEN [loader[q] EXCEPT !.file = IF @ = "tmp" THEN "renamed" ELSE "replaced"]
         ELSE loader[q]]
  /\ latest' = [url |-> loader[p].url, now |-> loader[p].now,
                answer |-> loader[p].answer, alone |-> loader[p].alone]
  /\ UNCHANGED <<clock, loads>>

\* There is no cache directory, or the open, the write or the rename fails:
\* the load returns what it has, and what it tried is not recorded.  A write
\* that ran out of space leaves its file torn.
SaveFails(p) ==
  /\ loader[p].at \in {"open", "write", "rename"}
  /\ Update(p, Returned(loader[p], loader[p].cache.specs))
  /\ CASE loader[p].at = "write" /\ loader[p].file = "tmp" ->
            specTmp' = [specTmp EXCEPT !.data = NoCache] /\ UNCHANGED specFile
       [] loader[p].at = "write" /\ loader[p].file = "renamed" ->
            specFile' = NoCache /\ UNCHANGED specTmp
       [] OTHER -> UNCHANGED <<specFile, specTmp>>
  /\ latest' = [url |-> loader[p].url, now |-> loader[p].now,
                answer |-> Unsaved, alone |-> loader[p].alone]
  /\ UNCHANGED <<clock, loads>>

\* The process is killed: the temporary file stays as it is.
Crash(p) ==
  /\ Busy(p)
  /\ Update(p, Returned(loader[p], None))
  /\ latest' = [latest EXCEPT !.alone = FALSE]
  /\ UNCHANGED <<clock, specFile, specTmp, loads>>

\* A load takes seconds, and the clock counts hours.
Tick ==
  /\ \A p \in Processes : ~Busy(p)
  /\ clock < MaxClock /\ clock' = clock + 1
  /\ UNCHANGED <<specFile, specTmp, loader, loads, latest>>

SpecNext ==
  \/ Tick
  \/ \E p \in Processes :
       \/ \E url \in Urls, offline, readable \in BOOLEAN : LoadStart(p, url, offline, readable)
       \/ Fetch(p) \/ OpenTmp(p) \/ WriteTmp(p) \/ Rename(p) \/ SaveFails(p) \/ Crash(p)

------------------------------------------------------------------------------
(* Properties.                                                             *)

\* The load before, if the two had the cache to themselves and this one could
\* read it.
AfterAlone(p) ==
  /\ loader[p].alone /\ loader[p].readable
  /\ latest.alone /\ latest.url = loader[p].url

\* client.rs:4: "It is fetched at most once per day; after a failed attempt
\* calibrate waits six hours before retrying, so firewalled clusters do not pay
\* a timeout on every run".  It is so where the cache can be read and written:
\* an answer that could be recorded, and was, keeps the next load from asking
\* again too early, whatever crashed, was cut off or failed before.  A load that
\* cannot read or write the cache says nothing and asks every time; another
\* process can undo the record by renaming an older cache over the newer one;
\* and an empty answer of a new source is forgotten.
NoEarlyRetry ==
  \A p \in Processes : loader[p].at = "fetch" /\ AfterAlone(p) =>
    /\ latest.answer = "specs" => loader[p].now - latest.now >= SpecTtl
    /\ latest.answer = "failed" => loader[p].now - latest.now >= RetryAfter

\* Whatever the processes do to each other's files, the specs a load returns
\* are those of the source it was asked for, unless that one has answered with
\* an empty table.
SpecsAreOfTheSource ==
  \A p \in Processes : loader[p].at = "done" =>
    loader[p].cache.specs \in {None, loader[p].url} \/ loader[p].answer = "empty"

==============================================================================
