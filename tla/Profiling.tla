------------------------------- MODULE Profiling -------------------------------
(***************************************************************************)
(* The NVIDIA backend (src/collectors/nvml.rs) and its two sources of      *)
(* profiling counters: NVML's own GPM (gpm.rs), which describes the time   *)
(* between two samples of a device, and a `dcgmi dmon` child whose lines a *)
(* reader thread files per GPU (dcgm.rs).                                  *)
(*                                                                         *)
(* What the counters say is left out: a figure is where it came from and   *)
(* the stretch of time it describes.                                       *)
(***************************************************************************)
EXTENDS Integers, FiniteSets

CONSTANTS
  Cards,       \* the devices NVML counts
  Interval,    \* seconds between two ticks
  MaxTime      \* bound: seconds in a behaviour

ASSUME IntervalAssumption == Interval \in Nat

Missing == -1    \* no line, no buffers, no reading
Empty == -2      \* buffers that hold no sample yet
NoFigure == [source |-> "none", from |-> Missing, to |-> Missing]

VARIABLES
  now,         \* seconds since the start
  requested,   \* --metrics-source: "auto" | "nvml" | "gpm" | "dcgm"
  source,      \* ActiveSource, or "unset" before the backend is built, "no_nvml" or
               \* "refused" if it cannot be
  capable,     \* the devices GPM supports, if its symbols load
  gpm,         \* per device: when the sample kept was taken, or Empty or Missing
  refused,     \* devices GPM has given up on
  dcgm,        \* the reader: "off" | "held"
  child,       \* the dcgmi child: "none" | "running" | "exited"
  latest,      \* per device: when its last line was filed, or Missing
  shown        \* the figures of the last tick: per device sampled, [source, from, to] or NoFigure

profVars == <<now, requested, source, capable, gpm, refused, dcgm, child, latest, shown>>

ProfInit ==
  /\ now = 0 /\ source = "unset"
  /\ requested \in {"auto", "nvml", "gpm", "dcgm"}
  /\ capable \in SUBSET Cards
  /\ gpm = [g \in Cards |-> Missing] /\ refused = {}
  /\ dcgm = "off" /\ child = "none"
  /\ latest = [g \in Cards |-> Missing] /\ shown = <<>>

------------------------------------------------------------------------------
(* NvmlBackend::new.                                                      *)

MixedOrNvml(loaded) == IF loaded /\ capable # {} THEN "mixed" ELSE "nvml"

\* What is built, for GPM symbols that load or not, and a dcgmi that is
\* missing, answers but cannot be started, or starts.
SourceFor(loaded, dcgmi) ==
  CASE requested = "nvml" -> "nvml"
    [] requested = "gpm"  -> IF ~loaded \/ capable = {} THEN "refused"
                       ELSE IF capable = Cards THEN "gpm" ELSE "mixed"
    [] requested = "dcgm" -> IF dcgmi = "starts" THEN "dcgm" ELSE "refused"
    [] requested = "auto" -> IF loaded /\ capable = Cards /\ Cards # {} THEN "gpm"
                       ELSE IF dcgmi = "starts" THEN "dcgm"
                       ELSE MixedOrNvml(loaded)

New ==
  /\ source = "unset"
  /\ \E nvml, loaded \in BOOLEAN, dcgmi \in {"missing", "cannot_start", "starts"} :
       /\ source' = IF nvml THEN SourceFor(loaded, dcgmi) ELSE "no_nvml"
       /\ dcgm' = IF source' = "dcgm" THEN "held" ELSE "off"
       /\ child' = IF source' = "dcgm" THEN "running" ELSE "none"
  /\ UNCHANGED <<now, requested, capable, gpm, refused, latest, shown>>

------------------------------------------------------------------------------
(* The dcgmi child and its reader thread.                                 *)

\* Lines that hold no number at all are not filed (parse_dmon_line).
DmonLine(g) ==
  /\ child = "running"
  /\ latest' = [latest EXCEPT ![g] = now]
  /\ UNCHANGED <<now, requested, source, capable, gpm, refused, dcgm, child, shown>>

DmonExits ==
  /\ child = "running"
  /\ child' = "exited"
  /\ UNCHANGED <<now, requested, source, capable, gpm, refused, dcgm, latest, shown>>

MaxAge == 3 * Interval + 1

\* Mutant of DcgmGet: however old it is.
DcgmGetAnyAge(g) ==
  IF latest[g] = Missing THEN NoFigure
  ELSE [source |-> "dcgm", from |-> latest[g], to |-> latest[g]]

\* The last line of the device, if it is fresh.
DcgmGet(g) ==
  IF latest[g] = Missing \/ now - latest[g] > MaxAge THEN NoFigure
  ELSE [source |-> "dcgm", from |-> latest[g], to |-> latest[g]]

------------------------------------------------------------------------------
(* Gpm::sample: two buffers per device, swapped after every sample taken.  *)
(* `ok[g]` is what the driver answers for the device: it cannot allocate,  *)
(* takes no sample, takes one but computes no metrics, or all is well.     *)

NoBuffers(g, ok) == gpm[g] = Missing /\ (g \notin capable \/ ok = "no_memory")

GpmFigure(g, ok) ==
  IF g \in refused \/ NoBuffers(g, ok) \/ gpm[g] \in {Missing, Empty} \/ ok # "metrics" THEN NoFigure
  ELSE [source |-> "gpm", from |-> gpm[g], to |-> now]

\* Mutant of GpmKept: the two buffers are never swapped.
GpmKeptFirst(g, ok) ==
  IF g \in refused \/ NoBuffers(g, ok) THEN gpm[g]
  ELSE IF ok \in {"sample", "metrics"} /\ gpm[g] \in {Missing, Empty} THEN now
  ELSE IF gpm[g] = Missing THEN Empty ELSE gpm[g]

GpmKept(g, ok) ==
  IF g \in refused \/ NoBuffers(g, ok) THEN gpm[g]
  ELSE IF ok \in {"sample", "metrics"} THEN now
  ELSE IF gpm[g] = Missing THEN Empty ELSE gpm[g]

------------------------------------------------------------------------------
(* NvmlBackend::sample.                                                   *)

HasGpm == source \in {"gpm", "mixed"}

\* A reader whose child has exited is dropped before anything is read.
ChildLost == dcgm = "held" /\ child # "running"

\* Mutant of DropReader: the child is not looked at.
DropReaderNot == UNCHANGED <<dcgm, child, source>>

DropReader ==
  IF ChildLost
  THEN dcgm' = "off" /\ child' = "none" /\ source' = "nvml"
  ELSE UNCHANGED <<dcgm, child, source>>

\* A device that NVML does not count, or that is gone, is left out.
SampleDevices(indices) ==
  /\ DropReader
  /\ \E gone \in SUBSET indices, ok \in [indices -> {"no_memory", "no_sample", "sample", "metrics"}] :
       LET read == (indices \cap Cards) \ gone
           used == IF HasGpm THEN read ELSE {}
       IN
       /\ HasGpm \/ \A g \in indices : ok[g] = "metrics"
       /\ shown' = [g \in read |->
            IF HasGpm THEN GpmFigure(g, ok[g])
            ELSE IF dcgm' = "held" THEN DcgmGet(g) ELSE NoFigure]
       /\ gpm' = [g \in Cards |-> IF g \in used THEN GpmKept(g, ok[g]) ELSE gpm[g]]
       /\ refused' = refused \cup {g \in used : NoBuffers(g, ok[g])}
  /\ UNCHANGED <<now, requested, capable, latest>>

TimePasses ==
  /\ now < MaxTime
  /\ now' = now + 1
  /\ UNCHANGED <<requested, source, capable, gpm, refused, dcgm, child, latest, shown>>

------------------------------------------------------------------------------
(* Properties.                                                            *)

FiguresStep ==
  \A g \in DOMAIN shown' :
    shown'[g] # NoFigure /\ shown' # shown =>
      LET f == shown'[g] IN
      /\ f.source = IF source' = "dcgm" THEN "dcgm" ELSE "gpm"
      /\ f.source = "dcgm" => child = "running" /\ now - f.to <= 3 * Interval + 1
      /\ f.source = "gpm" =>
           /\ HasGpm /\ f.to = now
           /\ g \in DOMAIN shown /\ shown[g] # NoFigure => f.from >= shown[g].to

\* Every profiling figure of a tick comes from the source the backend names
\* at that moment; one of dcgmi is no older than MaxAge and its child is still
\* there, and one of GPM ends now and begins after every stretch shown for
\* the device before: no time is shown twice (nvml.rs sample, gpm.rs sample,
\* dcgm.rs get and is_running).
FiguresAreCurrent == [][FiguresStep]_profVars
==============================================================================
