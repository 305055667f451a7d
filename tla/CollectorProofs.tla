----------------------------- MODULE CollectorProofs -----------------------------
(***************************************************************************)
(* The collector and what it is pointed at: the process chosen covers      *)
(* every match, the figures of a tick are current, and its CPU time is no  *)
(* more than what was used, for every world of processes, every way to     *)
(* name a target, every set of devices and every interleaving of the       *)
(* collector with the world and with dcgmi.                                *)
(***************************************************************************)
EXTENDS Collector, FiniteSetTheorems, TLAPS

------------------------------------------------------------------------------
(* Figures.  What relates a device's figure to its buffers is that the     *)
(* buffers were swapped after it: the next figure begins where it ended.   *)

FiguresInv ==
  /\ now \in Nat /\ requested \in {"auto", "nvml", "gpm", "dcgm"}
  /\ gpm \in [Cards -> Int] /\ latest \in [Cards -> Int]
  /\ \A g \in Cards : gpm[g] <= now
  /\ dcgm = "held" <=> source = "dcgm"
  /\ loop \in {"target", "ended"} \/ source # "unset"
  /\ source = "unset" => DOMAIN shown = {}
  /\ HasGpm => \A g \in DOMAIN shown :
       shown[g] # NoFigure => g \in Cards /\ shown[g].to \in Int /\ shown[g].to <= gpm[g]

LEMMA SampleFigures ==
  ASSUME FiguresInv, NEW indices, SampleDevices(indices), source # "unset"
  PROVE  FiguresStep /\ (loop' # "target" => FiguresInv')
<1>1. /\ now \in Nat /\ gpm \in [Cards -> Int] /\ latest \in [Cards -> Int]
      /\ \A g \in Cards : gpm[g] <= now
      /\ \A g \in Cards : gpm[g] \in Int /\ latest[g] \in Int
  BY DEF FiguresInv
<1>2. PICK gone \in SUBSET indices,
           ok \in [indices -> {"no_memory", "no_sample", "sample", "metrics"}] :
        LET read == (indices \cap Cards) \ gone
            used == IF HasGpm THEN read ELSE {}
        IN
        /\ shown' = [g \in read |->
             IF HasGpm THEN GpmFigure(g, ok[g])
             ELSE IF dcgm' = "held" THEN DcgmGet(g) ELSE NoFigure]
        /\ gpm' = [g \in Cards |-> IF g \in used THEN GpmKept(g, ok[g]) ELSE gpm[g]]
  BY DEF SampleDevices
<1> DEFINE read == (indices \cap Cards) \ gone
<1>3. now' = now /\ latest' = latest /\ requested' = requested
  BY DEF SampleDevices
\* The source.
<1>15. dcgm = "held" <=> source = "dcgm"
  BY DEF FiguresInv
<1>4. /\ dcgm' = "held" <=> source' = "dcgm"
      /\ source' = source \/ (source = "dcgm" /\ source' = "nvml")
      /\ source' = "dcgm" => child = "running"
  BY <1>15 DEF SampleDevices, DropReader, ChildLost
<1>5. HasGpm' <=> HasGpm
  BY <1>4 DEF HasGpm
<1>6. source' # "unset"
  BY <1>4
\* The buffers.
<1>7. \A g \in Cards : GpmKept(g, ok[g]) \in Int /\ GpmKept(g, ok[g]) <= now
  <2> SUFFICES ASSUME NEW g \in Cards
               PROVE  GpmKept(g, ok[g]) \in Int /\ GpmKept(g, ok[g]) <= now
    OBVIOUS
  <2>1. GpmKept(g, ok[g]) \in {gpm[g], now, Empty}
    BY DEF GpmKept
  <2>2. gpm[g] \in Int /\ gpm[g] <= now /\ Empty \in Int /\ Empty <= now
    BY <1>1 DEF Empty
  <2> QED
    BY <1>1, <2>1, <2>2
<1>8. gpm' \in [Cards -> Int] /\ \A g \in Cards : gpm'[g] <= now
  BY <1>1, <1>2, <1>7
\* The figures.
<1>9. /\ DOMAIN shown' = read /\ read \subseteq Cards
      /\ HasGpm => \A g \in read : shown'[g] = GpmFigure(g, ok[g]) /\ gpm'[g] = GpmKept(g, ok[g])
      /\ ~HasGpm /\ dcgm' = "held" => \A g \in read : shown'[g] = DcgmGet(g)
      /\ ~HasGpm /\ dcgm' # "held" => \A g \in read : shown'[g] = NoFigure
  BY <1>2
<1>10. ASSUME NEW g \in read, HasGpm, shown'[g] # NoFigure
       PROVE  /\ shown'[g].source = "gpm" /\ shown'[g].to = now /\ shown'[g].from = gpm[g]
              /\ gpm'[g] = now
  <2>1. shown'[g] = GpmFigure(g, ok[g]) /\ gpm'[g] = GpmKept(g, ok[g])
    BY <1>9, <1>10
  <2>2. ~(g \in refused \/ NoBuffers(g, ok[g]) \/ gpm[g] \in {Missing, Empty} \/ ok[g] # "metrics")
    BY <1>10, <2>1 DEF GpmFigure
  <2>3. shown'[g] = [source |-> "gpm", from |-> gpm[g], to |-> now]
    BY <2>1, <2>2 DEF GpmFigure
  <2>4. gpm'[g] = now
    BY <2>1, <2>2 DEF GpmKept
  <2> QED
    BY <2>3, <2>4
<1>11. ASSUME NEW g \in read, ~HasGpm, shown'[g] # NoFigure
       PROVE  /\ dcgm' = "held" /\ shown'[g].source = "dcgm"
              /\ now - shown'[g].to <= 3 * Interval + 1
  <2>1. dcgm' = "held" /\ shown'[g] = DcgmGet(g) /\ latest[g] \in Int
    BY <1>1, <1>9, <1>11
  <2>2. ~(now - latest[g] > MaxAge) /\ shown'[g].to = latest[g] /\ shown'[g].source = "dcgm"
    <3>1. ~(latest[g] = Missing \/ now - latest[g] > MaxAge)
      BY <1>11, <2>1 DEF DcgmGet
    <3>2. shown'[g] = [source |-> "dcgm", from |-> latest[g], to |-> latest[g]]
      BY <2>1, <3>1 DEF DcgmGet
    <3> QED
      BY <3>1, <3>2
  <2>3. now - latest[g] <= 3 * Interval + 1
    <3>1. now \in Int /\ Interval \in Int
      BY <1>1, IntervalAssumption
    <3> QED
      BY <2>1, <2>2, <3>1 DEF MaxAge
  <2> QED
    BY <2>1, <2>2, <2>3
<1>12. FiguresStep
  <2> SUFFICES ASSUME NEW g \in DOMAIN shown', shown'[g] # NoFigure
               PROVE  LET f == shown'[g] IN
                      /\ f.source = IF source' = "dcgm" THEN "dcgm" ELSE "gpm"
                      /\ f.source = "dcgm" => child = "running" /\ now - f.to <= 3 * Interval + 1
                      /\ f.source = "gpm" =>
                           /\ HasGpm /\ f.to = now
                           /\ g \in DOMAIN shown /\ shown[g] # NoFigure => f.from >= shown[g].to
    BY DEF FiguresStep
  <2>1. g \in read /\ g \in Cards
    BY <1>9
  <2>2. CASE HasGpm
    <3>1. shown'[g].source = "gpm" /\ shown'[g].to = now /\ shown'[g].from = gpm[g]
      BY <1>10, <2>1, <2>2
    <3>2. source' # "dcgm"
      BY <1>5, <2>2 DEF HasGpm
    <3>3. ASSUME g \in DOMAIN shown, shown[g] # NoFigure PROVE gpm[g] >= shown[g].to
      BY <2>2, <3>3 DEF FiguresInv
    <3> QED
      BY <2>2, <3>1, <3>2, <3>3
  <2>3. CASE ~HasGpm
    BY <1>4, <1>11, <2>1, <2>3
  <2> QED
    BY <2>2, <2>3
<1>13. ASSUME HasGpm', NEW g \in DOMAIN shown', shown'[g] # NoFigure
       PROVE  g \in Cards /\ shown'[g].to \in Int /\ shown'[g].to <= gpm'[g]
  <2>1. g \in read /\ g \in Cards /\ HasGpm
    BY <1>5, <1>9, <1>13
  <2>2. shown'[g].to = now /\ gpm'[g] = now
    BY <1>10, <1>13, <2>1
  <2>3. now \in Int /\ now <= now
    BY <1>1
  <2> QED
    BY <2>1, <2>2, <2>3
<1>14. FiguresInv'
  BY <1>1, <1>3, <1>4, <1>6, <1>8, <1>13 DEF FiguresInv
<1> QED
  BY <1>12, <1>14

LEMMA NextFigures ==
  FiguresInv /\ [CollectorNext]_collectorVars => FiguresInv' /\ [FiguresStep]_profVars
<1> SUFFICES ASSUME FiguresInv, [CollectorNext]_collectorVars
             PROVE  FiguresInv' /\ [FiguresStep]_profVars
  OBVIOUS
<1>1. ASSUME UNCHANGED profVars, loop' = loop \/ loop \notin {"target", "ended"}
      PROVE  FiguresInv' /\ [FiguresStep]_profVars
  <2>1. UNCHANGED <<now, requested, source, gpm, dcgm, latest, shown>>
    BY <1>1 DEF profVars
  <2>2. loop' \in {"target", "ended"} \/ source # "unset"
    BY <1>1 DEF FiguresInv
  <2>3. FiguresInv'
    BY <2>1, <2>2 DEF FiguresInv, HasGpm
  <2> QED
    BY <1>1, <2>3
<1>2. ASSUME shown' = shown PROVE FiguresStep
  BY <1>2 DEF FiguresStep
<1>3. CASE LoopInit
  <2>1. New
    BY <1>3 DEF LoopInit
  <2>2. UNCHANGED <<now, requested, gpm, latest, shown>> /\ source = "unset"
    BY <2>1 DEF New
  <2>3. dcgm' = "held" <=> source' = "dcgm"
    BY <2>1 DEF New
  <2>4. source' # "unset"
    <3>1. ASSUME NEW loaded, NEW dcgmi PROVE SourceFor(loaded, dcgmi) # "unset"
      BY DEF FiguresInv, SourceFor, MixedOrNvml
    <3> QED
      BY <2>1, <3>1 DEF New
  <2>5. DOMAIN shown = {}
    BY <2>2 DEF FiguresInv
  <2> QED
    BY <1>2, <2>2, <2>3, <2>4, <2>5 DEF FiguresInv
<1>4. CASE LoopTop
  BY <1>1, <1>4 DEF LoopTop
<1>5. CASE LoopWalk
  BY <1>1, <1>5 DEF LoopWalk
<1>6. CASE LoopGpus
  <2>1. source # "unset" /\ loop' = "cpu"
    BY <1>6 DEF LoopGpus, FiguresInv
  <2>2. ASSUME NEW indices, SampleDevices(indices) PROVE FiguresInv' /\ [FiguresStep]_profVars
    BY <2>1, <2>2, SampleFigures
  <2>3. CASE UNCHANGED profVars
    BY <1>1, <1>6, <2>1, <2>3 DEF LoopGpus
  <2>4. \/ UNCHANGED profVars
        \/ \E indices : SampleDevices(indices)
    BY <1>6 DEF LoopGpus
  <2> QED
    BY <2>2, <2>3, <2>4
<1>7. CASE LoopCpu
  BY <1>1, <1>7 DEF LoopCpu
<1>8. CASE LoopWake
  BY <1>1, <1>8 DEF LoopWake
<1>9. CASE UNCHANGED <<profVars, loopVars>>
  BY <1>1, <1>9 DEF loopVars
<1>10. CASE TimePasses /\ UNCHANGED loopVars
  <2>1. now' = now + 1 /\ UNCHANGED <<requested, source, gpm, dcgm, latest, shown, loop>>
    BY <1>10 DEF TimePasses, loopVars
  <2> QED
    BY <1>2, <2>1 DEF FiguresInv, HasGpm
<1>11. CASE DmonExits /\ UNCHANGED loopVars
  <2>1. UNCHANGED <<now, requested, source, gpm, dcgm, latest, shown, loop>>
    BY <1>11 DEF DmonExits, loopVars
  <2> QED
    BY <1>2, <2>1 DEF FiguresInv, HasGpm
<1>12. CASE (\E g \in Cards : DmonLine(g)) /\ UNCHANGED loopVars
  <2>1. PICK g \in Cards : DmonLine(g)
    BY <1>12
  <2>2. /\ UNCHANGED <<now, requested, source, gpm, dcgm, shown, loop>>
        /\ latest' = [latest EXCEPT ![g] = now]
    BY <1>12, <2>1 DEF DmonLine, loopVars
  <2>3. latest' \in [Cards -> Int]
    BY <2>2 DEF FiguresInv
  <2> QED
    BY <1>2, <2>2, <2>3 DEF FiguresInv, HasGpm
<1>13. CASE UNCHANGED collectorVars
  BY <1>9, <1>13 DEF collectorVars
<1> QED
  BY <1>3, <1>4, <1>5, <1>6, <1>7, <1>8, <1>9, <1>10, <1>11, <1>12, <1>13
     DEF CollectorNext, LoopNext

\* Every profiling figure of a tick comes from the source the backend has at
\* that moment; one of dcgmi is fresh and its child is there, and one of GPM
\* begins no earlier than the last one shown for the device has ended, however
\* devices come and go (nvml.rs sample, gpm.rs sample, dcgm.rs get).
THEOREM FiguresCorrectness == CollectorSpec => FiguresAreCurrent
<1>1. CollectorInit => FiguresInv
  BY DEF CollectorInit, ProfInit, FiguresInv, Missing, HasGpm
<1>2. FiguresInv /\ [CollectorNext]_collectorVars => FiguresInv'
  BY NextFigures
<1>3. FiguresInv /\ [CollectorNext]_collectorVars => [FiguresStep]_profVars
  BY NextFigures
<1> QED
  BY <1>1, <1>2, <1>3, PTL DEF CollectorSpec, FiguresAreCurrent
------------------------------------------------------------------------------
(* Ancestors.  A set of matches is what collapse_trees works on; what it   *)
(* keeps is those no other match is above.                                 *)

\* A process's ancestors' ancestors are its own.
LEMMA AncestorsClosed ==
  ASSUME NEW t, NEW p, NEW a \in AncestorsIn(t, p)
  PROVE  AncestorsIn(t, a) \subseteq AncestorsIn(t, p)
<1> DEFINE parents == {t[c] : c \in DOMAIN t}
           A == AncestorsIn(t, p)
<1>1. A \in SUBSET parents
  BY DEF AncestorsIn
<1>2. Parents(t, A \cup {p}) \subseteq A
  <2> SUFFICES ASSUME NEW x \in Parents(t, A \cup {p}) PROVE x \in A
    OBVIOUS
  <2>1. PICK c \in (A \cup {p}) \cap DOMAIN t : c # 1 /\ t[c] # c /\ x = t[c] /\ x # 0
    BY DEF Parents
  <2>2. ASSUME NEW S \in SUBSET parents, Parents(t, S \cup {p}) \subseteq S PROVE x \in S
    <3>1. c \in S \cup {p}
      BY <2>1, <2>2 DEF AncestorsIn
    <3>2. x \in Parents(t, S \cup {p})
      BY <2>1, <3>1 DEF Parents
    <3> QED
      BY <2>2, <3>2
  <2>3. x \in parents
    BY <2>1
  <2> QED
    BY <2>2, <2>3 DEF AncestorsIn
<1>3. Parents(t, A \cup {a}) \subseteq A
  BY <1>2 DEF Parents
<1> QED
  BY <1>1, <1>3 DEF AncestorsIn

\* Every nonempty set of naturals has a least element.
LEMMA LeastElement ==
  ASSUME NEW T \in SUBSET Nat, T # {}
  PROVE  \E x \in T : \A y \in T : x <= y
<1>1. PICK x \in T : \A y \in T : ~(<<y, x>> \in OpToRel(<, Nat))
  BY NatLessThanWellFounded, WFMin
<1>2. ASSUME NEW y \in T PROVE x <= y
  <2>1. <<y, x>> \in Nat \X Nat
    OBVIOUS
  <2>2. ~(y < x)
    BY <1>1, <2>1 DEF OpToRel
  <2> QED
    BY <2>2
<1> QED
  BY <1>2

\* Above every match there is one that is kept, or a cycle.
LEMMA TopMatch ==
  ASSUME NEW t, NEW S, IsFiniteSet(S), NEW m \in S,
         \A x \in AncestorsIn(t, m) \cup {m} : x \notin AncestorsIn(t, x)
  PROVE  \E c \in CollapseTrees(S, t) : c = m \/ c \in AncestorsIn(t, m)
<1> DEFINE Above(x) == AncestorsIn(t, x) \cap S
           T == (AncestorsIn(t, m) \cup {m}) \cap S
           sizes == {Cardinality(Above(x)) : x \in T}
<1>1. \A x \in T : IsFiniteSet(Above(x)) /\ Cardinality(Above(x)) \in Nat
  <2> SUFFICES ASSUME NEW x \in T PROVE IsFiniteSet(Above(x)) /\ Cardinality(Above(x)) \in Nat
    OBVIOUS
  <2>1. Above(x) \in SUBSET S
    OBVIOUS
  <2> HIDE DEF Above
  <2>2. IsFiniteSet(Above(x))
    BY <2>1, FS_Subset
  <2> QED
    BY <2>2, FS_CardinalityType
<1>2. sizes \in SUBSET Nat /\ sizes # {}
  <2>1. m \in T
    OBVIOUS
  <2> HIDE DEF Above, T
  <2> QED
    BY <1>1, <2>1
<1>3. PICK n \in sizes : \A k \in sizes : n <= k
  <2> HIDE DEF sizes
  <2> QED
    BY <1>2, LeastElement, Zenon
<1>4. PICK c \in T : n = Cardinality(Above(c))
  OBVIOUS
<1>5. Above(c) = {}
  <2> SUFFICES ASSUME NEW y \in Above(c) PROVE FALSE
    OBVIOUS
  <2>1. y \in T
    <3>1. CASE c = m
      BY <3>1
    <3>2. CASE c \in AncestorsIn(t, m)
      BY <3>2, AncestorsClosed
    <3> QED
      BY <3>1, <3>2
  <2>2. Above(y) \in SUBSET Above(c) /\ y \notin Above(y)
    BY <2>1, AncestorsClosed
  <2>3. IsFiniteSet(Above(c)) /\ IsFiniteSet(Above(y))
    BY <1>1, <2>1
  <2>4. Cardinality(Above(y)) \in Nat /\ Cardinality(Above(c)) \in Nat
        /\ Cardinality(Above(c)) <= Cardinality(Above(y))
    <3>1. Cardinality(Above(y)) \in sizes
      BY <2>1
    <3> HIDE DEF Above, sizes
    <3> QED
      BY <1>1, <1>3, <1>4, <2>1, <3>1
  <2>5. y \in Above(c)
    OBVIOUS
  <2> HIDE DEF Above
  <2>6. Cardinality(Above(y)) <= Cardinality(Above(c))
    BY <2>2, <2>3, FS_Subset
  <2>7. Cardinality(Above(y)) = Cardinality(Above(c))
    BY <2>4, <2>6
  <2>8. Above(c) = Above(y)
    BY <2>2, <2>3, <2>7, FS_Subset
  <2> QED
    BY <2>2, <2>5, <2>8
<1>6. c \in CollapseTrees(S, t)
  BY <1>5 DEF CollapseTrees
<1> QED
  BY <1>6

ResolutionInv ==
  /\ IsFiniteSet(DOMAIN table) /\ found \subseteq DOMAIN table
  /\ stage \in {"start", "table", "commands"} => outcome.kind = "pending"
  /\ ResolutionCoversMatches

\* What is chosen, or reported, of the matches found in a table.
LEMMA ResolveCovers ==
  ASSUME ResolutionInv, Resolve
  PROVE  ResolutionInv'
<1> DEFINE S == found'
           kept == CollapseTrees(S, table)
           Cyclic(m) == OnCycle(m) \/ \E a \in AncestorsIn(table, m) : OnCycle(a)
<1>1. /\ IsFiniteSet(DOMAIN table) /\ UNCHANGED <<table, entry>>
      /\ S \subseteq DOMAIN table /\ IsFiniteSet(S)
  <2>1. IsFiniteSet(DOMAIN table) /\ UNCHANGED <<table, entry>>
    BY DEF ResolutionInv, Resolve
  <2>2. S \subseteq DOMAIN table
    BY DEF Resolve, ExcludeSelf, AllProcesses
  <2> QED
    BY <2>1, <2>2, FS_Subset
<1>2. \/ kept = {} /\ outcome' = Ended("nothing", 0)
      \/ Cardinality(kept) = 1 /\ outcome' = Ended("chosen", CHOOSE c \in kept : TRUE)
      \/ Cardinality(kept) > 1 /\ outcome' = Ended("ambiguous", 0)
      \/ \E c \in kept : outcome' = Ended("picked", c)
      \/ outcome' = Ended("no_selection", 0)
  BY DEF Resolve
<1>3. stage' \in {"attach", "failed"}
  BY DEF Resolve
<1>4. kept \subseteq S /\ IsFiniteSet(kept) /\ \A x \in kept : AncestorsIn(table, x) \cap S = {}
  <2>1. kept \subseteq S /\ \A x \in kept : AncestorsIn(table, x) \cap S = {}
    BY DEF CollapseTrees
  <2> HIDE DEF kept, S
  <2> QED
    BY <1>1, <2>1, FS_Subset
<1>5. ASSUME NEW m \in S, ~Cyclic(m)
      PROVE  \E c \in kept : c = m \/ c \in AncestorsIn(table, m)
  <2>1. \A x \in AncestorsIn(table, m) \cup {m} : x \notin AncestorsIn(table, x)
    BY <1>5 DEF OnCycle
  <2> HIDE DEF S
  <2> QED
    BY <1>1, <1>5, <2>1, TopMatch
<1>6. \A m \in S : Cyclic(m)' <=> Cyclic(m)
  BY <1>1 DEF OnCycle
<1> HIDE DEF S, kept, Cyclic
<1>7. CASE kept = {} /\ outcome' = Ended("nothing", 0)
  <2>1. outcome'.kind = "nothing"
    BY <1>7 DEF Ended
  <2>2. \A m \in S : Cyclic(m)
    BY <1>5, <1>7
  <2> QED
    BY <1>1, <1>3, <1>6, <2>1, <2>2 DEF ResolutionInv, ResolutionCoversMatches, S, Cyclic
<1>8. CASE Cardinality(kept) = 1 /\ outcome' = Ended("chosen", CHOOSE c \in kept : TRUE)
  <2>1. PICK c : kept = {c}
    BY <1>4, <1>8, FS_Singleton
  <2>2. outcome'.kind = "chosen" /\ outcome'.pid = c
    BY <1>8, <2>1 DEF Ended
  <2>3. \A m \in S : m = c \/ c \in AncestorsIn(table, m) \/ Cyclic(m)
    BY <1>5, <2>1
  <2> QED
    BY <1>1, <1>3, <1>6, <2>2, <2>3 DEF ResolutionInv, ResolutionCoversMatches, S, Cyclic
<1>9. CASE Cardinality(kept) > 1 /\ outcome' = Ended("ambiguous", 0)
  <2>1. \E m, n \in kept : m # n
    <3> SUFFICES ASSUME \A m, n \in kept : m = n PROVE FALSE
      OBVIOUS
    <3>1. CASE kept = {}
      BY <1>9, <3>1, FS_EmptySet
    <3>2. CASE kept # {}
      <4>1. PICK c : kept = {c}
        BY <3>2
      <4>2. Cardinality(kept) = 1
        BY <4>1, FS_Singleton
      <4> QED
        BY <1>9, <4>2
    <3> QED
      BY <3>1, <3>2
  <2>2. \E m, n \in S :
          m # n /\ \A x \in S : x \notin AncestorsIn(table, m) \cup AncestorsIn(table, n)
    BY <1>4, <2>1
  <2>3. outcome'.kind = "ambiguous"
    BY <1>9 DEF Ended
  <2> QED
    BY <1>1, <1>3, <2>2, <2>3 DEF ResolutionInv, ResolutionCoversMatches, S
<1>10. ASSUME outcome'.kind \notin {"chosen", "nothing", "ambiguous"} PROVE ResolutionInv'
  BY <1>1, <1>3, <1>10 DEF ResolutionInv, ResolutionCoversMatches, S
<1>11. CASE \E c \in kept : outcome' = Ended("picked", c)
  BY <1>10, <1>11 DEF Ended
<1>12. CASE outcome' = Ended("no_selection", 0)
  BY <1>10, <1>12 DEF Ended
<1> QED
  BY <1>2, <1>7, <1>8, <1>9, <1>11, <1>12

LEMMA NextResolution == ResolutionInv /\ [CollectorNext]_collectorVars => ResolutionInv'
<1> SUFFICES ASSUME ResolutionInv, [CollectorNext]_collectorVars PROVE ResolutionInv'
  OBVIOUS
<1>1. /\ IsFiniteSet(DOMAIN table) /\ found \subseteq DOMAIN table
      /\ stage \in {"start", "table", "commands"} => outcome.kind = "pending"
      /\ ResolutionCoversMatches
  BY DEF ResolutionInv
<1>2. ASSUME UNCHANGED targetVars PROVE ResolutionInv'
  BY <1>2 DEF targetVars, ResolutionInv, ResolutionCoversMatches, OnCycle
<1>3. ASSUME UNCHANGED <<entry, table, found>>, stage' \notin {"start", "table", "commands"},
             \/ outcome'.kind = outcome.kind /\ outcome'.pid = outcome.pid
             \/ outcome'.kind \notin {"chosen", "nothing", "ambiguous"}
      PROVE  ResolutionInv'
  BY <1>1, <1>3 DEF ResolutionInv, ResolutionCoversMatches, OnCycle
<1>4. CASE Begin
  <2>1. CASE entry.by = "pid"
    <3>1. /\ outcome' = Ended("chosen", entry.pid) /\ stage' = "attach"
          /\ UNCHANGED <<entry, table, found>>
      BY <1>4, <2>1 DEF Begin
    <3>2. outcome'.kind = "chosen" /\ entry'.by = "pid"
      BY <2>1, <3>1 DEF Ended
    <3> QED
      BY <1>1, <3>1, <3>2 DEF ResolutionInv, ResolutionCoversMatches
  <2>2. CASE entry.by # "pid"
    <3>1. UNCHANGED <<entry, table, found>> /\ outcome.kind = "pending"
      BY <1>1, <1>4, <2>2 DEF Begin
    <3>2. CASE outcome' = Ended("invalid", 0) /\ stage' = "failed"
      BY <1>1, <3>1, <3>2 DEF Ended, ResolutionInv, ResolutionCoversMatches
    <3>3. CASE UNCHANGED outcome
      BY <1>1, <3>1, <3>3 DEF ResolutionInv, ResolutionCoversMatches
    <3> QED
      BY <1>4, <2>2, <3>2, <3>3 DEF Begin
  <2> QED
    BY <2>1, <2>2
<1>5. CASE ReadEntry
  <2>1. /\ UNCHANGED <<found, outcome>> /\ outcome.kind = "pending"
        /\ stage' \in {"table", "commands"}
    BY <1>1, <1>5 DEF ReadEntry
  <2>2. table' = table \/ \E p : DOMAIN table' = DOMAIN table \cup {p}
    BY <1>5 DEF ReadEntry
  <2>3. IsFiniteSet(DOMAIN table') /\ found \subseteq DOMAIN table'
    BY <1>1, <2>2, FS_AddElement
  <2> QED
    BY <2>1, <2>3 DEF ResolutionInv, ResolutionCoversMatches
<1>6. CASE Resolve
  BY <1>6, ResolveCovers
<1>7. CASE Attach
  <2>1. UNCHANGED <<entry, table, found>> /\ stage' \in {"read", "failed"}
    BY <1>7 DEF Attach
  <2>2. CASE UNCHANGED outcome
    BY <1>3, <2>1, <2>2
  <2>3. ASSUME NEW k \in {"not_found", "isolated"}, outcome' = [outcome EXCEPT !.kind = k]
        PROVE  ResolutionInv'
    BY <1>3, <2>1, <2>3
  <2> QED
    BY <1>7, <2>2, <2>3 DEF Attach
<1>8. CASE AttachRead
  <2>1. UNCHANGED <<entry, table, found>> /\ stage' \in {"look", "failed"}
    BY <1>8 DEF AttachRead
  <2>2. CASE UNCHANGED outcome
    BY <1>3, <2>1, <2>2
  <2>3. CASE outcome' = [outcome EXCEPT !.kind = "denied"]
    BY <1>3, <2>1, <2>3
  <2> QED
    BY <1>8, <2>2, <2>3 DEF AttachRead
<1>9. CASE AttachLook
  <2>1. UNCHANGED <<entry, table, found>> /\ stage' = "ready"
    BY <1>9 DEF AttachLook
  <2>2. outcome'.kind = outcome.kind /\ outcome'.pid = outcome.pid
    BY <1>9 DEF AttachLook
  <2> QED
    BY <1>3, <2>1, <2>2
<1> QED
  BY <1>2, <1>4, <1>5, <1>6, <1>7, <1>8, <1>9
     DEF CollectorNext, LoopNext, LoopInit, LoopTop, LoopWalk, LoopGpus, LoopCpu, LoopWake,
         TargetNext, collectorVars

\* A process chosen without asking is, or is above, every match; an ambiguity
\* reported is between two matches that no match is above; and nothing is
\* reported missing while something matches.  Matches below or on a cycle of
\* the table are excepted (collapse_trees, resolve_by_pattern, resolve_auto).
THEOREM ResolutionCorrectness == CollectorSpec => []ResolutionCoversMatches
<1>1. CollectorInit => ResolutionInv
  <2> SUFFICES ASSUME CollectorInit PROVE ResolutionInv
    OBVIOUS
  <2>1. table = <<>> /\ found = {} /\ outcome = Ended("pending", 0)
    BY DEF CollectorInit, TargetInit
  <2>2. DOMAIN table = {} /\ outcome.kind = "pending"
    BY <2>1 DEF Ended
  <2> QED
    BY <2>1, <2>2, FS_EmptySet DEF ResolutionInv, ResolutionCoversMatches
<1>2. ResolutionInv /\ [CollectorNext]_collectorVars => ResolutionInv'
  BY NextResolution
<1>3. ResolutionInv => ResolutionCoversMatches
  BY DEF ResolutionInv
<1> QED
  BY <1>1, <1>2, <1>3, PTL DEF CollectorSpec
------------------------------------------------------------------------------
(* CPU time.  What was read last of a number is what the process that had  *)
(* it then had used; a process that took the number over has used no less  *)
(* than nothing.                                                           *)

CpuInv ==
  /\ IsFiniteSet(DOMAIN procs)
  /\ \A p \in DOMAIN procs : procs[p].born[1] = p /\ procs[p].used \in Nat
  /\ \A p \in DOMAIN cpuPrev : cpuPrev[p] \in Nat
  /\ \A b \in DOMAIN usedThen : b[1] \in DOMAIN cpuPrev => usedThen[b] = cpuPrev[b[1]]
  /\ \A b \in DOMAIN usedThen : usedThen[b] \in Nat

\* Readings of finitely many processes have finitely many units between them.
LEMMA CpuUnitsFinite ==
  ASSUME NEW prev, NEW cur, IsFiniteSet(DOMAIN cur),
         \A p \in DOMAIN prev \cap DOMAIN cur : prev[p] \in Nat /\ cur[p] \in Nat
  PROVE  IsFiniteSet(CpuUnits(prev, cur))
<1> DEFINE both == DOMAIN prev \cap DOMAIN cur
           Of(p) == {p} \X ((prev[p] + 1)..cur[p])
           F == [p \in both |-> Of(p)]
           T == {Of(p) : p \in both}
<1>1. IsFiniteSet(both)
  <2>1. both \in SUBSET DOMAIN cur
    OBVIOUS
  <2> HIDE DEF both
  <2> QED
    BY <2>1, FS_Subset
<1>2. ASSUME NEW p \in both PROVE IsFiniteSet(Of(p))
  <2>1. prev[p] + 1 \in Int /\ cur[p] \in Int
    OBVIOUS
  <2>2. IsFiniteSet((prev[p] + 1)..cur[p])
    BY <2>1, FS_Interval
  <2>3. IsFiniteSet({p})
    BY FS_Singleton
  <2> QED
    BY <2>2, <2>3, FS_Product
<1>3. IsFiniteSet(T)
  <2>1. F \in Surjection(both, T)
    <3>1. F \in [both -> T] /\ \A t \in T : \E p \in both : F[p] = t
      OBVIOUS
    <3> HIDE DEF F, T, both
    <3> QED
      BY <3>1 DEF Surjection
  <2> HIDE DEF F, T, both
  <2> QED
    BY <1>1, <2>1, FS_Surjection
<1>4. \A t \in T : IsFiniteSet(t)
  BY <1>2
<1>5. CpuUnits(prev, cur) = UNION T
  BY DEF CpuUnits
<1> HIDE DEF T
<1> QED
  BY <1>3, <1>4, <1>5, FS_UNION

\* A tick counts units that its processes have used since the last one.
LEMMA CpuTick ==
  ASSUME CpuInv, LoopCpu
  PROVE  CpuStep /\ CpuInv'
<1> DEFINE cur == CpuNow
           then == [p \in DOMAIN CpuNow |->
                      IF procs[p].born \in DOMAIN usedThen THEN usedThen[procs[p].born] ELSE 0]
<1>1. /\ IsFiniteSet(DOMAIN procs)
      /\ \A p \in DOMAIN procs : procs[p].born[1] = p /\ procs[p].used \in Nat
      /\ \A p \in DOMAIN cpuPrev : cpuPrev[p] \in Nat
      /\ \A b \in DOMAIN usedThen : b[1] \in DOMAIN cpuPrev => usedThen[b] = cpuPrev[b[1]]
      /\ \A b \in DOMAIN usedThen : usedThen[b] \in Nat
  BY DEF CpuInv
<1>2. /\ DOMAIN cur \subseteq DOMAIN procs /\ IsFiniteSet(DOMAIN cur)
      /\ \A p \in DOMAIN cur : cur[p] = procs[p].used /\ cur[p] \in Nat
  <2>1. DOMAIN cur \in SUBSET DOMAIN procs
    BY DEF CpuNow
  <2>2. \A p \in DOMAIN cur : cur[p] = procs[p].used
    BY DEF CpuNow
  <2> HIDE DEF cur
  <2>3. IsFiniteSet(DOMAIN cur)
    BY <1>1, <2>1, FS_Subset
  <2> QED
    BY <1>1, <2>1, <2>2, <2>3
<1> HIDE DEF cur
<1>3. ASSUME NEW p \in DOMAIN cur
      PROVE  /\ p \in DOMAIN then /\ then[p] \in Nat
             /\ p \in DOMAIN cpuPrev => then[p] <= cpuPrev[p]
  <2>1. p \in DOMAIN procs /\ procs[p].born[1] = p /\ p \in DOMAIN CpuNow
    BY <1>1, <1>2 DEF cur
  <2>2. CASE procs[p].born \in DOMAIN usedThen
    <3>1. then[p] = usedThen[procs[p].born]
      BY <2>1, <2>2
    <3>2. then[p] \in Nat /\ (p \in DOMAIN cpuPrev => then[p] = cpuPrev[p])
      BY <1>1, <2>1, <2>2, <3>1
    <3> QED
      BY <1>1, <2>1, <3>2
  <2>3. CASE procs[p].born \notin DOMAIN usedThen
    <3>1. then[p] = 0
      BY <2>1, <2>3
    <3> HIDE DEF then
    <3>2. p \in DOMAIN cpuPrev => then[p] <= cpuPrev[p]
      BY <1>1, <3>1
    <3> QED
      BY <2>1, <3>1, <3>2 DEF then
  <2> QED
    BY <2>2, <2>3
<1>4. UsedSince = Cardinality(CpuUnits(then, cur))
  BY DEF UsedSince, cur
<1> HIDE DEF then
<1>5. CpuUnits(cpuPrev, cur) \subseteq CpuUnits(then, cur)
  <2> SUFFICES ASSUME NEW p \in DOMAIN cpuPrev \cap DOMAIN cur
               PROVE  {p} \X ((cpuPrev[p] + 1)..cur[p]) \subseteq {p} \X ((then[p] + 1)..cur[p])
    BY <1>3 DEF CpuUnits
  <2>1. /\ then[p] \in Nat /\ cpuPrev[p] \in Nat /\ cur[p] \in Nat /\ then[p] <= cpuPrev[p]
    BY <1>1, <1>2, <1>3
  <2>2. (cpuPrev[p] + 1)..cur[p] \subseteq (then[p] + 1)..cur[p]
    BY <2>1
  <2> QED
    BY <2>2
<1>6. IsFiniteSet(CpuUnits(then, cur))
  BY <1>2, <1>3, CpuUnitsFinite
<1>7. Cardinality(CpuUnits(cpuPrev, cur)) <= Cardinality(CpuUnits(then, cur))
  BY <1>5, <1>6, FS_Subset
<1>8. treeCpu' \in {Missing, Delta(cpuPrev, cur)}
  BY DEF LoopCpu, cur
<1>9. CpuStep
  BY <1>4, <1>7, <1>8 DEF CpuStep, Delta
<1>10. CASE pids = {}
  <2>1. procs' = procs /\ cpuPrev' = cpuPrev /\ usedThen' = usedThen
    BY <1>10 DEF LoopCpu, worldVars
  <2>2. CpuInv' <=> CpuInv
    BY <2>1, Zenon DEF CpuInv
  <2> QED
    BY <1>9, <2>2
<1>11. CASE pids # {}
  <2> DEFINE Of(b) == CHOOSE p \in DOMAIN procs : procs[p].born = b
  <2>1. /\ procs' = procs /\ cpuPrev' = cur
        /\ usedThen' = [b \in {procs[p].born : p \in DOMAIN procs} |-> procs[Of(b)].used]
    BY <1>11 DEF LoopCpu, cur, worldVars
  <2>2. ASSUME NEW b \in DOMAIN usedThen'
        PROVE  b[1] \in DOMAIN procs /\ usedThen'[b] = procs[b[1]].used
    <3>1. PICK p \in DOMAIN procs : procs[p].born = b
      BY <2>1
    <3>2. Of(b) \in DOMAIN procs /\ procs[Of(b)].born = b
      BY <3>1
    <3>3. p = b[1] /\ Of(b) = b[1]
      BY <1>1, <3>1, <3>2
    <3> QED
      BY <2>1, <2>2, <3>1, <3>3
  <2>3. \A p \in DOMAIN cpuPrev' : cpuPrev'[p] = procs[p].used /\ cpuPrev'[p] \in Nat
    BY <1>2, <2>1
  <2>4. \A b \in DOMAIN usedThen' : b[1] \in DOMAIN cpuPrev' => usedThen'[b] = cpuPrev'[b[1]]
    BY <2>2, <2>3
  <2>5. \A b \in DOMAIN usedThen' : usedThen'[b] \in Nat
    BY <1>1, <2>2
  <2>6. /\ IsFiniteSet(DOMAIN procs')
        /\ \A p \in DOMAIN procs' : procs'[p].born[1] = p /\ procs'[p].used \in Nat
    BY <1>1, <2>1, Zenon
  <2>7. \A p \in DOMAIN cpuPrev' : cpuPrev'[p] \in Nat
    BY <2>3
  <2> QED
    BY <1>9, <2>4, <2>5, <2>6, <2>7, Zenon DEF CpuInv
<1> QED
  BY <1>9, <1>10, <1>11

\* The world keeps identities and never takes CPU time back.
LEMMA WorldCpu ==
  ASSUME CpuInv, WorldNext, UNCHANGED <<cpuPrev, usedThen>>
  PROVE  CpuInv'
<1>1. /\ IsFiniteSet(DOMAIN procs)
      /\ \A p \in DOMAIN procs : procs[p].born[1] = p /\ procs[p].used \in Nat
  BY DEF CpuInv
<1>2. SUFFICES /\ IsFiniteSet(DOMAIN procs')
               /\ \A p \in DOMAIN procs' : procs'[p].born[1] = p /\ procs'[p].used \in Nat
  BY DEF CpuInv
<1>3. CASE \E p, c \in Pids : Fork(p, c)
  <2>1. PICK p \in Pids, c \in Pids : Fork(p, c)
    BY <1>3
  <2>2. PICK cmd \in Commands :
          procs' = [x \in DOMAIN procs \cup {c} |->
                      IF x = c
                      THEN [parent |-> p, born |-> <<c, events'>>, cmd |-> cmd, zombie |-> FALSE,
                            used |-> 0, gpus |-> {}]
                      ELSE procs[x]]
    BY <2>1 DEF Fork
  <2>3. DOMAIN procs' = DOMAIN procs \cup {c}
    BY <2>2
  <2>4. ASSUME NEW x \in DOMAIN procs' PROVE procs'[x].born[1] = x /\ procs'[x].used \in Nat
    BY <1>1, <2>2, <2>3
  <2> QED
    BY <1>1, <2>3, <2>4, FS_AddElement
<1>4. CASE \E p \in Pids : Exit(p)
  <2>1. /\ DOMAIN procs' = DOMAIN procs
        /\ \A x \in DOMAIN procs :
             procs'[x] \in {[procs[x] EXCEPT !.zombie = TRUE, !.gpus = {}],
                            [procs[x] EXCEPT !.parent = 1], procs[x]}
    BY <1>4 DEF Exit
  <2>2. ASSUME NEW x \in DOMAIN procs
        PROVE  procs'[x].born = procs[x].born /\ procs'[x].used = procs[x].used
    <3> DEFINE r == procs[x]
    <3>1. \/ procs'[x] = [r EXCEPT !.zombie = TRUE, !.gpus = {}]
          \/ procs'[x] = [r EXCEPT !.parent = 1]
          \/ procs'[x] = r
      BY <2>1
    <3>2. /\ [r EXCEPT !.zombie = TRUE, !.gpus = {}].born = r.born
          /\ [r EXCEPT !.zombie = TRUE, !.gpus = {}].used = r.used
          /\ [r EXCEPT !.parent = 1].born = r.born
          /\ [r EXCEPT !.parent = 1].used = r.used
      OBVIOUS
    <3> QED
      BY <3>1, <3>2
  <2> QED
    BY <1>1, <2>1, <2>2
<1>5. CASE \E p \in Pids : Reap(p)
  <2>1. PICK p : procs' = [x \in DOMAIN procs \ {p} |-> procs[x]]
    BY <1>5 DEF Reap
  <2>2. DOMAIN procs' = DOMAIN procs \ {p} /\ \A x \in DOMAIN procs' : procs'[x] = procs[x]
    BY <2>1
  <2> QED
    BY <1>1, <2>2, FS_RemoveElement
<1>6. CASE \E p \in Pids : Work(p)
  <2>1. PICK p \in DOMAIN procs : procs' = [procs EXCEPT ![p].used = @ + 1]
    BY <1>6 DEF Work
  <2>2. /\ DOMAIN procs' = DOMAIN procs
        /\ \A x \in DOMAIN procs : x # p => procs'[x] = procs[x]
        /\ procs'[p] = [procs[p] EXCEPT !.used = @ + 1]
    BY <2>1
  <2>3. procs'[p].born = procs[p].born /\ procs'[p].used \in Nat
    BY <1>1, <2>2
  <2> QED
    BY <1>1, <2>2, <2>3
<1> QED
  BY <1>3, <1>4, <1>5, <1>6 DEF WorldNext

LEMMA NextCpu == CpuInv /\ [CollectorNext]_collectorVars => CpuInv' /\ [CpuStep]_collectorVars
<1> SUFFICES ASSUME CpuInv, [CollectorNext]_collectorVars
             PROVE  CpuInv' /\ [CpuStep]_collectorVars
  OBVIOUS
<1>1. ASSUME UNCHANGED worldVars, UNCHANGED samplerVars
      PROVE  CpuInv' /\ [CpuStep]_collectorVars
  BY <1>1 DEF worldVars, samplerVars, CpuInv, CpuStep
<1>2. CASE LoopCpu
  BY <1>2, CpuTick
<1>3. CASE WorldNext /\ UNCHANGED loopVars
  BY <1>3, WorldCpu DEF loopVars, samplerVars, CpuStep
<1>4. CASE TargetNext /\ UNCHANGED loopVars
  BY <1>1, <1>4 DEF loopVars, TargetNext, Begin, ReadEntry, Resolve, Attach, AttachRead, AttachLook
<1>5. CASE LoopInit \/ LoopTop \/ LoopWalk \/ LoopGpus \/ LoopWake
  BY <1>1, <1>5 DEF LoopInit, LoopTop, LoopWalk, LoopGpus, LoopWake
<1>6. CASE UNCHANGED <<worldVars, loopVars>>
  BY <1>1, <1>6 DEF loopVars
<1>7. CASE UNCHANGED collectorVars
  BY <1>6, <1>7 DEF collectorVars
<1> QED
  BY <1>2, <1>3, <1>4, <1>5, <1>6, <1>7 DEF CollectorNext, LoopNext

\* No tick reports more CPU time than the processes of the tree have used since
\* the tick before, whichever came, left or had their number taken over
\* (cpu.rs sample and delta_pct).
THEOREM CpuCorrectness == CollectorSpec => CpuIsNeverOverstated
<1>1. CollectorInit => CpuInv
  <2> SUFFICES ASSUME CollectorInit PROVE CpuInv
    OBVIOUS
  <2>1. procs \in Worlds /\ cpuPrev = <<>> /\ usedThen = <<>>
    BY DEF CollectorInit, WorldInit
  <2>2. DOMAIN cpuPrev = {} /\ DOMAIN usedThen = {}
    BY <2>1
  <2> QED
    BY <2>1, <2>2, WorldsAssumption DEF CpuInv
<1>2. CpuInv /\ [CollectorNext]_collectorVars => CpuInv'
  BY NextCpu
<1>3. CpuInv /\ [CollectorNext]_collectorVars => [CpuStep]_collectorVars
  BY NextCpu
<1> QED
  BY <1>1, <1>2, <1>3, PTL DEF CollectorSpec, CpuIsNeverOverstated
==============================================================================
