---------------------------- MODULE SplitDataset ----------------------------
(***************************************************************************)
(* pipeline/label_generator.py and pipeline/split_generator.py: forward    *)
(* labels for each aligned day, and the train, validation and test splits  *)
(* made of the labelled days, published as an immutable generation and a   *)
(* manifest, written last, that names it.  A process may be killed, a sync *)
(* may fail, and a power cut loses every rename that was not synced.       *)
(*                                                                         *)
(* Days are numbers.  Of a labelled file the model keeps the horizons its  *)
(* columns are named for, the windows its labels span, and whether its     *)
(* footer (the schema) and its pages can be read.                          *)
(***************************************************************************)
EXTENDS Integers, FiniteSets, SequencesExt

CONSTANTS Calendars,   \* the days that may have been aligned
          OddDays,     \* bound: those labelled apart, relabelled or damaged
          Frames,      \* the timestamps of an aligned day, in ms
          GridMs,
          HorizonSets, \* the horizons_s of a labelling run, in seconds
          Options,     \* the arguments of generate_splits
          MaxLabelled, \* bound: days labelled again
          MaxRuns,     \* bound: runs of generate_splits
          MaxFaults    \* bound: kills, power cuts, failing syncs, damaged files

ASSUME SplitAssumption ==
  /\ GridMs \in Nat \ {0} /\ MaxLabelled \in Nat /\ MaxRuns \in Nat /\ MaxFaults \in Nat
  /\ \A days \in Calendars : days \subseteq Nat \ {0} /\ IsFiniteSet(days)
  /\ \A frame \in Frames : frame \in Seq(Nat)
  /\ \A hs \in HorizonSets : hs \subseteq Nat /\ IsFiniteSet(hs)
  /\ \A a \in Options : /\ a.strict \in BOOLEAN /\ a.writes \in BOOLEAN /\ a.embargo \in Nat
                          /\ a.purge \in Seq(Nat) /\ a.horizon \in Seq(Nat)

VARIABLES
  aligned, labeled,     \* a frame for each day; the labelled files
  pc, arg, mem, blobs,  \* a run: its step, arguments, manifest, and artifacts
  gens,                 \* the generations in the directory: "linked", "durable" or "altered"
  manifest, stable,     \* split_manifest.json, and what a power cut would leave of it
  reported, raced,    
  labelled, runs, faults

inputs == <<aligned, labeled, labelled>>
run    == <<pc, arg, mem, blobs>>
disk   == <<gens, manifest, stable>>
vars   == <<inputs, run, disk, reported, raced, runs, faults>>

Splits     == <<"train", "val", "test">>
Day        == 86400
None       == <<>>  \* no argument, no manifest
Unmeasured == -1    \* no gap is defined

(***************************************************************************)
(* Labels                                                                  *)
(***************************************************************************)

\* _verify_grid: a timestamp column whose every step is the grid's.
VerifiedGrid(frame) ==
  Len(frame) >= 2 /\ \A i \in 2 .. Len(frame) : frame[i] - frame[i - 1] = GridMs

ShiftRows(h) == (h * 1000) \div GridMs

\* _generate_label_columns: a row shift for each horizon; rows without a future price
\* for every horizon are dropped.
LabelColumns(frame, horizons) ==
  LET rows == {i \in DOMAIN frame : \A h \in horizons : i + ShiftRows(h) \in DOMAIN frame}
  IN {[h |-> h, at |-> frame[i], to |-> frame[i + ShiftRows(h)]] : h \in horizons, i \in rows}

\* generate_labels writes in place: a process that is killed leaves half a file.
GenerateLabels(d, horizons, strict) ==
  /\ labelled < MaxLabelled /\ labelled' = labelled + 1
  /\ strict => VerifiedGrid(aligned[d]) /\ \A h \in horizons : (h * 1000) % GridMs = 0
  /\ \A h \in horizons : ShiftRows(h) > 0
  /\ \E whole \in BOOLEAN :
       /\ whole \/ faults < MaxFaults
       /\ faults' = (IF whole THEN faults ELSE faults + 1)
       /\ labeled' = [x \in DOMAIN labeled \cup {d} |->
                        IF x # d THEN labeled[x]
                        ELSE [horizons |-> horizons, strict |-> strict, schema |-> whole,
                              body |-> whole, labels |-> LabelColumns(aligned[d], horizons)]]
  /\ raced' = (raced \/ pc # "idle")
  /\ UNCHANGED <<aligned, run, disk, reported, runs>>

\* Pages of a labelled file rot; its footer can still be read.
Rots(d) ==
  /\ faults < MaxFaults /\ faults' = faults + 1 /\ labeled[d].body
  /\ labeled' = [labeled EXCEPT ![d].body = FALSE]
  /\ UNCHANGED <<aligned, labelled, run, disk, reported, raced, runs>>

(***************************************************************************)
(* The manifest                                                            *)
(***************************************************************************)

\* Mutant: whole days the horizon fills.
WholeDays(h) == h \div Day

\* _required_purge_days.
RequiredPurge(h) == IF h <= 0 THEN 0 ELSE Max({1, (h + Day - 1) \div Day})

GapDays(earlier, later) ==
  IF earlier = <<>> \/ later = <<>> THEN Unmeasured ELSE later[1] - Last(earlier) - 1

\* _parse_dates: chronological, whatever the order of the names.
ParseDates(days) ==
  LET upto[n \in 0 .. Max(days \cup {0})] ==
        IF n = 0 THEN <<>> ELSE IF n \in days THEN Append(upto[n - 1], n) ELSE upto[n - 1]
  IN upto[Max(days \cup {0})]

\* _max_label_horizon_s_detailed, over the files whose schema it can read.
LongestHorizon(days) == Max({0} \cup UNION {labeled[d].horizons : d \in days})

\* build_manifest, whose warnings all raise in strict mode.  The gap is taken from the
\* end of the earlier split, and measured in what is left.  (int(0.70 * total) is this
\* quotient below 90 days.)
BuildManifest(days, a, h) ==
  LET dates    == ParseDates(days)
      total    == Len(dates)
      trainEnd == (total * 70) \div 100
      valEnd   == (total * 85) \div 100
      purge    == IF a.purge = None THEN RequiredPurge(h) ELSE a.purge[1]
      gap      == purge + a.embargo
      splits   == [train |-> SubSeq(dates, 1, Max({trainEnd - gap, 0})),
                   val   |-> SubSeq(dates, trainEnd + 1, Max({valEnd - gap, trainEnd})),
                   test  |-> SubSeq(dates, valEnd + 1, total)]
      achieved == <<GapDays(splits.train, splits.val), GapDays(splits.val, splits.test)>>
      warned   == \/ purge < RequiredPurge(h)
                  \/ \E s \in Range(Splits) : splits[s] = <<>>
                  \/ \E g \in Range(achieved) : g < gap
  IN [splits |-> splits, gap |-> gap, horizon |-> h, warned |-> warned,
      safe |-> ~warned, dropped |-> {}, generation |-> None, source |-> "supplied",
      longest |-> LongestHorizon(days), raced |-> FALSE]  \* for the record

\* verify_manifest: the same facts, from the recorded dates alone.
VerifyManifest(m) ==
  LET Of(s) == m.splits[s]
  IN /\ \A s \in Range(Splits) : Of(s) # <<>> /\ \A i \in 2 .. Len(Of(s)) : Of(s)[i - 1] <= Of(s)[i]
     /\ \A i, j \in DOMAIN Splits : i < j =>
          Range(Of(Splits[i])) \cap Range(Of(Splits[j])) = {}
     /\ \A i \in 1 .. 2 : GapDays(Of(Splits[i]), Of(Splits[i + 1])) >= m.gap

(***************************************************************************)
(* A run of generate_splits                                                *)
(***************************************************************************)
Ends == pc' = "idle" /\ arg' = None /\ mem' = None /\ blobs' = None

\* discover_labeled_files: an error is not an empty directory.
DiscoverLabeledFiles(listed) == IF listed THEN <<DOMAIN labeled>> ELSE None

\* Without a file there is nothing to do.
Starts(a) ==
  /\ pc = "idle" /\ runs < MaxRuns /\ runs' = runs + 1
  /\ DOMAIN labeled # {}
  /\ pc' = "horizon" /\ arg' = <<a>> /\ raced' = FALSE /\ reported' = FALSE
  /\ UNCHANGED <<inputs, mem, blobs, disk, faults>>

\* The horizon, then the manifest.  Without strict an unreadable schema, or a manifest that
\* fails its verification, is a warning.
Manifest ==
  /\ pc = "horizon"
  /\ \E listed \in BOOLEAN :
       LET a        == arg[1]
           supplied == a.horizon # None
           files    == IF supplied THEN <<{}>> ELSE DiscoverLabeledFiles(listed)
           unread   == {d \in files[1] : ~labeled[d].schema}
           h        == IF supplied THEN a.horizon[1]
                       ELSE LongestHorizon(files[1] \ unread)
           m        == BuildManifest(DOMAIN labeled, a, h)
           good     == unread = {} /\ VerifyManifest(m)
       IN /\ listed \/ (~supplied /\ faults < MaxFaults)
          /\ faults' = (IF listed THEN faults ELSE faults + 1)
          /\ IF files = None \/ (a.strict /\ (m.warned \/ ~good)) THEN Ends
             ELSE /\ pc' = "read" /\ UNCHANGED <<arg, blobs>>
                  /\ mem' = << [m EXCEPT !.safe = @ /\ good, !.warned = @ \/ ~good,
                                         !.source = IF supplied THEN @ ELSE "derived"] >>
  /\ UNCHANGED <<inputs, disk, reported, raced, runs>>

\* Every frame is read before anything is written; a day that cannot be read is left out
\* with a warning.  A split without a day has no artifact.
ReadFrames ==
  /\ pc = "read" /\ UNCHANGED arg
  /\ LET m       == mem[1]
         Good(s) == {d \in Range(m.splits[s]) : labeled[d].body}
         lost    == UNION {Range(m.splits[s]) \ Good(s) : s \in Range(Splits)}
         written == {s \in Range(Splits) : Good(s) # {}}
     IN IF ~arg[1].writes THEN pc' = "manifest" /\ UNCHANGED <<mem, blobs>>
        ELSE /\ pc' = (IF written = {} THEN "manifest" ELSE "publish")
             /\ blobs' = << [s \in written |-> {<<d, labeled[d].labels>> : d \in Good(s)}] >>
             /\ mem' = << [m EXCEPT !.dropped = lost, !.warned = @ \/ lost # {},
                                   !.raced = raced] >>
  /\ UNCHANGED <<inputs, disk, reported, raced, runs, faults>>

\* _publish_generation: the directory is named for its content.  One that is there is read
\* again and synced again ...
ReuseGeneration ==
  /\ pc = "publish" /\ blobs[1] \in DOMAIN gens
  /\ IF gens[blobs[1]] = "altered" THEN Ends
     ELSE /\ pc' = "sync" /\ mem' = << [mem[1] EXCEPT !.generation = blobs] >>
          /\ UNCHANGED <<arg, blobs>>
  /\ UNCHANGED <<inputs, disk, reported, raced, runs, faults>>

\* ... and one that is not is renamed into place, complete.
RenameGeneration ==
  /\ pc = "publish" /\ blobs[1] \notin DOMAIN gens
  /\ gens' = [g \in DOMAIN gens \cup {blobs[1]} |-> IF g = blobs[1] THEN "linked" ELSE gens[g]]
  /\ pc' = "sync" /\ mem' = << [mem[1] EXCEPT !.generation = blobs] >>
  /\ UNCHANGED <<inputs, arg, blobs, manifest, stable, reported, raced, runs, faults>>

\* _fsync_dir up the chain of directories; a failure ends the run.
SyncGeneration ==
  /\ pc = "sync"
  /\ \/ /\ gens' = [gens EXCEPT ![blobs[1]] = "durable"]
        /\ pc' = "manifest" /\ UNCHANGED <<arg, mem, blobs, faults>>
     \/ faults < MaxFaults /\ faults' = faults + 1 /\ Ends /\ UNCHANGED gens
  /\ UNCHANGED <<inputs, manifest, stable, reported, raced, runs>>

\* _atomic_write_bytes: a synced file put in place, then the directory's sync.
WriteManifest ==
  /\ pc = "manifest" /\ pc' = "flush" /\ manifest' = mem
  /\ UNCHANGED <<inputs, arg, mem, blobs, gens, stable, reported, raced, runs, faults>>

SyncManifest ==
  /\ pc = "flush" /\ Ends
  /\ \/ stable' = manifest /\ reported' = TRUE /\ UNCHANGED faults
     \/ faults < MaxFaults /\ faults' = faults + 1 /\ UNCHANGED <<stable, reported>>
  /\ UNCHANGED <<inputs, gens, manifest, raced, runs>>

Killed ==
  /\ pc # "idle" /\ faults < MaxFaults /\ faults' = faults + 1 /\ Ends
  /\ UNCHANGED <<inputs, disk, reported, raced, runs>>

\* What was not synced may be gone, whichever part of it.
PowerCut ==
  /\ faults < MaxFaults /\ faults' = faults + 1 /\ Ends
  /\ \E gone \in SUBSET {g \in DOMAIN gens : gens[g] = "linked"} :
       gens' = [g \in DOMAIN gens \ gone |-> IF gens[g] = "linked" THEN "durable" ELSE gens[g]]
  /\ manifest' \in {manifest, stable} /\ stable' = manifest'
  /\ UNCHANGED <<inputs, reported, raced, runs>>

\* Someone alters or deletes an artifact, between two runs.
Damaged(g) ==
  /\ pc = "idle" /\ faults < MaxFaults /\ faults' = faults + 1
  /\ gens' = [gens EXCEPT ![g] = "altered"]
  /\ UNCHANGED <<inputs, run, manifest, stable, reported, raced, runs>>

(***************************************************************************)
(* The behaviours                                                          *)
(***************************************************************************)

\* Every aligned day was labelled strictly for the same horizons, one day perhaps not.
Init ==
  /\ \E days \in Calendars, odd \in OddDays, frame \in Frames, hs \in HorizonSets,
        other \in HorizonSets :
       LET usual == [i \in 1 .. 3 |-> i * GridMs]
           Horizons(d) == IF d = odd THEN other ELSE hs
       IN /\ odd \in days
          /\ \A h \in hs \cup other : ShiftRows(h) > 0 /\ (h * 1000) % GridMs = 0
          /\ aligned = [d \in days |-> IF d = odd THEN frame ELSE usual]
          /\ labeled = [d \in days \ (IF VerifiedGrid(frame) THEN {} ELSE {odd}) |->
               [horizons |-> Horizons(d), strict |-> TRUE, schema |-> TRUE, body |-> TRUE,
                labels |-> LabelColumns(aligned[d], Horizons(d))]]
  /\ pc = "idle" /\ arg = None /\ mem = None /\ blobs = None
  /\ gens = <<>> /\ manifest = None /\ stable = None
  /\ reported = FALSE /\ raced = FALSE /\ labelled = 0 /\ runs = 0 /\ faults = 0

Next ==
  \/ \E d \in DOMAIN aligned \cap OddDays, hs \in HorizonSets, strict \in BOOLEAN :
       GenerateLabels(d, hs, strict)
  \/ \E d \in DOMAIN labeled \cap OddDays : Rots(d)
  \/ \E a \in Options : Starts(a)
  \/ Manifest \/ ReadFrames
  \/ ReuseGeneration \/ RenameGeneration \/ SyncGeneration \/ WriteManifest \/ SyncManifest
  \/ Killed \/ PowerCut
  \/ \E g \in DOMAIN gens : Damaged(g)

Spec == Init /\ [][Next]_vars

TypeOK ==
  /\ pc \in {"idle", "horizon", "read", "publish", "sync", "manifest", "flush"}
  /\ DOMAIN labeled \subseteq DOMAIN aligned
  /\ \A g \in DOMAIN gens : gens[g] \in {"linked", "durable", "altered"}
  /\ {reported, raced} \subseteq BOOLEAN

\* Whatever was killed, failed or lost its power, the manifest a reader finds names a
\* generation that is there, and so would the one a power cut leaves; after a run that
\* returned, both are on the disk (_publish_generation, _atomic_write_bytes).
CommitRecord ==
  /\ \A m \in {manifest, stable} : m # None /\ m[1].generation # None =>
       /\ m[1].generation[1] \in DOMAIN gens
       /\ gens[m[1].generation[1]] # "linked"
  /\ reported => manifest = stable

SplitInv == TypeOK /\ CommitRecord

\* The end of day d leaves a window of h seconds room before day e.
Clear(d, e, h) == (d + 1) * Day + h <= e * Day

\* A manifest that calls itself leakage-safe, of a horizon that was measured, leaves no
\* labelled row of an earlier split a window that its columns' names let reach a day of a
\* later one; nor is there such a label in the generation it names, unless a file was
\* rewritten under the run; and a label of a strictly labelled file spans exactly what its
\* name says (build_manifest, generate_splits, _verify_grid).
NoLeak ==
  /\ \A m \in Range(manifest) : m.safe /\ m.source = "derived" =>
       \A i, j \in DOMAIN Splits : i < j =>
         \A e \in Range(m.splits[Splits[j]]) :
           /\ \A d \in Range(m.splits[Splits[i]]) : Clear(d, e, m.longest)
           /\ m.generation # None /\ ~m.raced /\ Splits[i] \in DOMAIN m.generation[1] =>
                \A file \in m.generation[1][Splits[i]] :
                  \A l \in file[2] : Clear(file[1], e, l.h)
  /\ \A d \in DOMAIN labeled : labeled[d].strict =>
       \A l \in labeled[d].labels : l.to - l.at = l.h * 1000

\* split_generator.py:560: a day that could not be read while writing a split leaves a
\* manifest that is not leakage-safe already.
DroppedMeansUnsafe == manifest # None /\ manifest[1].dropped # {} => ~manifest[1].safe
=============================================================================
