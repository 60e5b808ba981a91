--------------------------- MODULE ModelLifecycle ---------------------------
(***************************************************************************)
(* The life of a checkpoint across the commands of cli.py: `dataset` grows *)
(* the stored matches, `train` splits them, fits a booster and perhaps a   *)
(* calibrator (ml/training.py) and writes three files one after another,   *)
(* `serve` and `predict` build an engine from the files                    *)
(* (inference/engine.py), `validate` scores the booster on matches it      *)
(* takes for held out.  A process may die between any two writes, or in    *)
(* the middle of one, and a reader may run while the files are replaced.   *)
(*                                                                         *)
(* A match is the number in its id: ids are padded, so they sort alike.    *)
(* What a file holds is the record of the training that wrote it.          *)
(***************************************************************************)
EXTENDS Integers, Sequences, FiniteSets

CONSTANTS
  Matches,        \* the numbers of the matches that may be simulated
  Fractions,      \* test fractions, <<numerator, denominator>>, between 0 and 1
  MinCalibration, \* MIN_CALIBRATION_MATCHES
  Best,           \* values of best_iteration
  Caps,           \* values of max_trees
  MaxTrainings,   \* bound on completed fits
  MaxCrashes,     \* bound on crashes of `train`
  None, Absent, Torn \* no value, no file, a file cut off in the middle

ASSUME LifecycleAssumption ==
  /\ Matches \subseteq Nat /\ IsFiniteSet(Matches)
  /\ Fractions \subseteq (Nat \ {0}) \X (Nat \ {0})
  /\ \A f \in Fractions : f[1] < f[2]
  /\ MinCalibration \in Nat \ {0, 1}
  /\ Best \subseteq Nat /\ Caps \subseteq Nat \ {0}
  /\ MaxTrainings \in Nat /\ MaxCrashes \in Nat

VARIABLES
  db,       \* the matches of the training view
  files,    \* "model", "metadata", "calibrator" -> Absent, Torn or a training
  trainer,  \* the `train` process: steps of the save done, and its training
  reader,   \* the process that loads the files, and what it has read
  engine,   \* the engine the last process built, or None
  verdict,  \* what the last process, a `validate`, reported, or None
  intact,   \* history: no save was begun that did not end
  latest,   \* history: the training of the last save that ended
  fits, crashes

lifeVars == <<db, files, trainer, reader, engine, verdict, intact, latest, fits, crashes>>

-----------------------------------------------------------------------------
\* round(): halves go to the even neighbour.
RoundHalfEven(num, den) ==
  LET whole == num \div den
      twice == 2 * (num % den)
  IN IF twice < den \/ (twice = den /\ whole % 2 = 0) THEN whole ELSE whole + 1

HoldoutSize(count, fraction) ==
  LET size == RoundHalfEven(count * fraction[1], fraction[2])
  IN IF size < 1 THEN 1 ELSE size

\* The last matches of data, and the first ones.
LastOf(data, size) == {m \in data : Cardinality({x \in data : x >= m}) <= size}
FirstOf(data, size) == {m \in data : Cardinality({x \in data : x <= m}) <= size}

\* split_by_match(): the test side; the training side is the rest.
HeldOut(data, fraction) == LastOf(data, HoldoutSize(Cardinality(data), fraction))

\* Mutant: the calibrator and the metrics share the test matches.
CalibrationSplitShared(test, calibrate) ==
  IF calibrate /\ Cardinality(test) >= MinCalibration
    THEN [fit |-> FirstOf(test, Cardinality(test) \div 2), score |-> test]
    ELSE [fit |-> {}, score |-> test]

\* The halves that teach the calibrator and that report the metrics.
CalibrationSplit(test, calibrate) ==
  IF calibrate /\ Cardinality(test) >= MinCalibration
    THEN LET fit == FirstOf(test, Cardinality(test) \div 2)
         IN [fit |-> fit, score |-> test \ fit]
    ELSE [fit |-> {}, score |-> test]

\* train_model().  Early stopping watches the test matches and settles on the
\* best tree for them; they are scored with that many trees.  A calibrator
\* fitted on few rows or on one outcome is the identity.
Trainings(data, fraction, calibrate) ==
  LET test == HeldOut(data, fraction)
      split == CalibrationSplit(test, calibrate)
  IN {[id |-> fits + 1, data |-> data, fraction |-> fraction,
       learned |-> data \ test, watched |-> test, fitted |-> fitted,
       scored |-> split.score, best |-> best, build |-> "this"] :
        fitted \in {{}, split.fit}, best \in Best}

\* A checkpoint of an earlier version, with this or another feature order;
\* it was saved before calibration existed.
Legacy(build) ==
  [id |-> 0, data |-> {1, 2}, fraction |-> <<1, 4>>, learned |-> {1}, watched |-> {2},
   fitted |-> {}, scored |-> {2}, best |-> 0, build |-> build]

Idle == [step |-> 0, training |-> None]
NoReader == [kind |-> None]

Init ==
  /\ \/ /\ db = {} /\ latest = None
        /\ files = [model |-> Absent, calibrator |-> Absent, metadata |-> Absent]
     \/ \E build \in {"this", "other"} :
          /\ db = {1, 2} /\ latest = Legacy(build)
          /\ files = [model |-> latest, calibrator |-> Absent, metadata |-> latest]
  /\ trainer = Idle /\ reader = NoReader
  /\ engine = None /\ verdict = None
  /\ intact = TRUE
  /\ fits = 0 /\ crashes = 0

-----------------------------------------------------------------------------
\* `dataset`: matches of consecutive seeds; one that is interrupted leaves a
\* part of them.
Dataset ==
  /\ \E first, last \in Matches :
       /\ first <= last
       /\ db' = db \union {m \in Matches : first <= m /\ m <= last}
  /\ db' # db
  /\ UNCHANGED <<files, trainer, reader, engine, verdict, intact, latest, fits, crashes>>

\* `train` up to the save.  It raises, and changes nothing, with fewer than
\* two matches and when the training side is empty.
Train ==
  /\ trainer = Idle /\ fits < MaxTrainings
  /\ Cardinality(db) >= 2
  /\ \E fraction \in Fractions, calibrate \in BOOLEAN :
       /\ HeldOut(db, fraction) # db
       /\ \E training \in Trainings(db, fraction, calibrate) :
            trainer' = [step |-> 1, training |-> training]
  /\ fits' = fits + 1
  /\ UNCHANGED <<db, files, reader, engine, verdict, intact, latest, crashes>>

\* --no-save
Discard ==
  /\ trainer.step = 1 /\ trainer' = Idle
  /\ UNCHANGED <<db, files, reader, engine, verdict, intact, latest, fits, crashes>>

\* Mutant: the metadata is written first.
SaveOrderMetadataFirst == <<"metadata", "model", "calibrator">>

SaveOrder == <<"model", "calibrator", "metadata">>

\* Mutant: an identity calibrator is not worth a file.
WrittenUnlessIdentity(name, training, complete) ==
  IF name = "calibrator" /\ training.fitted = {} THEN files[name]
  ELSE IF complete THEN training ELSE Torn

\* What a write leaves in a file; the identity is saved like any calibrator.
Written(name, training, complete) == IF complete THEN training ELSE Torn

\* save_model(): each file is truncated, then complete.
Save ==
  /\ trainer.step > 0
  /\ LET name == SaveOrder[(trainer.step + 1) \div 2] IN
     files' = [files EXCEPT ![name] =
                 Written(name, trainer.training, trainer.step % 2 = 0)]
  /\ intact' = (trainer.step = 6)
  /\ \/ /\ trainer.step < 6
        /\ trainer' = [trainer EXCEPT !.step = @ + 1]
        /\ UNCHANGED latest
     \/ /\ trainer.step = 6
        /\ trainer' = Idle /\ latest' = trainer.training
  /\ reader' = IF reader = NoReader THEN reader ELSE [reader EXCEPT !.alone = FALSE]
  /\ UNCHANGED <<db, engine, verdict, fits, crashes>>

CrashTrain ==
  /\ trainer # Idle /\ crashes < MaxCrashes
  /\ trainer' = Idle /\ crashes' = crashes + 1
  /\ UNCHANGED <<db, files, reader, engine, verdict, intact, latest, fits>>

-----------------------------------------------------------------------------
\* A process that will load the files, one at a time.  `serve` is the API at
\* its startup; `validate` has read the training view, which must not be
\* empty.  alone, calm and against are history: no save meanwhile, and the
\* state of the files when the reading began.
Open(kind, cap, fraction) ==
  /\ reader = NoReader
  /\ reader' = [kind |-> kind, cap |-> cap, fraction |-> fraction, data |-> db,
                read |-> <<>>, alone |-> TRUE, calm |-> intact, against |-> latest]
  /\ engine' = None /\ verdict' = None
  /\ UNCHANGED <<db, files, trainer, intact, latest, fits, crashes>>

StartServe == Open("serve", None, None)

StartPredict == \E cap \in Caps \union {None} : Open("predict", cap, None)

StartValidate == db # {} /\ \E fraction \in Fractions : Open("validate", None, fraction)

LoadOrder == <<"model", "metadata", "calibrator">>
Next1 == files[LoadOrder[Len(reader.read) + 1]]

\* load_model(), one file at a time.
Read ==
  /\ reader # NoReader /\ Len(reader.read) < 3
  /\ Next1 # Torn
  /\ reader.read = <<>> => Next1 # Absent
  /\ reader' = [reader EXCEPT !.read = Append(@, Next1)]
  /\ UNCHANGED <<db, files, trainer, engine, verdict, intact, latest, fits, crashes>>

\* A file that does not parse, and a missing booster, raise.  `serve` goes on
\* without an engine, the others end.
ReadFails ==
  /\ reader # NoReader /\ Len(reader.read) < 3
  /\ Next1 = Torn \/ (reader.read = <<>> /\ Next1 = Absent)
  /\ reader' = NoReader
  /\ UNCHANGED <<db, files, trainer, engine, verdict, intact, latest, fits, crashes>>

\* The trees the engine uses: best_iteration of the metadata, or of the
\* booster when there is none, and no more than the cap.
Trees(booster, metadata, cap) ==
  LET resolved == 1 + (IF metadata = Absent THEN booster.best ELSE metadata.best)
  IN IF cap # None /\ cap < resolved THEN cap ELSE resolved

\* The matches a loaded calibrator was fitted on; without a file, the identity.
Fitted(calibrator) == IF calibrator = Absent THEN {} ELSE calibrator.fitted

\* InferenceEngine(): refuses metadata of another feature order.
Construct ==
  /\ reader # NoReader /\ reader.kind # "validate" /\ Len(reader.read) = 3
  /\ LET booster == reader.read[1]
         metadata == reader.read[2]
     IN engine' = IF metadata # Absent /\ metadata.build # "this" THEN engine
                  ELSE [booster |-> booster, metadata |-> metadata,
                        fitted |-> Fitted(reader.read[3]),
                        trees |-> Trees(booster, metadata, reader.cap), cap |-> reader.cap,
                        alone |-> reader.alone, calm |-> reader.calm /\ reader.alone,
                        against |-> reader.against]
  /\ reader' = NoReader
  /\ UNCHANGED <<db, files, trainer, verdict, intact, latest, fits, crashes>>

\* `validate`: splits what is stored now.  It raises with one match, and the
\* booster refuses columns in another order than its own.
Validate ==
  /\ reader # NoReader /\ reader.kind = "validate" /\ Len(reader.read) = 3
  /\ verdict' = IF Cardinality(reader.data) < 2 \/ reader.read[1].build # "this" THEN verdict
                ELSE [scored |-> HeldOut(reader.data, reader.fraction),
                      reference |-> reader.data \ HeldOut(reader.data, reader.fraction),
                      data |-> reader.data, fraction |-> reader.fraction,
                      booster |-> reader.read[1]]
  /\ reader' = NoReader
  /\ UNCHANGED <<db, files, trainer, engine, intact, latest, fits, crashes>>

Next ==
  \/ Dataset \/ Train \/ Discard \/ Save \/ CrashTrain
  \/ StartServe \/ StartPredict \/ StartValidate \/ Read \/ ReadFails \/ Construct \/ Validate

Spec == Init /\ [][Next]_lifeVars

-----------------------------------------------------------------------------
(***************************************************************************)
(* An engine built from files that no interrupted save left behind, while  *)
(* none was going on, is the last training as a whole: its booster, its    *)
(* metadata, its calibrator or the identity, and its number of trees.  A   *)
(* calibrator of an earlier training never maps a later booster.           *)
(***************************************************************************)
IntactLoadIsLatest ==
  engine # None /\ engine.calm =>
    /\ engine.booster = engine.against
    /\ engine.metadata = engine.against
    /\ engine.fitted = engine.against.fitted
    /\ \/ engine.trees = engine.against.best + 1
       \/ engine.trees = engine.cap /\ engine.cap <= engine.against.best + 1

(***************************************************************************)
(* The booster of an engine was trained on this build's features           *)
(* ("ValueError: If the checkpoint was trained on a different feature      *)
(* set", engine.py), although the check reads the metadata: wherever a     *)
(* save of another build's checkpoint was cut off, old metadata refuses a  *)
(* new booster, and an old booster is never found beside new metadata.     *)
(* Only a save that runs during the load can pair the two.                 *)
(***************************************************************************)
ServedFeaturesMatch ==
  engine # None /\ engine.alone => engine.booster.build = "this"

(***************************************************************************)
(* What the metrics of a training are of.  No tree was grown on a match    *)
(* that is scored and no breakpoint of the calibrator was fitted on one,   *)
(* and there are some to grow on and some to score.  They are not unseen:  *)
(* each is one of those early stopping watched, so the number of trees was *)
(* chosen on the matches, or twice the matches, whose metrics are saved.   *)
(* And no tree was grown on what validate scores with the fraction of the  *)
(* training, as long as the data only grew by matches that sort after      *)
(* those of the training; on the same data they are those watched.         *)
(***************************************************************************)
Recorded == {files[name] : name \in DOMAIN files} \ {Absent, Torn}

OnlyGrew(data, old) == old \subseteq data /\ \A new \in data \ old : \A m \in old : new > m

ReportedUnfitted ==
  /\ \A training \in Recorded :
       /\ training.learned # {} /\ training.scored # {}
       /\ training.scored \intersect (training.learned \union training.fitted) = {}
       /\ training.scored \subseteq training.watched
       /\ training.watched \intersect training.learned = {}
  /\ verdict # None /\ verdict.fraction = verdict.booster.fraction
       /\ OnlyGrew(verdict.data, verdict.booster.data)
     => /\ verdict.scored \intersect verdict.booster.learned = {}
        /\ verdict.data = verdict.booster.data => verdict.scored = verdict.booster.watched

(***************************************************************************)
(* "Share of matches held out." (cli.py, validate): the rows a benchmark   *)
(* is reported on are of matches the booster has not seen.                 *)
(***************************************************************************)
HeldOutIsUnseen ==
  verdict # None => verdict.scored \intersect verdict.booster.learned = {}
=============================================================================
