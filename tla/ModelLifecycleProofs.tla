------------------------ MODULE ModelLifecycleProofs ------------------------
(***************************************************************************)
(* What every engine is built from, what it is fed and what it answers,    *)
(* for any matches, fractions, samples, calibrators and bounds:            *)
(* IntactLoadIsLatest, ServedFeaturesMatch and ReportedUnfitted, what a report *)
(* is on, of ModelLifecycle; FeatureContract of Features; ScoringExact of  *)
(* Scoring; and ReportsSound of Reports, proved as invariants.             *)
(*                                                                         *)
(* The first two rest on what the order of the three writes leaves behind  *)
(* at every step of a save (SaveLeaves), on the pair of files that may be  *)
(* found together after any number of interrupted saves (OldPairs), and on *)
(* a reader that saw no save holding exactly the files (ReadsFiles); the   *)
(* third on the splits of train_model() (Sound).  FeatureContract rests on *)
(* what the cells of a row hold before and after a migration (RowHolds)    *)
(* and on the two feature paths agreeing on every sample (PathsAgree).     *)
(*                                                                         *)
(* ScoringExact rests on the calls of a batch (Answered), on the latencies *)
(* kept being the newest (Newest), on the places a sort gives and on the   *)
(* calibrator's map rising from breakpoint to breakpoint.  ReportsSound    *)
(* rests on every row lying in one band and one bin, on running sums, and  *)
(* on what a sample repeated whole leaves of the quantiles' bins.          *)
(***************************************************************************)
EXTENDS ModelLifecycle, Features, Scoring, Reports, FiniteSetTheorems, SequenceTheorems, TLAPS

FileNames == {"model", "calibrator", "metadata"}

Training ==
  [id : Nat, data : SUBSET Nat, fraction : Nat \X Nat, learned : SUBSET Nat,
   watched : SUBSET Nat, fitted : SUBSET Nat, scored : SUBSET Nat, best : Nat,
   build : {"this", "other"}]

File == Training \union {Absent, Torn}

Reader ==
  [kind : {"serve", "predict", "validate"}, cap : Caps \union {None},
   fraction : Fractions \union {None}, data : SUBSET Nat, read : Seq(File),
   alone : BOOLEAN, calm : BOOLEAN, against : Training \union {None}]

LifeTypeOK ==
  /\ db \in SUBSET Nat
  /\ files \in [FileNames -> File]
  /\ trainer \in [step : 0..6, training : Training \union {None}]
  /\ trainer.step > 0 => trainer.training \in Training /\ trainer.training.build = "this"
  /\ reader # NoReader => reader \in Reader
  /\ intact \in BOOLEAN
  /\ latest \in Training \union {None}
  /\ fits \in Nat

\* A file that is complete and of another build.
Old(file) == file \notin {Absent, Torn} /\ file.build # "this"

\* What a save that is under way has done so far.
SaveLeaves ==
  /\ trainer.step = 2 => files["model"] = Torn
  /\ trainer.step >= 3 => files["model"] = trainer.training
  /\ trainer.step >= 5 => files["calibrator"] = trainer.training

\* No booster of another build without metadata that says so.
OldPairs == Old(files["model"]) => Old(files["metadata"])

\* Between saves that ended there is one training in the files, or none.
IntactFiles ==
  intact =>
    /\ trainer.step <= 1
    /\ files["model"] # Absent =>
         /\ files["model"] = latest /\ files["metadata"] = latest
         /\ files["calibrator"] = latest \/ (files["calibrator"] = Absent /\ latest.fitted = {})

\* The booster was there; and without a save meanwhile, what was read is what
\* the files hold.
ReadsFiles ==
  reader # NoReader =>
    /\ Len(reader.read) <= 3
    /\ Len(reader.read) >= 1 => reader.read[1] \notin {Absent, Torn}
    /\ reader.alone =>
         /\ \A i \in 1..Len(reader.read) : reader.read[i] = files[LoadOrder[i]]
         /\ reader.calm = intact /\ reader.against = latest

LifeInv ==
  /\ LifeTypeOK /\ SaveLeaves /\ OldPairs /\ IntactFiles /\ ReadsFiles
  /\ IntactLoadIsLatest /\ ServedFeaturesMatch

-----------------------------------------------------------------------------
(***************************************************************************)
(* A fit on any matches is a training of this build, numbered next.        *)
(***************************************************************************)
LEMMA FitsAreTrainings ==
  ASSUME LifeTypeOK, NEW fraction \in Fractions, NEW calibrate \in BOOLEAN,
         NEW training \in Trainings(db, fraction, calibrate)
  PROVE  training \in Training /\ training.build = "this"
<1> DEFINE test == HeldOut(db, fraction)
           split == CalibrationSplit(test, calibrate)
<1>1. test \in SUBSET Nat
  BY DEF LifeTypeOK, HeldOut, LastOf
<1>2. split.fit \in SUBSET Nat /\ split.score \in SUBSET Nat
  <2>1. FirstOf(test, Cardinality(test) \div 2) \in SUBSET Nat
    BY <1>1 DEF FirstOf
  <2>2. QED
    BY <1>1, <2>1 DEF CalibrationSplit
<1>3. PICK fitted \in {{}, split.fit}, best \in Best :
        training = [id |-> fits + 1, data |-> db, fraction |-> fraction,
                    learned |-> db \ test, watched |-> test, fitted |-> fitted,
                    scored |-> split.score, best |-> best, build |-> "this"]
  BY DEF Trainings
<1>4. fits + 1 \in Nat /\ db \in SUBSET Nat /\ db \ test \in SUBSET Nat
  BY DEF LifeTypeOK
<1>5. fraction \in Nat \X Nat /\ best \in Nat
  BY LifecycleAssumption
<1>6. fitted \in SUBSET Nat
  BY <1>2
<1>7. QED
  BY <1>1, <1>2, <1>3, <1>4, <1>5, <1>6 DEF Training

-----------------------------------------------------------------------------
(***************************************************************************)
(* The initial states, with the checkpoint of an earlier version or none.  *)
(***************************************************************************)
LEMMA LifeInit == Init => LifeInv
<1> SUFFICES ASSUME Init PROVE LifeInv
  OBVIOUS
<1> USE DEF Init, Idle, NoReader
<1>1. \A build \in {"this", "other"} : Legacy(build) \in Training
  BY DEF Legacy, Training
<1>2. LifeTypeOK
  <2>1. files \in [FileNames -> File] /\ latest \in Training \union {None} /\ db \in SUBSET Nat
    BY <1>1 DEF File, FileNames
  <2>2. trainer \in [step : 0..6, training : Training \union {None}] /\ trainer.step = 0
    OBVIOUS
  <2>3. QED
    BY <2>1, <2>2 DEF LifeTypeOK
<1>3. SaveLeaves /\ OldPairs /\ ReadsFiles
  BY DEF SaveLeaves, OldPairs, Old, ReadsFiles
<1>4. IntactFiles
  BY DEF IntactFiles, Legacy
<1>5. IntactLoadIsLatest /\ ServedFeaturesMatch
  BY DEF IntactLoadIsLatest, ServedFeaturesMatch
<1>6. QED
  BY <1>2, <1>3, <1>4, <1>5 DEF LifeInv

(***************************************************************************)
(* `train` up to its save, and a training that is given up, leave the      *)
(* files and the readers alone.                                            *)
(***************************************************************************)
LEMMA TrainerKeeps ==
  ASSUME LifeInv, Train \/ Discard \/ CrashTrain
  PROVE  LifeInv'
<1> USE DEF LifeInv
<1>1. /\ UNCHANGED <<db, files, reader, engine, intact, latest>>
      /\ fits' \in Nat
      /\ trainer' \in [step : 0..6, training : Training \union {None}]
      /\ trainer'.step \in {0, 1}
      /\ trainer'.step > 0 => trainer'.training \in Training /\ trainer'.training.build = "this"
  <2>1. CASE Train
    <3>1. PICK fraction \in Fractions, calibrate \in BOOLEAN :
            \E training \in Trainings(db, fraction, calibrate) :
              trainer' = [step |-> 1, training |-> training]
      BY <2>1 DEF Train
    <3>2. PICK training \in Trainings(db, fraction, calibrate) :
            trainer' = [step |-> 1, training |-> training]
      BY <3>1
    <3>3. training \in Training /\ training.build = "this"
      BY FitsAreTrainings
    <3>4. QED
      BY <2>1, <3>2, <3>3 DEF Train, LifeTypeOK
  <2>2. CASE Discard \/ CrashTrain
    BY <2>2 DEF Discard, CrashTrain, Idle, LifeTypeOK
  <2>3. QED
    BY <2>1, <2>2
<1>2. LifeTypeOK'
  BY <1>1 DEF LifeTypeOK
<1>3. SaveLeaves' /\ OldPairs' /\ ReadsFiles'
  BY <1>1 DEF SaveLeaves, OldPairs, ReadsFiles, LifeTypeOK
<1>4. IntactFiles'
  BY <1>1 DEF IntactFiles, LifeTypeOK
<1>5. IntactLoadIsLatest' /\ ServedFeaturesMatch'
  BY <1>1 DEF IntactLoadIsLatest, ServedFeaturesMatch
<1>6. QED
  BY <1>2, <1>3, <1>4, <1>5

(***************************************************************************)
(* One step of a save: the file it writes, cut off or complete.            *)
(***************************************************************************)
LEMMA SaveStep ==
  ASSUME LifeTypeOK, Save
  PROVE  /\ trainer.step \in 1..6
         /\ trainer.step = 1 => files' = [files EXCEPT !["model"] = Torn]
         /\ trainer.step = 2 => files' = [files EXCEPT !["model"] = trainer.training]
         /\ trainer.step = 3 => files' = [files EXCEPT !["calibrator"] = Torn]
         /\ trainer.step = 4 => files' = [files EXCEPT !["calibrator"] = trainer.training]
         /\ trainer.step = 5 => files' = [files EXCEPT !["metadata"] = Torn]
         /\ trainer.step = 6 => files' = [files EXCEPT !["metadata"] = trainer.training]
<1>1. trainer.step \in 1..6
  BY DEF LifeTypeOK, Save
<1> DEFINE name == SaveOrder[(trainer.step + 1) \div 2]
           value == IF trainer.step % 2 = 0 THEN trainer.training ELSE Torn
<1>2. files' = [files EXCEPT ![name] = value]
  BY DEF Save, Written
<1>3. CASE trainer.step = 1
  <2>1. name = "model" /\ value = Torn
    BY <1>3 DEF SaveOrder
  <2>2. QED
    BY <1>2, <1>3, <2>1
<1>4. CASE trainer.step = 2
  <2>1. name = "model" /\ value = trainer.training
    BY <1>4 DEF SaveOrder
  <2>2. QED
    BY <1>2, <1>4, <2>1
<1>5. CASE trainer.step = 3
  <2>1. name = "calibrator" /\ value = Torn
    BY <1>5 DEF SaveOrder
  <2>2. QED
    BY <1>2, <1>5, <2>1
<1>6. CASE trainer.step = 4
  <2>1. name = "calibrator" /\ value = trainer.training
    BY <1>6 DEF SaveOrder
  <2>2. QED
    BY <1>2, <1>6, <2>1
<1>7. CASE trainer.step = 5
  <2>1. name = "metadata" /\ value = Torn
    BY <1>7 DEF SaveOrder
  <2>2. QED
    BY <1>2, <1>7, <2>1
<1>8. CASE trainer.step = 6
  <2>1. name = "metadata" /\ value = trainer.training
    BY <1>8 DEF SaveOrder
  <2>2. QED
    BY <1>2, <1>8, <2>1
<1>9. QED
  BY <1>1, <1>3, <1>4, <1>5, <1>6, <1>7, <1>8

(***************************************************************************)
(* A step of a save keeps the invariant: a booster is replaced before its  *)
(* metadata, and whoever reads is not alone any more.                      *)
(***************************************************************************)
LEMMA SaveKeeps ==
  ASSUME LifeInv, Save
  PROVE  LifeInv'
<1> USE DEF LifeInv
<1>1. /\ UNCHANGED <<db, engine, fits>>
      /\ intact' = (trainer.step = 6)
      /\ trainer.step < 6 => trainer' = [trainer EXCEPT !.step = @ + 1] /\ latest' = latest
      /\ trainer.step = 6 => trainer' = Idle /\ latest' = trainer.training
      /\ reader' = IF reader = NoReader THEN reader ELSE [reader EXCEPT !.alone = FALSE]
      /\ trainer.step > 0
  BY DEF Save
<1>2. /\ files \in [FileNames -> File] /\ trainer \in [step : 0..6, training : Training \union {None}]
      /\ trainer.training \in Training /\ trainer.training.build = "this"
  BY <1>1 DEF LifeTypeOK
<1>3. files' \in [FileNames -> File]
  BY <1>2, SaveStep DEF FileNames, File
<1>4. /\ trainer' \in [step : 0..6, training : Training \union {None}]
      /\ trainer.step < 6 => trainer'.step = trainer.step + 1 /\ trainer'.training = trainer.training
      /\ trainer.step = 6 => trainer'.step = 0
  BY <1>1, <1>2 DEF Idle
<1>5. reader' # NoReader =>
        /\ reader' \in Reader /\ ~reader'.alone
        /\ reader # NoReader /\ reader'.read = reader.read
  <2>1. CASE reader = NoReader
    BY <1>1, <2>1
  <2>2. CASE reader # NoReader
    <3>1. reader \in Reader /\ reader' = [reader EXCEPT !.alone = FALSE]
      BY <1>1, <2>2 DEF LifeTypeOK
    <3>2. QED
      BY <2>2, <3>1 DEF Reader
  <2>3. QED
    BY <2>1, <2>2
<1>6. LifeTypeOK'
  BY <1>1, <1>2, <1>3, <1>4, <1>5 DEF LifeTypeOK
<1>7. SaveLeaves'
  BY <1>2, <1>4, SaveStep DEF SaveLeaves, FileNames
<1>8. OldPairs'
  <2>1. CASE trainer.step = 1
    BY <1>2, <2>1, SaveStep DEF Old, OldPairs, FileNames
  <2>2. CASE trainer.step = 2
    BY <1>2, <2>2, SaveStep DEF Old, OldPairs, FileNames
  <2>3. CASE trainer.step \in {3, 4, 5, 6}
    <3>1. files'["model"] = trainer.training
      BY <1>2, <2>3, SaveStep DEF SaveLeaves, FileNames
    <3>2. QED
      BY <1>2, <3>1 DEF Old, OldPairs
  <2>4. QED
    BY <2>1, <2>2, <2>3, SaveStep
<1>9. IntactFiles'
  <2>1. CASE trainer.step < 6
    <3>1. trainer.step # 6
      BY <1>2, <2>1
    <3>2. ~intact'
      BY <1>1, <3>1
    <3>3. QED
      BY <3>2 DEF IntactFiles
  <2>2. CASE trainer.step = 6
    <3>1. files'["metadata"] = trainer.training
      BY <1>2, <2>2, SaveStep DEF FileNames
    <3>2. files'["model"] = files["model"] /\ files'["calibrator"] = files["calibrator"]
      BY <1>2, <2>2, SaveStep DEF FileNames
    <3>3. files["model"] = trainer.training /\ files["calibrator"] = trainer.training
      BY <2>2 DEF SaveLeaves
    <3>4. latest' = trainer.training /\ trainer'.step <= 1
      BY <1>1, <1>4, <2>2
    <3>5. QED
      BY <3>1, <3>2, <3>3, <3>4 DEF IntactFiles
  <2>3. QED
    BY <1>2, <2>1, <2>2
<1>10. ReadsFiles'
  BY <1>5 DEF ReadsFiles
<1>11. IntactLoadIsLatest' /\ ServedFeaturesMatch'
  BY <1>1 DEF IntactLoadIsLatest, ServedFeaturesMatch
<1>12. QED
  BY <1>6, <1>7, <1>8, <1>9, <1>10, <1>11

-----------------------------------------------------------------------------
(***************************************************************************)
(* `dataset` only adds matches.                                            *)
(***************************************************************************)
LEMMA DatasetKeeps ==
  ASSUME LifeInv, Dataset
  PROVE  LifeInv'
<1> USE DEF LifeInv
<1>1. UNCHANGED <<files, trainer, reader, engine, verdict, intact, latest, fits, crashes>>
  BY DEF Dataset
<1>2. db' \in SUBSET Nat
  BY LifecycleAssumption DEF Dataset, LifeTypeOK
<1>3. LifeTypeOK'
  BY <1>1, <1>2 DEF LifeTypeOK
<1>4. SaveLeaves' /\ OldPairs' /\ IntactFiles'
  BY <1>1 DEF SaveLeaves, OldPairs, IntactFiles
<1>5. ReadsFiles' /\ IntactLoadIsLatest' /\ ServedFeaturesMatch'
  BY <1>1 DEF ReadsFiles, IntactLoadIsLatest, ServedFeaturesMatch
<1>6. QED
  BY <1>3, <1>4, <1>5

(***************************************************************************)
(* A process begins to load: it has read nothing, and is alone so far.     *)
(***************************************************************************)
LEMMA OpenKeeps ==
  ASSUME LifeInv, StartServe \/ StartPredict \/ StartValidate
  PROVE  LifeInv'
<1> USE DEF LifeInv
<1>1. PICK kind \in {"serve", "predict", "validate"}, cap \in Caps \union {None},
           fraction \in Fractions \union {None} : Open(kind, cap, fraction)
  BY DEF StartServe, StartPredict, StartValidate
<1>2. /\ UNCHANGED <<db, files, trainer, intact, latest, fits, crashes>>
      /\ engine' = None
      /\ reader' = [kind |-> kind, cap |-> cap, fraction |-> fraction, data |-> db,
                    read |-> <<>>, alone |-> TRUE, calm |-> intact, against |-> latest]
  BY <1>1 DEF Open
<1>3. reader' \in Reader
  BY <1>2 DEF Reader, LifeTypeOK
<1>4. LifeTypeOK'
  BY <1>2, <1>3 DEF LifeTypeOK
<1>5. SaveLeaves' /\ OldPairs' /\ IntactFiles'
  BY <1>2 DEF SaveLeaves, OldPairs, IntactFiles
<1>6. ReadsFiles'
  BY <1>2 DEF ReadsFiles
<1>7. IntactLoadIsLatest' /\ ServedFeaturesMatch'
  BY <1>2 DEF IntactLoadIsLatest, ServedFeaturesMatch
<1>8. QED
  BY <1>4, <1>5, <1>6, <1>7

(***************************************************************************)
(* The next file is read, or cannot be.                                    *)
(***************************************************************************)
LEMMA ReadKeeps ==
  ASSUME LifeInv, Read
  PROVE  LifeInv'
<1> USE DEF LifeInv
<1> DEFINE n == Len(reader.read)
<1>1. /\ UNCHANGED <<db, files, trainer, engine, intact, latest, fits>>
      /\ reader # NoReader /\ n < 3 /\ Next1 # Torn
      /\ reader.read = <<>> => Next1 # Absent
      /\ reader' = [reader EXCEPT !.read = Append(@, Next1)]
  BY DEF Read
<1>2. reader \in Reader /\ reader.read \in Seq(File) /\ n \in Nat
  BY <1>1 DEF LifeTypeOK, Reader
<1>3. Next1 = files[LoadOrder[n + 1]] /\ Next1 \in File
  <2>1. n + 1 \in 1..3
    BY <1>1, <1>2
  <2>2. LoadOrder[n + 1] \in FileNames
    BY <2>1 DEF LoadOrder, FileNames
  <2>3. QED
    BY <2>2 DEF Next1, LifeTypeOK
<1>4. /\ reader' \in Reader
      /\ reader'.read = Append(reader.read, Next1)
      /\ reader'.alone = reader.alone /\ reader'.calm = reader.calm
      /\ reader'.against = reader.against
  <2>1. Append(reader.read, Next1) \in Seq(File)
    BY <1>2, <1>3
  <2>2. QED
    BY <1>1, <1>2, <2>1 DEF Reader
<1>5. LifeTypeOK'
  BY <1>1, <1>4 DEF LifeTypeOK
<1>6. SaveLeaves' /\ OldPairs' /\ IntactFiles'
  BY <1>1 DEF SaveLeaves, OldPairs, IntactFiles
<1>7. ReadsFiles'
  <2>1. Len(reader'.read) = n + 1 /\ reader'.read[n + 1] = Next1
    BY <1>2, <1>3, <1>4
  <2>2. \A i \in 1..n : reader'.read[i] = reader.read[i]
    BY <1>2, <1>3, <1>4
  <2>3. Len(reader'.read) <= 3
    BY <1>1, <1>2, <2>1
  <2>4. reader'.read[1] \notin {Absent, Torn}
    <3>1. CASE n = 0
      <4>1. reader.read = <<>>
        BY <1>2, <3>1
      <4>2. QED
        BY <1>1, <2>1, <3>1, <4>1
    <3>2. CASE n >= 1
      BY <1>1, <1>2, <2>2, <3>2 DEF ReadsFiles
    <3>3. QED
      BY <1>2, <3>1, <3>2
  <2>5. ASSUME reader'.alone, NEW i \in 1..(n + 1)
        PROVE  reader'.read[i] = files'[LoadOrder[i]]
    <3>1. CASE i = n + 1
      BY <1>1, <1>3, <2>1, <3>1
    <3>2. CASE i \in 1..n
      BY <1>1, <1>4, <2>2, <2>5, <3>2 DEF ReadsFiles
    <3>3. QED
      BY <1>2, <3>1, <3>2
  <2>6. reader'.alone => reader'.calm = intact' /\ reader'.against = latest'
    BY <1>1, <1>4 DEF ReadsFiles
  <2>7. QED
    BY <2>1, <2>3, <2>4, <2>5, <2>6 DEF ReadsFiles
<1>8. IntactLoadIsLatest' /\ ServedFeaturesMatch'
  BY <1>1 DEF IntactLoadIsLatest, ServedFeaturesMatch
<1>9. QED
  BY <1>5, <1>6, <1>7, <1>8

(***************************************************************************)
(* A process that ends without an engine, and `validate`, leave the files  *)
(* and the engine alone.                                                   *)
(***************************************************************************)
LEMMA EndingKeeps ==
  ASSUME LifeInv, ReadFails \/ Validate
  PROVE  LifeInv'
<1> USE DEF LifeInv
<1>1. UNCHANGED <<db, files, trainer, engine, intact, latest, fits>> /\ reader' = NoReader
  BY DEF ReadFails, Validate
<1>2. LifeTypeOK'
  BY <1>1 DEF LifeTypeOK
<1>3. SaveLeaves' /\ OldPairs' /\ IntactFiles'
  BY <1>1 DEF SaveLeaves, OldPairs, IntactFiles
<1>4. ReadsFiles' /\ IntactLoadIsLatest' /\ ServedFeaturesMatch'
  BY <1>1 DEF ReadsFiles, IntactLoadIsLatest, ServedFeaturesMatch
<1>5. QED
  BY <1>2, <1>3, <1>4

(***************************************************************************)
(* An engine is built: what a reader that was alone holds is what the      *)
(* files held, so the metadata it checks speaks for its booster.           *)
(***************************************************************************)
LEMMA ConstructKeeps ==
  ASSUME LifeInv, Construct
  PROVE  LifeInv'
<1> USE DEF LifeInv
<1> DEFINE booster == reader.read[1]
           metadata == reader.read[2]
           mapping == reader.read[3]
           refused == metadata # Absent /\ metadata.build # "this"
<1>1. /\ UNCHANGED <<db, files, trainer, verdict, intact, latest, fits>>
      /\ reader # NoReader /\ Len(reader.read) = 3 /\ reader' = NoReader
      /\ engine' = IF refused THEN engine
                   ELSE [booster |-> booster, metadata |-> metadata,
                         fitted |-> Fitted(mapping),
                         trees |-> Trees(booster, metadata, reader.cap), cap |-> reader.cap,
                         alone |-> reader.alone, calm |-> reader.calm /\ reader.alone,
                         against |-> reader.against]
  BY DEF Construct
<1>2. /\ reader \in Reader /\ booster \notin {Absent, Torn}
      /\ booster \in File /\ reader.cap \in Caps \union {None}
  BY <1>1 DEF LifeTypeOK, ReadsFiles, Reader
<1>3. reader.alone =>
        /\ booster = files["model"] /\ metadata = files["metadata"]
        /\ mapping = files["calibrator"]
        /\ reader.calm = intact /\ reader.against = latest
  <2>1. LoadOrder[1] = "model" /\ LoadOrder[2] = "metadata" /\ LoadOrder[3] = "calibrator"
    BY DEF LoadOrder
  <2>2. 1 \in 1..3 /\ 2 \in 1..3 /\ 3 \in 1..3
    OBVIOUS
  <2>3. QED
    BY <1>1, <2>1, <2>2 DEF ReadsFiles
<1>4. LifeTypeOK'
  BY <1>1 DEF LifeTypeOK
<1>5. SaveLeaves' /\ OldPairs' /\ IntactFiles' /\ ReadsFiles'
  BY <1>1 DEF SaveLeaves, OldPairs, IntactFiles, ReadsFiles
<1>6. CASE refused
  BY <1>1, <1>4, <1>5, <1>6 DEF IntactLoadIsLatest, ServedFeaturesMatch
<1>7. CASE ~refused
  <2>1. /\ engine'.booster = booster /\ engine'.metadata = metadata
        /\ engine'.fitted = Fitted(mapping)
        /\ engine'.trees = Trees(booster, metadata, reader.cap)
        /\ engine'.cap = reader.cap /\ engine'.alone = reader.alone
        /\ engine'.calm = (reader.calm /\ reader.alone)
        /\ engine'.against = reader.against
    BY <1>1, <1>7
  <2>2. ServedFeaturesMatch'
    <3>1. SUFFICES ASSUME reader.alone, booster.build # "this"
                   PROVE  FALSE
      BY <2>1 DEF ServedFeaturesMatch
    <3>2. Old(files["metadata"])
      BY <1>2, <1>3, <3>1 DEF Old, OldPairs
    <3>3. QED
      BY <1>3, <1>7, <3>1, <3>2 DEF Old
  <2>3. IntactLoadIsLatest'
    <3>1. SUFFICES ASSUME reader.calm, reader.alone
                   PROVE  /\ booster = reader.against /\ metadata = reader.against
                          /\ Fitted(mapping) = reader.against.fitted
                          /\ \/ engine'.trees = reader.against.best + 1
                             \/ /\ engine'.trees = reader.cap
                                /\ reader.cap <= reader.against.best + 1
      BY <2>1 DEF IntactLoadIsLatest
    <3>2. /\ booster = latest /\ metadata = latest /\ reader.against = latest
          /\ mapping = latest \/ (mapping = Absent /\ latest.fitted = {})
      BY <1>2, <1>3, <3>1 DEF IntactFiles
    <3>3. latest # Absent /\ latest \in Training
      BY <1>2, <3>2 DEF File
    <3>4. Fitted(mapping) = latest.fitted
      BY <3>2, <3>3 DEF Fitted
    <3>5. latest.best \in Nat
      BY <3>3 DEF Training
    <3>6. \/ engine'.trees = latest.best + 1
          \/ engine'.trees = reader.cap /\ reader.cap <= latest.best + 1
      <4>1. engine'.trees = IF reader.cap # None /\ reader.cap < 1 + latest.best
                              THEN reader.cap ELSE 1 + latest.best
        BY <2>1, <3>2, <3>3 DEF Trees
      <4>2. CASE reader.cap # None /\ reader.cap < 1 + latest.best
        <5>1. reader.cap \in Nat
          BY <1>2, <4>2, LifecycleAssumption
        <5>2. QED
          BY <3>5, <4>1, <4>2, <5>1
      <4>3. CASE ~(reader.cap # None /\ reader.cap < 1 + latest.best)
        BY <3>5, <4>1, <4>3
      <4>4. QED
        BY <4>2, <4>3
    <3>7. QED
      BY <3>2, <3>4, <3>6
  <2>4. QED
    BY <1>4, <1>5, <2>2, <2>3
<1>8. QED
  BY <1>6, <1>7

-----------------------------------------------------------------------------
(***************************************************************************)
(* The invariant holds in every reachable state.                           *)
(***************************************************************************)
THEOREM LifeInvariant == Spec => []LifeInv
<1>1. LifeInv /\ [Next]_lifeVars => LifeInv'
  <2>1. SUFFICES ASSUME LifeInv, [Next]_lifeVars PROVE LifeInv'
    OBVIOUS
  <2>2. CASE Dataset
    BY <2>1, <2>2, DatasetKeeps
  <2>3. CASE Train \/ Discard \/ CrashTrain
    BY <2>1, <2>3, TrainerKeeps
  <2>4. CASE Save
    BY <2>1, <2>4, SaveKeeps
  <2>5. CASE StartServe \/ StartPredict \/ StartValidate
    BY <2>1, <2>5, OpenKeeps
  <2>6. CASE Read
    BY <2>1, <2>6, ReadKeeps
  <2>7. CASE ReadFails \/ Validate
    BY <2>1, <2>7, EndingKeeps
  <2>8. CASE Construct
    BY <2>1, <2>8, ConstructKeeps
  <2>9. CASE UNCHANGED lifeVars
    BY <2>1, <2>9 DEF lifeVars, LifeInv, LifeTypeOK, SaveLeaves, OldPairs, IntactFiles,
                      ReadsFiles, IntactLoadIsLatest, ServedFeaturesMatch, Next1
  <2>10. QED
    BY <2>1, <2>2, <2>3, <2>4, <2>5, <2>6, <2>7, <2>8, <2>9 DEF Next
<1>2. QED
  BY LifeInit, <1>1, PTL DEF Spec

(***************************************************************************)
(* "If the checkpoint was trained on a different feature set" the engine   *)
(* raises (engine.py): the booster of every engine that was loaded without *)
(* a save going on was trained on this build's features, wherever earlier  *)
(* saves were cut off.                                                     *)
(***************************************************************************)
THEOREM ServedFeaturesAlwaysMatch == Spec => []ServedFeaturesMatch
BY LifeInvariant, PTL DEF LifeInv

(***************************************************************************)
(* An engine loaded from files of saves that ended is the last training as *)
(* a whole, with its own metadata, calibrator and number of trees.         *)
(***************************************************************************)
THEOREM IntactLoadsAreLatest == Spec => []IntactLoadIsLatest
BY LifeInvariant, PTL DEF LifeInv

-----------------------------------------------------------------------------
(***************************************************************************)
(* A non-empty finite set of naturals has a greatest element: the one with *)
(* the fewest elements from it on.                                         *)
(***************************************************************************)
LEMMA GreatestOfFinite ==
  ASSUME NEW S, S \subseteq Nat, S # {}, IsFiniteSet(S)
  PROVE  \E m \in S : \A x \in S : x <= m
<1> DEFINE From(m) == {x \in S : x >= m}
           T == {Cardinality(From(m)) : m \in S}
<1>1. \A m \in S : From(m) \in SUBSET S /\ IsFiniteSet(From(m)) /\ Cardinality(From(m)) \in Nat
  BY FS_Subset, FS_CardinalityType
<1>2. T \subseteq Nat /\ T # {}
  BY <1>1
<1>3. PICK d \in T : \A e \in T : ~ (<<e, d>> \in OpToRel(<, Nat))
  BY <1>2, WFMin, NatLessThanWellFounded
<1>4. PICK m \in S : d = Cardinality(From(m))
  OBVIOUS
<1>5. ASSUME NEW x \in S, x > m PROVE FALSE
  <2>0. x \in Nat /\ m \in Nat
    OBVIOUS
  <2>1. From(x) \in SUBSET From(m) /\ m \in From(m) /\ m \notin From(x)
    <3>1. \A y \in S : y >= x => y >= m
      BY <1>5, <2>0
    <3>2. m >= m /\ ~(m >= x)
      BY <1>5, <2>0
    <3>3. QED
      BY <3>1, <3>2
  <2>2. Cardinality(From(x)) <= Cardinality(From(m)) /\ Cardinality(From(x)) # Cardinality(From(m))
    BY <1>1, <2>1, FS_Subset
  <2>3. Cardinality(From(x)) \in T /\ Cardinality(From(x)) < d
    <3>1. Cardinality(From(x)) \in Nat /\ Cardinality(From(m)) \in Nat
      BY <1>1
    <3>2. Cardinality(From(x)) \in T
      OBVIOUS
    <3>3. Cardinality(From(x)) < Cardinality(From(m))
      BY <2>2, <3>1
    <3>4. QED
      BY <1>4, <3>2, <3>3
  <2>4. QED
    BY <1>2, <1>3, <2>3 DEF OpToRel
<1>6. QED
  BY <1>5

(***************************************************************************)
(* round() to the nearest, stated as the two bounds that are used: it is   *)
(* at most m as soon as the quotient is below m and a half, and the        *)
(* quotient is at most a half above it.                                    *)
(***************************************************************************)
LEMMA RoundsNearest ==
  ASSUME NEW num \in Nat, NEW den \in Nat \ {0}
  PROVE  /\ RoundHalfEven(num, den) \in Nat
         /\ 2 * num <= 2 * (RoundHalfEven(num, den) * den) + den
         /\ \A m \in Nat : 2 * num < 2 * (m * den) + den => RoundHalfEven(num, den) <= m
<1> DEFINE q == num \div den
           r == num % den
           R == RoundHalfEven(num, den)
<1>1. q \in Nat /\ r \in 0..(den - 1) /\ num = q * den + r
  OBVIOUS
<1>2. \/ R = q /\ 2 * r <= den
      \/ R = q + 1 /\ 2 * r >= den
  BY <1>1 DEF RoundHalfEven
<1>3. (q + 1) * den = q * den + den
  BY <1>1
<1>4. R \in Nat /\ 2 * num <= 2 * (R * den) + den
  BY <1>1, <1>2, <1>3
<1>5. ASSUME NEW m \in Nat, 2 * num < 2 * (m * den) + den, R > m
      PROVE  FALSE
  <2>1. CASE q = m
    BY <1>1, <1>2, <1>5, <2>1
  <2>2. CASE q > m
    <3>1. q * den >= (m + 1) * den /\ (m + 1) * den = m * den + den
      BY <1>1, <2>2
    <3>2. QED
      BY <1>1, <1>5, <3>1
  <2>3. CASE q < m
    BY <1>1, <1>2, <1>5, <2>3
  <2>4. QED
    BY <1>1, <2>1, <2>2, <2>3
<1>6. QED
  BY <1>2, <1>4, <1>5

\* A share of the matches that may be held out.
Proper(fraction) ==
  /\ fraction \in (Nat \ {0}) \X (Nat \ {0})
  /\ fraction[1] < fraction[2]

(***************************************************************************)
(* k more matches add at most k to what is held out.                       *)
(***************************************************************************)
LEMMA HoldoutGrowsSlowly ==
  ASSUME NEW n \in Nat, NEW k \in Nat, NEW fraction, Proper(fraction)
  PROVE  /\ HoldoutSize(n, fraction) \in Nat \ {0}
         /\ HoldoutSize(n + k, fraction) <= HoldoutSize(n, fraction) + k
<1> DEFINE a == fraction[1]
           b == fraction[2]
           old == RoundHalfEven(n * a, b)
           new == RoundHalfEven((n + k) * a, b)
<1>1. a \in Nat \ {0} /\ b \in Nat \ {0} /\ a < b
  BY DEF Proper
<1>2. n * a \in Nat /\ k * a \in Nat /\ (n + k) * a = n * a + k * a
  BY <1>1
<1>3. (n + k) * a \in Nat /\ old \in Nat /\ new \in Nat
  <2>1. (n + k) * a \in Nat
    BY <1>2
  <2>2. QED
    BY <1>1, <1>2, <2>1, RoundsNearest
<1>4. new <= old + k
  <2>1. CASE k = 0
    <3>1. n + k = n
      BY <2>1
    <3>2. QED
      BY <1>3, <2>1, <3>1
  <2>2. CASE k # 0
    <3>1. k * b \in Nat /\ k * a < k * b
      BY <1>1, <2>2
    <3>2. old * b \in Nat /\ (old + k) * b = old * b + k * b
      BY <1>1, <1>3
    <3>3. 2 * (n * a) <= 2 * (old * b) + b
      BY <1>1, <1>2, RoundsNearest
    <3>4. 2 * ((n + k) * a) < 2 * ((old + k) * b) + b
      BY <1>1, <1>2, <3>1, <3>2, <3>3
    <3>5. (n + k) * a \in Nat /\ b \in Nat \ {0} /\ old + k \in Nat
      BY <1>1, <1>3
    <3>6. QED
      BY <3>4, <3>5, RoundsNearest
  <2>3. QED
    BY <2>1, <2>2
<1>5. QED
  BY <1>3, <1>4 DEF HoldoutSize

(***************************************************************************)
(* split_by_match(): whatever the fraction, something is held out, and the *)
(* last match always is.                                                   *)
(***************************************************************************)
LEMMA LastIsHeldOut ==
  ASSUME NEW data, data \in SUBSET Nat, IsFiniteSet(data), NEW fraction, Proper(fraction),
         NEW m \in data, \A x \in data : x <= m
  PROVE  m \in HeldOut(data, fraction)
<1>1. {x \in data : x >= m} = {m}
  <2>1. \A x \in data : x \in Nat /\ x <= m /\ (x >= m <=> x = m)
    OBVIOUS
  <2>2. QED
    BY <2>1
<1>2. Cardinality({x \in data : x >= m}) = 1
  BY <1>1, FS_Singleton
<1>3. HoldoutSize(Cardinality(data), fraction) \in Nat \ {0}
  BY FS_CardinalityType, HoldoutGrowsSlowly
<1>4. QED
  BY <1>2, <1>3 DEF HeldOut, LastOf

(***************************************************************************)
(* Data that only grew by later matches holds out no match that the split  *)
(* of the smaller data had for training.                                   *)
(***************************************************************************)
LEMMA GrowthHoldsOutNew ==
  ASSUME NEW old, NEW data, data \in SUBSET Nat, IsFiniteSet(data),
         OnlyGrew(data, old), NEW fraction, Proper(fraction)
  PROVE  HeldOut(data, fraction) \intersect (old \ HeldOut(old, fraction)) = {}
<1> DEFINE new == data \ old
<1>1. old \in SUBSET data /\ IsFiniteSet(old) /\ IsFiniteSet(new)
  <2>1. old \in SUBSET data /\ new \in SUBSET data
    BY DEF OnlyGrew
  <2>2. QED
    BY <2>1, FS_Subset
<1>2. Cardinality(old) \in Nat /\ Cardinality(new) \in Nat
  BY <1>1, FS_CardinalityType
<1>3. ASSUME NEW part, part \in SUBSET old
      PROVE  Cardinality(part \union new) = Cardinality(part) + Cardinality(new)
  <2>1. IsFiniteSet(part) /\ part \intersect new = {}
    BY <1>1, <1>3, FS_Subset
  <2>2. Cardinality(part \union new) = Cardinality(part) + Cardinality(new) - Cardinality({})
    BY <1>1, <2>1, FS_Union
  <2>3. Cardinality(part) \in Nat /\ Cardinality({}) = 0
    BY <2>1, FS_CardinalityType, FS_EmptySet
  <2>4. QED
    BY <1>2, <2>2, <2>3
<1>4. Cardinality(data) = Cardinality(old) + Cardinality(new)
  <2>1. data = old \union new
    BY <1>1
  <2>2. QED
    BY <1>3, <2>1
<1>5. ASSUME NEW m \in HeldOut(data, fraction), m \in old
      PROVE  m \in HeldOut(old, fraction)
  <2> DEFINE part == {x \in old : x >= m}
  <2>1. {x \in data : x >= m} = part \union new
    <3>1. m \in Nat /\ \A x \in new : x \in Nat /\ x > m /\ x >= m
      BY <1>1, <1>5 DEF OnlyGrew
    <3>2. QED
      BY <1>1, <3>1
  <2>2. Cardinality(part) + Cardinality(new) <= HoldoutSize(Cardinality(data), fraction)
    <3>1. Cardinality({x \in data : x >= m}) <= HoldoutSize(Cardinality(data), fraction)
      BY <1>5 DEF HeldOut, LastOf
    <3>2. part \in SUBSET old
      OBVIOUS
    <3>3. QED
      BY <1>3, <2>1, <3>1, <3>2
  <2>3. HoldoutSize(Cardinality(data), fraction)
          <= HoldoutSize(Cardinality(old), fraction) + Cardinality(new)
    BY <1>2, <1>4, HoldoutGrowsSlowly
  <2>4. /\ HoldoutSize(Cardinality(data), fraction) \in Nat
        /\ HoldoutSize(Cardinality(old), fraction) \in Nat
    <3>1. Cardinality(data) \in Nat
      BY FS_CardinalityType
    <3>2. QED
      BY <1>2, <3>1, HoldoutGrowsSlowly
  <2>5. Cardinality(part) \in Nat
    BY <1>1, FS_Subset, FS_CardinalityType
  <2>6. Cardinality(part) <= HoldoutSize(Cardinality(old), fraction)
    BY <1>2, <2>2, <2>3, <2>4, <2>5
  <2>7. QED
    BY <1>5, <2>6 DEF HeldOut, LastOf
<1>6. QED
  BY <1>5

(***************************************************************************)
(* What a training keeps of its split: trees and breakpoints were fitted   *)
(* on other matches than those that are scored, there are some of each,    *)
(* and early stopping watched the whole test side.                         *)
(***************************************************************************)
Sound(training) ==
  /\ training.data \in SUBSET Nat /\ IsFiniteSet(training.data)
  /\ Proper(training.fraction)
  /\ training.watched = HeldOut(training.data, training.fraction)
  /\ training.learned = training.data \ training.watched
  /\ training.scored \subseteq training.watched
  /\ training.learned # {} /\ training.scored # {}
  /\ training.scored \intersect (training.learned \union training.fitted) = {}

(***************************************************************************)
(* calibration_split(): the half that is scored is never empty, and is     *)
(* disjoint from the half the calibrator is fitted on.                     *)
(***************************************************************************)
LEMMA ScoredHalf ==
  ASSUME NEW test, test \in SUBSET Nat, IsFiniteSet(test), test # {}, NEW calibrate \in BOOLEAN
  PROVE  LET split == CalibrationSplit(test, calibrate)
         IN /\ split.score # {} /\ split.score \subseteq test
            /\ split.score \intersect split.fit = {}
<1> DEFINE fit == FirstOf(test, Cardinality(test) \div 2)
           n == Cardinality(test)
<1>1. PICK m \in test : \A x \in test : x <= m
  BY GreatestOfFinite
<1>2. m \notin fit
  <2>1. {x \in test : x <= m} = test
    BY <1>1
  <2>2. n \in Nat /\ n # 0
    BY FS_CardinalityType, FS_EmptySet
  <2>3. ~ (n <= n \div 2)
    BY <2>2
  <2>4. QED
    BY <2>1, <2>3 DEF FirstOf
<1>3. CASE calibrate /\ n >= MinCalibration
  BY <1>1, <1>2, <1>3 DEF CalibrationSplit
<1>4. CASE ~(calibrate /\ n >= MinCalibration)
  BY <1>1, <1>4 DEF CalibrationSplit
<1>5. QED
  BY <1>3, <1>4

(***************************************************************************)
(* train_model() returns a sound training whenever it does not raise.      *)
(***************************************************************************)
LEMMA FitsAreSound ==
  ASSUME db \in SUBSET Nat, IsFiniteSet(db), Cardinality(db) >= 2,
         NEW fraction \in Fractions, NEW calibrate \in BOOLEAN,
         HeldOut(db, fraction) # db, NEW training \in Trainings(db, fraction, calibrate)
  PROVE  Sound(training)
<1> DEFINE test == HeldOut(db, fraction)
           split == CalibrationSplit(test, calibrate)
<1>1. Proper(fraction)
  BY LifecycleAssumption DEF Proper
<1>2. db # {}
  BY FS_EmptySet
<1>3. test \in SUBSET db /\ test \in SUBSET Nat /\ IsFiniteSet(test)
  <2>1. test \in SUBSET db
    BY DEF HeldOut, LastOf
  <2>2. QED
    BY <2>1, FS_Subset
<1>4. test # {}
  <2>1. PICK m \in db : \A x \in db : x <= m
    BY <1>2, GreatestOfFinite
  <2>2. QED
    BY <1>1, <2>1, LastIsHeldOut
<1>5. split.score # {} /\ split.score \subseteq test /\ split.score \intersect split.fit = {}
  BY <1>3, <1>4, ScoredHalf
<1>6. PICK fitted \in {{}, split.fit}, best \in Best :
        training = [id |-> fits + 1, data |-> db, fraction |-> fraction,
                    learned |-> db \ test, watched |-> test, fitted |-> fitted,
                    scored |-> split.score, best |-> best, build |-> "this"]
  BY DEF Trainings
<1>7. db \ test # {}
  BY <1>3
<1>8. split.score \intersect ((db \ test) \union fitted) = {}
  BY <1>5
<1>9. QED
  BY <1>1, <1>5, <1>6, <1>7, <1>8 DEF Sound

(***************************************************************************)
(* So is the checkpoint of an earlier version.                             *)
(***************************************************************************)
LEMMA LegacyIsSound ==
  ASSUME NEW build
  PROVE  Sound(Legacy(build))
<1> DEFINE data == {1, 2}
           fraction == <<1, 4>>
<1>1. data \in SUBSET Nat /\ IsFiniteSet(data) /\ Cardinality(data) = 2
  <2>1. data = 1..2
    OBVIOUS
  <2>2. IsFiniteSet(1..2) /\ Cardinality(1..2) = 2
    <3>1. /\ IsFiniteSet(1..2)
          /\ Cardinality(1..2) = IF 1 > 2 THEN 0 ELSE 2 - 1 + 1
      <4>1. 1 \in Int /\ 2 \in Int
        OBVIOUS
      <4>2. QED
        BY <4>1, FS_Interval, Zenon
    <3>2. QED
      BY <3>1
  <2>3. QED
    BY <2>1, <2>2
<1>2. Proper(fraction)
  BY DEF Proper
<1>3. HoldoutSize(2, fraction) = 1
  BY DEF HoldoutSize, RoundHalfEven
<1>4. HeldOut(data, fraction) = {2}
  <2>1. {x \in data : x >= 1} = data /\ {x \in data : x >= 2} = {2}
    OBVIOUS
  <2>2. Cardinality({2}) = 1
    BY FS_Singleton
  <2>3. QED
    BY <1>1, <1>3, <2>1, <2>2 DEF HeldOut, LastOf
<1>5. data \ {2} = {1}
  OBVIOUS
<1>6. /\ Legacy(build).data = data /\ Legacy(build).fraction = fraction
      /\ Legacy(build).learned = {1} /\ Legacy(build).watched = {2}
      /\ Legacy(build).fitted = {} /\ Legacy(build).scored = {2}
  BY DEF Legacy
<1>7. QED
  BY <1>1, <1>2, <1>4, <1>5, <1>6 DEF Sound

-----------------------------------------------------------------------------
(***************************************************************************)
(* Every training in sight is sound: the one being saved, those in the     *)
(* files, the booster a process has read.  And what `validate` reports on  *)
(* is the held-out side of the matches it read.                            *)
(***************************************************************************)
SoundInv ==
  /\ IsFiniteSet(db)
  /\ trainer.step > 0 => Sound(trainer.training)
  /\ \A name \in FileNames : files[name] \notin {Absent, Torn} => Sound(files[name])
  /\ reader # NoReader =>
       /\ IsFiniteSet(reader.data)
       /\ reader.kind = "validate" => Proper(reader.fraction)
       /\ Len(reader.read) >= 1 => Sound(reader.read[1])
  /\ verdict # None =>
       /\ verdict.data \in SUBSET Nat /\ IsFiniteSet(verdict.data)
       /\ Proper(verdict.fraction)
       /\ verdict.scored = HeldOut(verdict.data, verdict.fraction)
       /\ Sound(verdict.booster)

\* Nothing is trained or reported at first.
LEMMA SoundInit == Init => SoundInv
<1> SUFFICES ASSUME Init PROVE SoundInv
  OBVIOUS
<1> USE DEF Init, Idle, NoReader
<1>1. IsFiniteSet(db)
  <2>1. {1, 2} = 1..2
    OBVIOUS
  <2>2. IsFiniteSet({}) /\ IsFiniteSet(1..2)
    <3>1. 1 \in Int /\ 2 \in Int
      OBVIOUS
    <3>2. QED
      BY <3>1, FS_EmptySet, FS_Interval, Zenon
  <2>3. QED
    BY <2>1, <2>2
<1>2. \A name \in FileNames : files[name] \notin {Absent, Torn} => Sound(files[name])
  BY LegacyIsSound DEF FileNames
<1>3. QED
  BY <1>1, <1>2 DEF SoundInv

(***************************************************************************)
(* Steps that change neither the files nor what is read of them.           *)
(***************************************************************************)
LEMMA SoundTrainer ==
  ASSUME LifeInv, SoundInv, Dataset \/ Train \/ Discard \/ CrashTrain
  PROVE  SoundInv'
<1>1. UNCHANGED <<files, reader, verdict>>
  BY DEF Dataset, Train, Discard, CrashTrain
<1>2. IsFiniteSet(db')
  <2>1. CASE Dataset
    <3>1. PICK first, last \in Matches :
            db' = db \union {m \in Matches : first <= m /\ m <= last}
      BY <2>1 DEF Dataset
    <3>2. IsFiniteSet({m \in Matches : first <= m /\ m <= last})
      BY LifecycleAssumption, FS_Subset
    <3>3. QED
      BY <3>1, <3>2, FS_Union DEF SoundInv
  <2>2. CASE Train \/ Discard \/ CrashTrain
    BY <2>2 DEF Train, Discard, CrashTrain, SoundInv
  <2>3. QED
    BY <2>1, <2>2
<1>3. trainer'.step > 0 => Sound(trainer'.training)
  <2>1. CASE Train
    <3>1. PICK fraction \in Fractions, calibrate \in BOOLEAN :
            /\ HeldOut(db, fraction) # db
            /\ \E training \in Trainings(db, fraction, calibrate) :
                 trainer' = [step |-> 1, training |-> training]
      BY <2>1 DEF Train
    <3>2. PICK training \in Trainings(db, fraction, calibrate) :
            trainer' = [step |-> 1, training |-> training]
      BY <3>1
    <3>3. Sound(training)
      BY <2>1, <3>1, FitsAreSound DEF Train, LifeInv, LifeTypeOK, SoundInv
    <3>4. QED
      BY <3>2, <3>3
  <2>2. CASE Discard \/ CrashTrain
    BY <2>2 DEF Discard, CrashTrain, Idle
  <2>3. CASE Dataset
    BY <2>3 DEF Dataset, SoundInv
  <2>4. QED
    BY <2>1, <2>2, <2>3
<1>4. QED
  BY <1>1, <1>2, <1>3 DEF SoundInv

(***************************************************************************)
(* A save puts nothing but its own training into a file.                   *)
(***************************************************************************)
LEMMA SoundSave ==
  ASSUME LifeInv, SoundInv, Save
  PROVE  SoundInv'
<1>1. /\ UNCHANGED <<db, verdict>>
      /\ trainer.step > 0 /\ trainer.step <= 6
      /\ trainer' = Idle \/ trainer' = [trainer EXCEPT !.step = @ + 1]
      /\ reader' = IF reader = NoReader THEN reader ELSE [reader EXCEPT !.alone = FALSE]
  BY DEF Save, LifeInv, LifeTypeOK
<1>2. trainer'.step > 0 => Sound(trainer'.training)
  <2>1. trainer \in [step : 0..6, training : Training \union {None}]
    BY DEF LifeInv, LifeTypeOK
  <2>2. QED
    BY <1>1, <2>1 DEF SoundInv, Idle
<1>3. ASSUME NEW name \in FileNames, files'[name] \notin {Absent, Torn}
      PROVE  Sound(files'[name])
  <2>1. files'[name] \in {files[name], Torn, trainer.training}
    BY SaveStep DEF LifeInv, LifeTypeOK, FileNames
  <2>2. QED
    BY <1>1, <1>3, <2>1 DEF SoundInv
<1>4. reader' # NoReader =>
        /\ reader # NoReader
        /\ reader'.data = reader.data /\ reader'.kind = reader.kind
        /\ reader'.fraction = reader.fraction /\ reader'.read = reader.read
  <2>1. reader # NoReader => reader \in Reader
    BY DEF LifeInv, LifeTypeOK
  <2>2. QED
    BY <1>1, <2>1 DEF Reader
<1>5. QED
  BY <1>1, <1>2, <1>3, <1>4 DEF SoundInv

(***************************************************************************)
(* A process opens the files, reads them, and ends or builds an engine.    *)
(***************************************************************************)
LEMMA SoundReader ==
  ASSUME LifeInv, SoundInv,
         StartServe \/ StartPredict \/ StartValidate \/ Read \/ ReadFails \/ Construct
  PROVE  SoundInv'
<1>1. UNCHANGED <<db, files, trainer>>
  BY DEF StartServe, StartPredict, StartValidate, Open, Read, ReadFails, Construct
<1>2. CASE StartServe \/ StartPredict \/ StartValidate
  <2>1. PICK kind, cap, fraction :
          /\ kind \in {"serve", "predict", "validate"}
          /\ Open(kind, cap, fraction)
          /\ kind = "validate" => fraction \in Fractions
    BY <1>2 DEF StartServe, StartPredict, StartValidate
  <2>2. /\ verdict' = None /\ reader'.data = db /\ reader'.kind = kind
        /\ reader'.fraction = fraction /\ reader'.read = <<>>
    BY <2>1 DEF Open
  <2>3. fraction \in Fractions => Proper(fraction)
    BY LifecycleAssumption DEF Proper
  <2>4. Len(reader'.read) = 0
    BY <2>2
  <2>5. QED
    BY <1>1, <2>1, <2>2, <2>3, <2>4 DEF SoundInv
<1>3. CASE Read
  <2> DEFINE n == Len(reader.read)
  <2>1. /\ reader # NoReader /\ n < 3 /\ Next1 # Torn
        /\ reader.read = <<>> => Next1 # Absent
        /\ reader' = [reader EXCEPT !.read = Append(@, Next1)]
        /\ verdict' = verdict
    BY <1>3 DEF Read
  <2>2. reader \in Reader /\ reader.read \in Seq(File) /\ n \in Nat
    BY <2>1 DEF LifeInv, LifeTypeOK, Reader
  <2>3. /\ reader'.data = reader.data /\ reader'.kind = reader.kind
        /\ reader'.fraction = reader.fraction /\ reader'.read = Append(reader.read, Next1)
    BY <2>1, <2>2 DEF Reader
  <2>4. Sound(reader'.read[1])
    <3>1. CASE n = 0
      <4>1. reader.read = <<>> /\ Next1 = files["model"]
        BY <2>2, <3>1 DEF Next1, LoadOrder
      <4>2. reader'.read[1] = files["model"] /\ files["model"] \notin {Absent, Torn}
        BY <2>1, <2>2, <2>3, <4>1
      <4>3. QED
        BY <4>2 DEF SoundInv, FileNames
    <3>2. CASE n >= 1
      <4>1. reader'.read[1] = reader.read[1]
        BY <2>2, <2>3, <3>2
      <4>2. QED
        BY <2>1, <3>2, <4>1 DEF SoundInv
    <3>3. QED
      BY <2>2, <3>1, <3>2
  <2>5. QED
    BY <1>1, <2>1, <2>3, <2>4 DEF SoundInv
<1>4. CASE ReadFails \/ Construct
  BY <1>1, <1>4 DEF ReadFails, Construct, SoundInv
<1>5. QED
  BY <1>2, <1>3, <1>4

(***************************************************************************)
(* What `validate` reports: the held-out side of what it read.             *)
(***************************************************************************)
LEMMA SoundValidate ==
  ASSUME LifeInv, SoundInv, Validate
  PROVE  SoundInv'
<1>1. /\ UNCHANGED <<db, files, trainer>> /\ reader' = NoReader
      /\ reader # NoReader /\ reader.kind = "validate" /\ Len(reader.read) = 3
      /\ verdict' = verdict
         \/ verdict' = [scored |-> HeldOut(reader.data, reader.fraction),
                        reference |-> reader.data \ HeldOut(reader.data, reader.fraction),
                        data |-> reader.data, fraction |-> reader.fraction,
                        booster |-> reader.read[1]]
  BY DEF Validate
<1>2. reader.data \in SUBSET Nat
  BY <1>1 DEF LifeInv, LifeTypeOK, Reader
<1>3. IsFiniteSet(reader.data) /\ Proper(reader.fraction) /\ Sound(reader.read[1])
  BY <1>1 DEF SoundInv
<1>4. QED
  BY <1>1, <1>2, <1>3 DEF SoundInv

(***************************************************************************)
(* Sound trainings are what ReportedUnfitted says of the files, and on     *)
(* data that only grew a report is on matches no tree was grown on.        *)
(***************************************************************************)
LEMMA SoundIsUnfitted == LifeInv /\ SoundInv => ReportedUnfitted
<1> SUFFICES ASSUME LifeInv, SoundInv PROVE ReportedUnfitted
  OBVIOUS
<1>1. ASSUME NEW training \in Recorded
      PROVE  /\ training.learned # {} /\ training.scored # {}
             /\ training.scored \intersect (training.learned \union training.fitted) = {}
             /\ training.scored \subseteq training.watched
             /\ training.watched \intersect training.learned = {}
  <2>1. PICK name \in FileNames : training = files[name] /\ training \notin {Absent, Torn}
    BY <1>1 DEF Recorded, LifeInv, LifeTypeOK
  <2>2. QED
    BY <2>1 DEF SoundInv, Sound
<1>2. ASSUME verdict # None, verdict.fraction = verdict.booster.fraction,
             OnlyGrew(verdict.data, verdict.booster.data)
      PROVE  /\ verdict.scored \intersect verdict.booster.learned = {}
             /\ verdict.data = verdict.booster.data => verdict.scored = verdict.booster.watched
  <2>1. /\ Sound(verdict.booster) /\ IsFiniteSet(verdict.data)
        /\ verdict.scored = HeldOut(verdict.data, verdict.fraction)
    BY <1>2 DEF SoundInv
  <2>2. verdict.scored \intersect verdict.booster.learned = {}
    <3>1. verdict.booster.learned =
            verdict.booster.data \ HeldOut(verdict.booster.data, verdict.booster.fraction)
      BY <2>1 DEF Sound
    <3>2. QED
      BY <1>2, <2>1, <3>1, GrowthHoldsOutNew DEF Sound, SoundInv
  <2>3. QED
    BY <1>2, <2>1, <2>2 DEF Sound
<1>3. QED
  BY <1>1, <1>2 DEF ReportedUnfitted

(***************************************************************************)
(* The inductive invariant of the reports: wherever a training is found,   *)
(* with the trainer, in a file or with a reader, its sides are those of    *)
(* its own split, and a verdict is on the side its fraction leaves out.    *)
(***************************************************************************)
THEOREM SoundInvariant == Spec => []SoundInv
<1>1. LifeInv /\ SoundInv /\ [Next]_lifeVars => SoundInv'
  <2>1. SUFFICES ASSUME LifeInv, SoundInv, [Next]_lifeVars PROVE SoundInv'
    OBVIOUS
  <2>2. CASE Dataset \/ Train \/ Discard \/ CrashTrain
    BY <2>1, <2>2, SoundTrainer
  <2>3. CASE Save
    BY <2>1, <2>3, SoundSave
  <2>4. CASE StartServe \/ StartPredict \/ StartValidate \/ Read \/ ReadFails \/ Construct
    BY <2>1, <2>4, SoundReader
  <2>5. CASE Validate
    BY <2>1, <2>5, SoundValidate
  <2>6. CASE UNCHANGED lifeVars
    BY <2>1, <2>6 DEF lifeVars, SoundInv
  <2>7. QED
    BY <2>1, <2>2, <2>3, <2>4, <2>5, <2>6 DEF Next
<1>2. QED
  BY SoundInit, LifeInvariant, <1>1, PTL DEF Spec

(***************************************************************************)
(* The metrics saved with a training, and a later validate of the same     *)
(* share over data that only grew, are on matches no tree was grown on and *)
(* no breakpoint fitted on, though among those early stopping chose the    *)
(* number of trees on; for any fractions, any matches and any interleaving *)
(* of the commands.                                                        *)
(***************************************************************************)
THEOREM ReportedNeverFitted == Spec => []ReportedUnfitted
BY LifeInvariant, SoundInvariant, SoundIsUnfitted, PTL

-----------------------------------------------------------------------------
\* A row of the training view that holds what _tick_row made of a sample.
StoredAs(row, s, m) ==
  /\ row.seconds_remaining = s.seconds
  /\ row.bomb_planted = IF s.planted THEN 1 ELSE 0
  /\ row.bomb_seconds = s.bomb
  /\ row.score_ct = s.score["CT"] /\ row.score_t = s.score["T"]
  /\ row.alive_ct = s.alive["CT"] /\ row.alive_t = s.alive["T"]
  /\ row.health_ct = s.health["CT"] /\ row.health_t = s.health["T"]
  /\ row.money_ct = s.money["CT"] /\ row.money_t = s.money["T"]
  /\ row.equipment_ct = s.equipment["CT"] /\ row.equipment_t = s.equipment["T"]
  /\ row.losses_ct = s.losses["CT"] /\ row.losses_t = s.losses["T"]
  /\ row.kills_ct_window = IF m = Null THEN 0 ELSE m.kills["CT"]
  /\ row.kills_t_window = IF m = Null THEN 0 ELSE m.kills["T"]
  /\ row.window_seconds = IF m = Null THEN 0 ELSE m.span

\* The vector's values, position by position.
LEMMA ExtractParts ==
  ASSUME NEW s, NEW m
  PROVE  LET vector == Extract(s, m) IN
         /\ \A i \in 1..5 : vector[i] = Manpower(s)[i]
         /\ \A i \in 1..3 : vector[5 + i] = Clock(s)[i]
         /\ \A i \in 1..3 : vector[8 + i] = Wealth(s)[i]
         /\ \A i \in 1..2 : vector[11 + i] = Context(s)[i]
         /\ \A i \in 1..2 : vector[13 + i] = Momentum(m)[i]
<1> QED
  BY DEF Extract, Manpower, Clock, Wealth, Context, Momentum

\* The cells of a row, also of one without a window.
LEMMA TickRowCells ==
  ASSUME NEW s, NEW m
  PROVE  LET cells == TickRow(s, m) IN
         /\ Len(cells) = 18
         /\ cells = [i \in 1..18 |-> cells[i]]
         /\ cells[1] = s.seconds /\ cells[2] = (IF s.planted THEN 1 ELSE 0) /\ cells[3] = s.bomb
         /\ cells[4] = s.score["CT"] /\ cells[5] = s.score["T"]
         /\ cells[6] = s.alive["CT"] /\ cells[7] = s.alive["T"]
         /\ cells[8] = s.health["CT"] /\ cells[9] = s.health["T"]
         /\ cells[10] = s.money["CT"] /\ cells[11] = s.money["T"]
         /\ cells[12] = s.equipment["CT"] /\ cells[13] = s.equipment["T"]
         /\ cells[14] = s.losses["CT"] /\ cells[15] = s.losses["T"]
         /\ cells[16] = (IF m = Null THEN 0 ELSE m.kills["CT"])
         /\ cells[17] = (IF m = Null THEN 0 ELSE m.kills["T"])
         /\ cells[18] = (IF m = Null THEN 0 ELSE m.span)
<1>1. CASE m = Null
  BY <1>1 DEF TickRow
<1>2. CASE m # Null
  BY <1>2 DEF TickRow
<1> QED BY <1>1, <1>2

\* A number as Features writes it.
Fraction == Int \X (Nat \ {0})

\* The two ways to clip agree.
LEMMA ClipIsClamp ==
  ASSUME NEW q \in Fraction
  PROVE  /\ Clip(q, -1, 1) = Unit(q) /\ Clip(q, 0, 1) = Share(q)
         /\ Unit(q) \in Fraction /\ Within(Unit(q), -1, 1)
         /\ Share(q) \in Fraction /\ Within(Share(q), 0, 1)
<1>1. PICK n \in Int, d \in Nat \ {0} : q = <<n, d>>
  BY DEF Fraction
<1> QED
  BY <1>1 DEF Clip, Unit, Share, Clamp, Within, Fraction

\* A lead, over a positive scale.
LEMMA LeadPaths ==
  ASSUME NEW v \in PerSide, NEW scale \in Nat \ {0}
  PROVE  /\ LeadOf(v["CT"], v["T"], scale) = Lead(v, scale)
         /\ Lead(v, scale) \in Fraction /\ Within(Lead(v, scale), -1, 1)
<1>1. v["CT"] - v["T"] \in Int
  BY DEF PerSide, Sides
<1>2. <<v["CT"] - v["T"], scale>> \in Fraction
  BY <1>1 DEF Fraction
<1> QED
  BY <1>2, ClipIsClamp DEF LeadOf, Lead

\* A ratio, also of nothing to nothing.
LEMMA RatioPaths ==
  ASSUME NEW v \in PerSide
  PROVE  /\ RatioOf(v["CT"], v["T"]) = Ratio(v)
         /\ Ratio(v) \in Fraction /\ Within(Ratio(v), -1, 1)
<1>1. v["CT"] \in Nat /\ v["T"] \in Nat
  BY DEF PerSide, Sides
<1> QED
  BY <1>1 DEF RatioOf, Ratio, Zero, Fraction, Within

\* A sample's fields.
LEMMA SampleFields ==
  ASSUME NEW sample \in Samples
  PROVE  LET s == sample.state  m == sample.metrics IN
         /\ s \in Snapshot /\ s = [field \in DOMAIN s |-> s[field]]
         /\ s.alive \in PerSide /\ s.health \in PerSide /\ s.money \in PerSide
         /\ s.equipment \in PerSide /\ s.losses \in PerSide /\ s.score \in PerSide
         /\ s.seconds \in Nat /\ s.planted \in BOOLEAN
         /\ s.planted => s.bomb \in Nat
         /\ ~s.planted => s.bomb = Null
         /\ s.alive["CT"] <= PlayersPerTeam /\ s.alive["T"] <= PlayersPerTeam
         /\ m # Null => m \in WindowedMetrics /\ m.kills \in PerSide /\ m.span \in Nat
  BY FeaturesAssumption DEF Snapshot, WindowedMetrics, Sides

\* No division by zero.
LEMMA Scales ==
  /\ PlayersPerTeam \in Nat \ {0} /\ RoundSeconds \in Nat \ {0} /\ BombTimer \in Nat \ {0}
  /\ LadderLength \in Nat \ {0} /\ RoundsToWin \in Nat \ {0} /\ MaxRounds \in Nat \ {0}
  BY FeaturesAssumption

\* build_feature_frame computes from such a row what extract() computes from
\* the sample, feature by feature.
LEMMA PathsAgree ==
  ASSUME NEW sample \in Samples, NEW row, StoredAs(row, sample.state, sample.metrics)
  PROVE  \A j \in 1..15 :
           Same(Offline(row)[j], Extract(sample.state, sample.metrics)[j])
<1> DEFINE s == sample.state
           m == sample.metrics
           there == Offline(row)
           here == Extract(s, m)
<1>a. /\ s.alive \in PerSide /\ s.health \in PerSide /\ s.money \in PerSide
      /\ s.equipment \in PerSide /\ s.losses \in PerSide /\ s.score \in PerSide
      /\ s.seconds \in Nat /\ s.planted \in BOOLEAN
      /\ s.planted => s.bomb \in Nat
      /\ ~s.planted => s.bomb = Null
      /\ m # Null => m.kills \in PerSide /\ m.span \in Nat
  BY SampleFields
<1>b. \A v \in PerSide : v["CT"] \in Nat /\ v["T"] \in Nat
  BY DEF PerSide, Sides
<1>c. \A n \in Int, d \in Nat \ {0} : <<n, d>> \in Fraction
  BY DEF Fraction
<1>d. Null \notin Nat
  BY FeaturesAssumption
<1>1. /\ there[1] = <<s.alive["CT"], PlayersPerTeam>>
      /\ there[2] = <<s.alive["T"], PlayersPerTeam>>
      /\ there[3] = LeadOf(s.alive["CT"], s.alive["T"], PlayersPerTeam)
      /\ there[4] = RatioOf(s.alive["CT"], s.alive["T"])
      /\ there[5] = RatioOf(s.health["CT"], s.health["T"])
      /\ there[6] = Clip(<<s.seconds, RoundSeconds>>, 0, 1)
      /\ there[7] = <<IF s.planted THEN 1 ELSE 0, 1>>
      /\ there[8] = Clip(<<Filled(s.bomb), BombTimer>>, 0, 1)
  BY DEF Offline, StoredAs
<1>2. /\ there[9] = RatioOf(s.money["CT"], s.money["T"])
      /\ there[10] = RatioOf(s.equipment["CT"], s.equipment["T"])
      /\ there[11] = LeadOf(s.losses["CT"], s.losses["T"], LadderLength)
      /\ there[12] = LeadOf(s.score["CT"], s.score["T"], RoundsToWin)
      /\ there[13] = Clip(<<s.score["CT"] + s.score["T"], MaxRounds>>, 0, 1)
  BY DEF Offline, StoredAs
<1> DEFINE ct == IF m = Null THEN 0 ELSE m.kills["CT"]
           t == IF m = Null THEN 0 ELSE m.kills["T"]
           span == IF m = Null THEN 0 ELSE m.span
<1>3. /\ there[14] = LeadOf(ct, t, PlayersPerTeam)
      /\ there[15] = Clip(IF span > 0 THEN <<ct + t, span>> ELSE Zero, 0, 1)
  BY DEF Offline, StoredAs
<1>4. \A j \in 1..5 : here[j] = Manpower(s)[j]
  BY ExtractParts
<1>5. here[6] = Clock(s)[1] /\ here[7] = Clock(s)[2] /\ here[8] = Clock(s)[3]
  BY ExtractParts
<1>6. /\ here[9] = Wealth(s)[1] /\ here[10] = Wealth(s)[2] /\ here[11] = Wealth(s)[3]
      /\ here[12] = Context(s)[1] /\ here[13] = Context(s)[2]
      /\ here[14] = Momentum(m)[1] /\ here[15] = Momentum(m)[2]
  BY ExtractParts
<1> HIDE DEF there, here, s, m
<1>7. \A j \in 1..5 : there[j] = here[j]
  <2>1. /\ here[1] = <<s.alive["CT"], PlayersPerTeam>> /\ here[2] = <<s.alive["T"], PlayersPerTeam>>
        /\ here[3] = Lead(s.alive, PlayersPerTeam)
        /\ here[4] = Ratio(s.alive) /\ here[5] = Ratio(s.health)
    BY <1>4 DEF Manpower
  <2>2. /\ LeadOf(s.alive["CT"], s.alive["T"], PlayersPerTeam) = Lead(s.alive, PlayersPerTeam)
        /\ RatioOf(s.alive["CT"], s.alive["T"]) = Ratio(s.alive)
        /\ RatioOf(s.health["CT"], s.health["T"]) = Ratio(s.health)
    BY <1>a, Scales, LeadPaths, RatioPaths
  <2> QED
    BY <1>1, <2>1, <2>2
<1>8. there[6] = here[6] /\ there[7] = here[7]
  <2>1. <<s.seconds, RoundSeconds>> \in Fraction
    BY <1>a, <1>c, Scales
  <2>2. there[6] = here[6]
    BY <1>1, <1>5, <2>1, ClipIsClamp DEF Clock
  <2>3. there[7] = here[7]
    BY <1>1, <1>5, <1>a DEF Clock, Zero
  <2> QED
    BY <2>2, <2>3
<1>9. Same(there[8], here[8]) /\ there[8] \in Fraction /\ here[8] \in Fraction
  <2>1. CASE s.planted
    <3>1. Filled(s.bomb) = s.bomb /\ s.bomb # Null /\ s.bomb \in Nat
      BY <1>a, <1>d, <2>1 DEF Filled
    <3>2. <<s.bomb, BombTimer>> \in Fraction
      BY <1>c, <3>1, Scales
    <3>3. there[8] = here[8] /\ here[8] \in Fraction
      BY <1>1, <1>5, <2>1, <3>1, <3>2, ClipIsClamp DEF Clock
    <3> QED
      BY <3>3 DEF Same, Fraction
  <2>2. CASE ~s.planted
    <3>1. there[8] = Clip(<<0, BombTimer>>, 0, 1)
      BY <1>1, <1>a, <2>2 DEF Filled
    <3>2. here[8] = Share(Zero)
      BY <1>5, <2>2 DEF Clock
    <3>3. there[8] = <<0, BombTimer>> /\ here[8] = <<0, 1>>
      BY <3>1, <3>2, Scales DEF Clip, Share, Clamp, Zero
    <3> QED
      BY <3>3, Scales DEF Same, Fraction
  <2> QED
    BY <1>a, <2>1, <2>2
<1>10. /\ there[9] = here[9] /\ there[10] = here[10] /\ there[11] = here[11]
       /\ there[12] = here[12] /\ there[13] = here[13]
  <2>1. <<s.score["CT"] + s.score["T"], MaxRounds>> \in Fraction
    <3>1. s.score["CT"] + s.score["T"] \in Int
      BY <1>a, <1>b
    <3> QED
      BY <1>c, <3>1, Scales
  <2>2. there[13] = here[13]
    BY <1>2, <1>6, <2>1, ClipIsClamp DEF Context
  <2>3. /\ LeadOf(s.losses["CT"], s.losses["T"], LadderLength) = Lead(s.losses, LadderLength)
        /\ LeadOf(s.score["CT"], s.score["T"], RoundsToWin) = Lead(s.score, RoundsToWin)
        /\ RatioOf(s.money["CT"], s.money["T"]) = Ratio(s.money)
        /\ RatioOf(s.equipment["CT"], s.equipment["T"]) = Ratio(s.equipment)
    BY <1>a, Scales, LeadPaths, RatioPaths
  <2> QED
    BY <1>2, <1>6, <2>2, <2>3 DEF Wealth, Context
<1>11. Same(there[14], here[14]) /\ Same(there[15], here[15])
  <2>1. CASE m = Null
    <3>1. here[14] = <<0, 1>> /\ here[15] = <<0, 1>>
      BY <1>6, <2>1 DEF Momentum, Zero
    <3>2. there[14] = <<0, PlayersPerTeam>> /\ there[15] = <<0, 1>>
      BY <1>3, <2>1, Scales DEF LeadOf, Clip, Zero
    <3> QED
      BY <3>1, <3>2, Scales DEF Same
  <2>2. CASE m # Null
    <3>1. ct = m.kills["CT"] /\ t = m.kills["T"] /\ span = m.span
      BY <2>2
    <3>2. there[14] = here[14] /\ here[14] \in Fraction
      BY <1>3, <1>6, <1>a, <2>2, <3>1, LeadPaths, Scales DEF Momentum
    <3>3. m.kills["CT"] + m.kills["T"] \in Int /\ m.span \in Nat
      BY <1>a, <1>b, <2>2
    <3>4. Pace(m) \in Fraction
      BY <1>c, <3>3 DEF Pace, Zero
    <3>5. Pace(m) = IF m.span > 0 THEN <<m.kills["CT"] + m.kills["T"], m.span>> ELSE Zero
      BY <3>3 DEF Pace
    <3>6. there[15] = here[15] /\ here[15] \in Fraction
      BY <1>3, <1>6, <2>2, <3>1, <3>4, <3>5, ClipIsClamp DEF Momentum
    <3> QED
      BY <3>2, <3>6 DEF Same, Fraction
  <2> QED
    BY <2>1, <2>2
<1>12. ASSUME NEW p PROVE Same(p, p)
  BY DEF Same
<1> QED
  <2>1. ASSUME NEW j \in 1..15 PROVE Same(there[j], here[j])
    <3>1. CASE j \in 1..5
      BY <1>7, <1>12, <3>1
    <3>2. CASE j \in 6..10
      BY <1>8, <1>9, <1>10, <1>12, <3>2
    <3>3. CASE j \in 11..15
      BY <1>10, <1>11, <1>12, <3>3
    <3> QED
      BY <3>1, <3>2, <3>3
  <2> QED
    BY <2>1 DEF there, here, s, m

\* Every feature of a sample in its range.
LEMMA FeaturesBounded ==
  ASSUME NEW sample \in Samples
  PROVE  Bounded(sample.state, sample.metrics)
<1> DEFINE s == sample.state
           m == sample.metrics
           here == Extract(s, m)
<1>a. /\ s.alive \in PerSide /\ s.health \in PerSide /\ s.money \in PerSide
      /\ s.equipment \in PerSide /\ s.losses \in PerSide /\ s.score \in PerSide
      /\ s.seconds \in Nat /\ s.planted \in BOOLEAN
      /\ s.planted => s.bomb \in Nat
      /\ s.alive["CT"] <= PlayersPerTeam /\ s.alive["T"] <= PlayersPerTeam
      /\ m # Null => m.kills \in PerSide /\ m.span \in Nat
  BY SampleFields
<1>b. \A v \in PerSide : v["CT"] \in Nat /\ v["T"] \in Nat
  BY DEF PerSide, Sides
<1>c. \A n \in Int, d \in Nat \ {0} : <<n, d>> \in Fraction
  BY DEF Fraction
<1>1. \A j \in 1..5 : here[j] = Manpower(s)[j]
  BY ExtractParts
<1>2. here[6] = Clock(s)[1] /\ here[7] = Clock(s)[2] /\ here[8] = Clock(s)[3]
  BY ExtractParts
<1>3. /\ here[9] = Wealth(s)[1] /\ here[10] = Wealth(s)[2] /\ here[11] = Wealth(s)[3]
      /\ here[12] = Context(s)[1] /\ here[13] = Context(s)[2]
      /\ here[14] = Momentum(m)[1] /\ here[15] = Momentum(m)[2]
  BY ExtractParts
<1> HIDE DEF here, s, m
<1>4. \A q \in Fraction : Within(q, 0, 1) => Within(q, -1, 1)
  BY DEF Within, Fraction
<1>5. Within(here[1], 0, 1) /\ Within(here[2], 0, 1)
  BY <1>1, <1>a, <1>b, Scales DEF Manpower, Within
<1>6. Within(here[3], -1, 1) /\ Within(here[4], -1, 1) /\ Within(here[5], -1, 1)
  <2>1. here[3] = Lead(s.alive, PlayersPerTeam) /\ here[4] = Ratio(s.alive) /\ here[5] = Ratio(s.health)
    BY <1>1 DEF Manpower
  <2> QED
    BY <1>a, <2>1, LeadPaths, RatioPaths, Scales
<1>7. Within(here[6], 0, 1) /\ Within(here[7], 0, 1) /\ Within(here[8], 0, 1)
  <2>1. <<s.seconds, RoundSeconds>> \in Fraction /\ Zero \in Fraction
    BY <1>a, <1>c, Scales DEF Zero
  <2>2. s.planted => <<s.bomb, BombTimer>> \in Fraction
    BY <1>a, <1>c, Scales
  <2>3. Within(here[6], 0, 1)
    BY <1>2, <2>1, ClipIsClamp DEF Clock
  <2>4. Within(here[7], 0, 1)
    BY <1>2 DEF Clock, Zero, Within
  <2>5. here[8] = Share(IF s.planted /\ s.bomb # Null THEN <<s.bomb, BombTimer>> ELSE Zero)
    BY <1>2 DEF Clock
  <2> QED
    BY <2>1, <2>2, <2>3, <2>4, <2>5, ClipIsClamp
<1>8. /\ Within(here[9], -1, 1) /\ Within(here[10], -1, 1) /\ Within(here[11], -1, 1)
      /\ Within(here[12], -1, 1) /\ Within(here[13], 0, 1)
  <2>1. /\ here[9] = Ratio(s.money) /\ here[10] = Ratio(s.equipment)
        /\ here[11] = Lead(s.losses, LadderLength) /\ here[12] = Lead(s.score, RoundsToWin)
        /\ here[13] = Share(<<s.score["CT"] + s.score["T"], MaxRounds>>)
    BY <1>3 DEF Wealth, Context
  <2>2. s.score["CT"] + s.score["T"] \in Int
    BY <1>a, <1>b
  <2>3. <<s.score["CT"] + s.score["T"], MaxRounds>> \in Fraction
    BY <1>c, <2>2, Scales
  <2> QED
    BY <1>a, <2>1, <2>3, LeadPaths, RatioPaths, ClipIsClamp, Scales
<1>9. Within(here[14], -1, 1) /\ Within(here[15], 0, 1)
  <2>1. CASE m = Null
    BY <1>3, <2>1 DEF Momentum, Zero, Within
  <2>2. CASE m # Null
    <3>1. m.kills["CT"] + m.kills["T"] \in Int /\ m.span \in Nat
      BY <1>a, <1>b, <2>2
    <3>2. Pace(m) \in Fraction
      BY <1>c, <3>1 DEF Pace, Zero
    <3>3. here[14] = Lead(m.kills, PlayersPerTeam) /\ here[15] = Share(Pace(m))
      BY <1>3, <2>2 DEF Momentum
    <3> QED
      BY <1>a, <2>2, <3>2, <3>3, LeadPaths, ClipIsClamp, Scales
  <2> QED
    BY <2>1, <2>2
<1> QED
  <2>1. \A i \in {1, 2, 6, 7, 8, 13, 15} : Within(here[i], 0, 1) /\ i \notin Balances
    BY <1>5, <1>7, <1>8, <1>9 DEF Balances
  <2>2. \A i \in {3, 4, 5, 9, 10, 11, 12, 14} : Within(here[i], -1, 1) /\ i \in Balances
    BY <1>6, <1>8, <1>9 DEF Balances
  <2>3. ASSUME NEW i \in 1..15 PROVE i \in {1, 2, 6, 7, 8, 13, 15} \/ i \in {3, 4, 5, 9, 10, 11, 12, 14}
    OBVIOUS
  <2>4. ASSUME NEW i \in 1..15 PROVE Within(here[i], IF i \in Balances THEN -1 ELSE 0, 1)
    BY <2>1, <2>2, <2>3
  <2> QED
    BY <2>4 DEF Bounded, here, s, m

\* Exchanging the sides negates ratios and leads.
LEMMA SwapLeads ==
  ASSUME NEW v \in PerSide
  PROVE  /\ Swap(v) \in PerSide /\ Swap(v)["CT"] = v["T"] /\ Swap(v)["T"] = v["CT"]
         /\ Same(Ratio(Swap(v)), Negated(Ratio(v)))
         /\ \A scale \in Nat \ {0} : Same(Lead(Swap(v), scale), Negated(Lead(v, scale)))
<1>1. v["CT"] \in Nat /\ v["T"] \in Nat
  BY DEF PerSide, Sides
<1>2. Swap(v) \in PerSide /\ Swap(v)["CT"] = v["T"] /\ Swap(v)["T"] = v["CT"]
  BY DEF Swap, PerSide, Sides
<1>3. Same(Ratio(Swap(v)), Negated(Ratio(v)))
  <2> DEFINE a == v["CT"]
             b == v["T"]
  <2>1. CASE a + b <= 0
    BY <1>1, <1>2, <2>1 DEF Ratio, Zero, Same, Negated
  <2>2. CASE ~(a + b <= 0)
    <3>1. Ratio(v) = <<a - b, a + b>> /\ Ratio(Swap(v)) = <<b - a, b + a>>
      BY <1>1, <1>2, <2>2 DEF Ratio
    <3>2. b - a = 0 - (a - b) /\ b + a = a + b
      BY <1>1
    <3> HIDE DEF a, b
    <3> QED
      BY <3>1, <3>2 DEF Same, Negated
  <2> QED
    BY <2>1, <2>2
<1>4. ASSUME NEW scale \in Nat \ {0}
      PROVE Same(Lead(Swap(v), scale), Negated(Lead(v, scale)))
  <2> DEFINE lead == v["CT"] - v["T"]
  <2>1. lead \in Int /\ v["T"] - v["CT"] = 0 - lead
    BY <1>1
  <2>2. Lead(Swap(v), scale) = Unit(<<0 - lead, scale>>) /\ Lead(v, scale) = Unit(<<lead, scale>>)
    BY <1>2, <2>1 DEF Lead
  <2> HIDE DEF lead
  <2> QED
    BY <2>1, <2>2 DEF Unit, Clamp, Same, Negated
<1> QED
  BY <1>2, <1>3, <1>4

\* A mirrored state and a mirrored window, field by field.
LEMMA MirrorFields ==
  ASSUME NEW s \in Snapshot
  PROVE  /\ Mirror(s).alive = Swap(s.alive) /\ Mirror(s).health = Swap(s.health)
         /\ Mirror(s).money = Swap(s.money) /\ Mirror(s).equipment = Swap(s.equipment)
         /\ Mirror(s).losses = Swap(s.losses) /\ Mirror(s).score = Swap(s.score)
         /\ Mirror(s).seconds = s.seconds /\ Mirror(s).planted = s.planted
         /\ Mirror(s).bomb = s.bomb
  BY DEF Mirror, Snapshot

\* A mirrored window is a window.
LEMMA MirrorMetricsFields ==
  ASSUME NEW m \in WindowedMetrics
  PROVE  /\ MirrorMetrics(m) # Null /\ m # Null
         /\ MirrorMetrics(m).kills = Swap(m.kills) /\ MirrorMetrics(m).span = m.span
<1>1. m # Null
  BY FeaturesAssumption
<1>2. MirrorMetrics(m) = [m EXCEPT !.kills = Swap(@)]
  BY <1>1 DEF MirrorMetrics
<1>3. m.kills \in PerSide
  BY DEF WindowedMetrics
<1>4. MirrorMetrics(m) \in WindowedMetrics
  BY <1>2, <1>3, SwapLeads DEF WindowedMetrics
<1> QED
  BY <1>1, <1>2, <1>4, FeaturesAssumption DEF WindowedMetrics

\* Every feature of a sample against the one of its mirror image.
LEMMA FeaturesMirrored ==
  ASSUME NEW sample \in Samples
  PROVE  Mirrored(sample.state, sample.metrics)
<1> DEFINE s == sample.state
           m == sample.metrics
           r == Mirror(s)
           n == MirrorMetrics(m)
           there == Extract(s, m)
           here == Extract(r, n)
<1>a. /\ s \in Snapshot
      /\ s.alive \in PerSide /\ s.health \in PerSide /\ s.money \in PerSide
      /\ s.equipment \in PerSide /\ s.losses \in PerSide /\ s.score \in PerSide
      /\ m # Null => m \in WindowedMetrics /\ m.kills \in PerSide /\ m.span \in Nat
  BY SampleFields
<1>b. \A v \in PerSide : v["CT"] \in Nat /\ v["T"] \in Nat
  BY DEF PerSide, Sides
<1>c. /\ r.alive = Swap(s.alive) /\ r.health = Swap(s.health)
      /\ r.money = Swap(s.money) /\ r.equipment = Swap(s.equipment)
      /\ r.losses = Swap(s.losses) /\ r.score = Swap(s.score)
      /\ r.seconds = s.seconds /\ r.planted = s.planted /\ r.bomb = s.bomb
  BY <1>a, MirrorFields
<1>d. m # Null => n # Null /\ n.kills = Swap(m.kills) /\ n.span = m.span
  BY <1>a, MirrorMetricsFields
<1>e. m = Null => n = Null
  BY DEF MirrorMetrics
<1>1. /\ \A j \in 1..5 : there[j] = Manpower(s)[j]
      /\ there[6] = Clock(s)[1] /\ there[7] = Clock(s)[2] /\ there[8] = Clock(s)[3]
      /\ there[9] = Wealth(s)[1] /\ there[10] = Wealth(s)[2] /\ there[11] = Wealth(s)[3]
      /\ there[12] = Context(s)[1] /\ there[13] = Context(s)[2]
      /\ there[14] = Momentum(m)[1] /\ there[15] = Momentum(m)[2]
  <2>1. \A j \in 1..5 : there[j] = Manpower(s)[j]
    BY ExtractParts
  <2>2. there[6] = Clock(s)[1] /\ there[7] = Clock(s)[2] /\ there[8] = Clock(s)[3]
    BY ExtractParts
  <2>3. /\ there[9] = Wealth(s)[1] /\ there[10] = Wealth(s)[2] /\ there[11] = Wealth(s)[3]
        /\ there[12] = Context(s)[1] /\ there[13] = Context(s)[2]
        /\ there[14] = Momentum(m)[1] /\ there[15] = Momentum(m)[2]
    BY ExtractParts
  <2> HIDE DEF there
  <2> QED
    BY <2>1, <2>2, <2>3
<1>2. /\ \A j \in 1..5 : here[j] = Manpower(r)[j]
      /\ here[6] = Clock(r)[1] /\ here[7] = Clock(r)[2] /\ here[8] = Clock(r)[3]
      /\ here[9] = Wealth(r)[1] /\ here[10] = Wealth(r)[2] /\ here[11] = Wealth(r)[3]
      /\ here[12] = Context(r)[1] /\ here[13] = Context(r)[2]
      /\ here[14] = Momentum(n)[1] /\ here[15] = Momentum(n)[2]
  <2> HIDE DEF r, n
  <2>1. \A j \in 1..5 : here[j] = Manpower(r)[j]
    BY ExtractParts
  <2>2. here[6] = Clock(r)[1] /\ here[7] = Clock(r)[2] /\ here[8] = Clock(r)[3]
    BY ExtractParts
  <2>3. /\ here[9] = Wealth(r)[1] /\ here[10] = Wealth(r)[2] /\ here[11] = Wealth(r)[3]
        /\ here[12] = Context(r)[1] /\ here[13] = Context(r)[2]
        /\ here[14] = Momentum(n)[1] /\ here[15] = Momentum(n)[2]
    BY ExtractParts
  <2> HIDE DEF here
  <2> QED
    BY <2>1, <2>2, <2>3
<1> HIDE DEF here, there, r, n, s, m
<1>f. \A p : Same(p, p)
  BY DEF Same
<1>3. Same(here[1], there[2]) /\ Same(here[2], there[1])
  <2>1. here[1] = there[2] /\ here[2] = there[1]
    BY <1>1, <1>2, <1>a, <1>c, SwapLeads DEF Manpower
  <2> QED
    BY <1>f, <2>1
<1>4. /\ Same(here[3], Negated(there[3])) /\ Same(here[4], Negated(there[4]))
      /\ Same(here[5], Negated(there[5]))
  <2>1. /\ here[3] = Lead(r.alive, PlayersPerTeam) /\ there[3] = Lead(s.alive, PlayersPerTeam)
        /\ here[4] = Ratio(r.alive) /\ there[4] = Ratio(s.alive)
        /\ here[5] = Ratio(r.health) /\ there[5] = Ratio(s.health)
    BY <1>1, <1>2 DEF Manpower
  <2> QED
    BY <1>a, <1>c, <2>1, SwapLeads, Scales
<1>5. Same(here[6], there[6]) /\ Same(here[7], there[7]) /\ Same(here[8], there[8])
  <2>1. Clock(r) = Clock(s)
    BY <1>c DEF Clock
  <2> QED
    BY <1>1, <1>2, <1>f, <2>1
<1>6. /\ Same(here[9], Negated(there[9])) /\ Same(here[10], Negated(there[10]))
      /\ Same(here[11], Negated(there[11])) /\ Same(here[12], Negated(there[12]))
  <2>1. /\ here[9] = Ratio(r.money) /\ there[9] = Ratio(s.money)
        /\ here[10] = Ratio(r.equipment) /\ there[10] = Ratio(s.equipment)
        /\ here[11] = Lead(r.losses, LadderLength) /\ there[11] = Lead(s.losses, LadderLength)
        /\ here[12] = Lead(r.score, RoundsToWin) /\ there[12] = Lead(s.score, RoundsToWin)
    BY <1>1, <1>2 DEF Wealth, Context
  <2> QED
    BY <1>a, <1>c, <2>1, SwapLeads, Scales
<1>7. Same(here[13], there[13])
  <2>1. r.score["CT"] + r.score["T"] = s.score["CT"] + s.score["T"]
    BY <1>a, <1>b, <1>c, SwapLeads
  <2>2. here[13] = there[13]
    BY <1>1, <1>2, <2>1 DEF Context
  <2> QED
    BY <1>f, <2>2
<1>8. Same(here[14], Negated(there[14])) /\ Same(here[15], there[15])
  <2>1. CASE m = Null
    <3>1. /\ here[14] = <<0, 1>> /\ there[14] = <<0, 1>>
          /\ here[15] = <<0, 1>> /\ there[15] = <<0, 1>>
      BY <1>1, <1>2, <1>e, <2>1 DEF Momentum, Zero
    <3> QED
      BY <3>1 DEF Same, Negated
  <2>2. CASE m # Null
    <3>1. /\ here[14] = Lead(n.kills, PlayersPerTeam) /\ there[14] = Lead(m.kills, PlayersPerTeam)
          /\ here[15] = Share(Pace(n)) /\ there[15] = Share(Pace(m))
      BY <1>1, <1>2, <1>d, <2>2 DEF Momentum
    <3>2. n.kills["CT"] + n.kills["T"] = m.kills["CT"] + m.kills["T"]
      BY <1>a, <1>b, <1>d, <2>2, SwapLeads
    <3>3. Pace(n) = Pace(m)
      BY <1>d, <2>2, <3>2 DEF Pace
    <3> QED
      BY <1>a, <1>d, <1>f, <2>2, <3>1, <3>3, SwapLeads, Scales
  <2> QED
    BY <2>1, <2>2
<1> QED
  <2> DEFINE Image(i) == IF i \in Balances THEN Negated(there[i])
                         ELSE IF i = 1 THEN there[2] ELSE IF i = 2 THEN there[1] ELSE there[i]
  <2>1. ASSUME NEW i \in 1..15 PROVE Same(here[i], Image(i))
    <3>1. CASE i \in {1, 2}
      BY <1>3, <3>1 DEF Balances
    <3>2. CASE i \in {3, 4, 5, 9, 10, 11, 12, 14}
      <4>1. Image(i) = Negated(there[i])
        BY <3>2 DEF Balances
      <4> HIDE DEF Image
      <4> QED
        BY <1>4, <1>6, <1>8, <3>2, <4>1
    <3>3. CASE i \in {6, 7, 8, 13, 15}
      <4>1. Image(i) = there[i]
        BY <3>3 DEF Balances
      <4> HIDE DEF Image
      <4> QED
        BY <1>5, <1>7, <1>8, <3>3, <4>1
    <3> QED
      BY <3>1, <3>2, <3>3
  <2> QED
    BY <2>1 DEF Mirrored, here, there, r, n, s, m

-----------------------------------------------------------------------------
\* No two columns share a name.
LEMMA ColumnsDiffer ==
  /\ Len(Columns) = 18
  /\ \A i, j \in 1..18 : Columns[i] = Columns[j] => i = j
<1>1. Len(Columns) = 18
  BY DEF Columns
<1>2. ASSUME NEW i \in 1..18, NEW j \in 1..18, Columns[i] = Columns[j] PROVE i = j
  BY <1>2 DEF Columns
<1> QED
  BY <1>1, <1>2

\* The names of this build.
Declared == {Columns[i] : i \in 1..18}

\* The columns as a sequence of names.
LEMMA ColumnNames ==
  /\ Columns = [i \in 1..18 |-> Columns[i]]
  /\ \A i \in 1..18 : Columns[i] \in Declared
  /\ Columns \in Seq(Declared)
<1>1. Columns = [i \in 1..18 |-> Columns[i]]
  BY DEF Columns
<1>2. \A i \in 1..18 : Columns[i] \in Declared
  BY DEF Declared
<1>3. Columns \in [1..18 -> Declared]
  BY <1>1, <1>2
<1> QED
  BY <1>1, <1>2, <1>3

\* The older table's columns are the first fifteen.
LEMMA OldColumnsAre ==
  /\ Len(OldColumns) = 15
  /\ \A i \in 1..15 : OldColumns[i] = Columns[i]
  /\ OldColumns \in Seq(Declared)
  BY ColumnNames DEF OldColumns

\* What is left of an interval behind its first n numbers.
LEMMA TailInterval ==
  ASSUME NEW n \in 0..18, NEW i
  PROVE  i \in (n + 1)..18 <=> i \in 1..18 /\ i > n
<1>1. n \in Int /\ 0 <= n /\ n <= 18
  OBVIOUS
<1>2. i \in (n + 1)..18 => i \in Int /\ n + 1 <= i /\ i <= 18
  BY <1>1
<1>3. i \in 1..18 => i \in Int /\ 1 <= i /\ i <= 18
  OBVIOUS
<1>4. ASSUME i \in Int PROVE i \in (n + 1)..18 <=> i \in 1..18 /\ i > n
  BY <1>1, <1>4
<1> QED
  BY <1>2, <1>3, <1>4

\* The first n columns of this build are there: the others are missing.
LEMMA MissingAre ==
  ASSUME NEW n \in 0..18, Len(columns) = n, \A i \in 1..n : columns[i] = Columns[i]
  PROVE  Missing = [k \in 1..(18 - n) |-> Columns[n + k]]
<1> DEFINE lacking == {i \in 1..Len(Columns) : \A j \in 1..Len(columns) : columns[j] # Columns[i]}
           Before(i) == {j \in lacking : j < i}
<1>1. lacking = (n + 1)..18
  <2>1. ASSUME NEW i \in 1..18 PROVE i \in lacking <=> i > n
    <3>1. CASE i > n
      <4>1. ASSUME NEW j \in 1..Len(columns) PROVE columns[j] # Columns[i]
        <5>1. j \in 1..18 /\ j # i /\ columns[j] = Columns[j]
          BY <3>1
        <5> QED
          BY <5>1, ColumnsDiffer
      <4>2. i \in 1..Len(Columns)
        BY ColumnsDiffer
      <4> QED
        BY <3>1, <4>1, <4>2
    <3>2. CASE ~(i > n)
      BY <3>2, ColumnsDiffer
    <3> QED
      BY <3>1, <3>2
  <2>2. lacking \subseteq 1..18
    BY ColumnsDiffer
  <2> HIDE DEF lacking
  <2>3. ASSUME NEW i PROVE i \in lacking <=> i \in (n + 1)..18
    <3>1. i \in (n + 1)..18 <=> i \in 1..18 /\ i > n
      BY TailInterval
    <3> QED
      BY <2>1, <2>2, <3>1, Zenon
  <2> QED
    BY <2>3
<1> HIDE DEF lacking
<1>2. ASSUME NEW i \in (n + 1)..18 PROVE Cardinality(Before(i)) = i - 1 - n
  <2>1. Before(i) = (n + 1)..(i - 1)
    BY <1>1
  <2>2. Cardinality((n + 1)..(i - 1)) = IF n + 1 > i - 1 THEN 0 ELSE (i - 1) - (n + 1) + 1
    BY FS_Interval
  <2> HIDE DEF Before
  <2>3. Cardinality(Before(i)) = IF n + 1 > i - 1 THEN 0 ELSE (i - 1) - (n + 1) + 1
    BY <2>1, <2>2
  <2> QED
    BY <2>3
<1>3. Cardinality(lacking) = 18 - n
  <2>1. Cardinality((n + 1)..18) = IF n + 1 > 18 THEN 0 ELSE 18 - (n + 1) + 1
    BY FS_Interval
  <2> QED
    BY <1>1, <2>1
<1>4. ASSUME NEW k \in 1..(18 - n)
      PROVE  (CHOOSE i \in lacking : Cardinality(Before(i)) = k - 1) = n + k
  <2> HIDE DEF Before
  <2>1. n + k \in lacking /\ Cardinality(Before(n + k)) = k - 1
    BY <1>1, <1>2
  <2>2. \A i \in lacking : Cardinality(Before(i)) = k - 1 => i = n + k
    BY <1>1, <1>2
  <2> QED
    BY <2>1, <2>2
<1> DEFINE Place(k) == CHOOSE i \in lacking : Cardinality(Before(i)) = k - 1
<1>5. Missing = [k \in 1..Cardinality(lacking) |-> Columns[Place(k)]]
  BY DEF Missing, lacking
<1>6. \A k \in 1..(18 - n) : Place(k) = n + k
  BY <1>4
<1> HIDE DEF Place
<1> QED
  BY <1>3, <1>5, <1>6

\* A sequence is the function of its elements.
LEMMA SeqIsFunction ==
  ASSUME NEW S, NEW q \in Seq(S)
  PROVE  q = [i \in 1..Len(q) |-> q[i]]
  OBVIOUS

\* One sequence after another, cell by cell.
Joined(c, a, b) ==
  /\ Len(c) = Len(a) + Len(b)
  /\ \A i \in 1..Len(a) : c[i] = a[i]
  /\ \A i \in 1..Len(b) : c[Len(a) + i] = b[i]

\* Concatenation joins.
LEMMA ConcatCells ==
  ASSUME NEW S, NEW a \in Seq(S), NEW b \in Seq(S)
  PROVE  a \o b \in Seq(S) /\ Joined(a \o b, a, b)
  BY DEF Joined

\* After start() the table has the columns of this build.
LEMMA MigratedColumns ==
  ASSUME columns \in {<<>>, OldColumns, Columns}
  PROVE  /\ columns \o Missing = Columns
         /\ columns = OldColumns => Len(Missing) = 3
         /\ columns = Columns => Len(Missing) = 0
<1>1. ASSUME NEW n \in 0..18, Len(columns) = n, \A i \in 1..n : columns[i] = Columns[i],
             columns \in Seq(Declared)
      PROVE  columns \o Missing = Columns /\ Len(Missing) = 18 - n
  <2>1. Missing = [k \in 1..(18 - n) |-> Columns[n + k]]
    BY <1>1, MissingAre
  <2>2. ASSUME NEW k \in 1..(18 - n) PROVE Columns[n + k] \in Declared
    <3>1. n + k \in 1..18
      OBVIOUS
    <3> QED
      BY <3>1, ColumnNames, Zenon
  <2>3. Missing \in [1..(18 - n) -> Declared]
    BY <2>1, <2>2
  <2>4. Missing \in Seq(Declared) /\ Len(Missing) = 18 - n
    BY <2>3
  <2>5. columns \o Missing \in Seq(Declared) /\ Len(columns \o Missing) = 18
    BY <1>1, <2>4
  <2>5a. /\ \A i \in 1..n : (columns \o Missing)[i] = columns[i]
         /\ \A k \in 1..(18 - n) : (columns \o Missing)[n + k] = Missing[k]
    BY <1>1, <2>4, ConcatCells DEF Joined
  <2>6. ASSUME NEW i \in 1..18 PROVE (columns \o Missing)[i] = Columns[i]
    <3>1. CASE i <= n
      BY <1>1, <2>5a, <3>1
    <3>2. CASE i > n
      <4>1. (columns \o Missing)[i] = Missing[i - n] /\ i - n \in 1..(18 - n)
        <5>1. i - n \in 1..(18 - n) /\ n + (i - n) = i
          BY <3>2
        <5>2. (columns \o Missing)[n + (i - n)] = Missing[i - n]
          BY <2>5a, <5>1
        <5> QED
          BY <5>1, <5>2
      <4>2. Missing[i - n] = Columns[n + (i - n)]
        BY <2>1, <4>1
      <4>3. n + (i - n) = i
        OBVIOUS
      <4> QED
        BY <4>1, <4>2, <4>3
    <3>3. n \in Int /\ i \in Int
      OBVIOUS
    <3>4. i <= n \/ i > n
      BY <3>3
    <3> QED
      BY <3>1, <3>2, <3>4
  <2>7. /\ Columns \in Seq(Declared) /\ Len(Columns) = 18
    BY ColumnNames, ColumnsDiffer
  <2>8. columns \o Missing = [i \in 1..18 |-> (columns \o Missing)[i]]
    BY <2>5, SeqIsFunction
  <2>9. Columns = [i \in 1..18 |-> Columns[i]]
    BY <2>7
  <2> QED
    BY <2>4, <2>6, <2>8, <2>9
<1>a. Len(Columns) = 18 /\ Len(OldColumns) = 15 /\ 0 # 15 /\ 0 # 18 /\ 15 # 18
  BY ColumnsDiffer, OldColumnsAre
<1>2. CASE columns = <<>>
  <2>1. Len(columns) = 0 /\ columns \in Seq(Declared)
    BY <1>2
  <2>2. columns # Columns /\ columns # OldColumns
    BY <1>a, <2>1, Zenon
  <2>3. columns \o Missing = Columns
    BY <1>1, <2>1
  <2> QED
    BY <2>2, <2>3
<1>3. CASE columns = OldColumns
  <2>1. /\ Len(columns) = 15 /\ columns \in Seq(Declared)
        /\ \A i \in 1..15 : columns[i] = Columns[i]
    BY <1>3, OldColumnsAre
  <2>2. columns # Columns
    BY <1>a, <2>1, Zenon
  <2>3. columns \o Missing = Columns /\ Len(Missing) = 18 - 15
    <3>1. 15 \in 0..18
      OBVIOUS
    <3> QED
      BY <1>1, <2>1, <3>1, Zenon
  <2> QED
    BY <2>2, <2>3
<1>4. CASE columns = Columns
  <2>1. Len(columns) = 18 /\ columns \in Seq(Declared)
    BY <1>4, ColumnsDiffer, ColumnNames
  <2>2. columns # OldColumns
    BY <1>a, <2>1, Zenon
  <2>3. columns \o Missing = Columns /\ Len(Missing) = 18 - 18
    <3>1. \A i \in 1..18 : columns[i] = Columns[i]
      BY <1>4
    <3> QED
      BY <1>1, <2>1, <3>1
  <2> QED
    BY <2>2, <2>3
<1> QED
  BY <1>2, <1>3, <1>4

\* The row of the view finds every cell of _tick_row under its name.
LEMMA NamedTickRow ==
  ASSUME columns = Columns, NEW s, NEW m
  PROVE  StoredAs(Named(TickRow(s, m)), s, m)
<1> DEFINE cells == TickRow(s, m)
           row == Named(cells)
<1>1. ASSUME NEW i \in 1..18 PROVE row[Columns[i]] = cells[i]
  <2>1. (CHOOSE k \in 1..18 : Columns[k] = Columns[i]) = i
    BY ColumnsDiffer
  <2> HIDE DEF cells
  <2>2. row[Columns[i]] = cells[CHOOSE k \in 1..18 : Columns[k] = Columns[i]]
    BY ColumnsDiffer DEF Named
  <2> QED
    BY <2>1, <2>2
<1>2. /\ Columns[1] = "seconds_remaining" /\ Columns[2] = "bomb_planted"
      /\ Columns[3] = "bomb_seconds" /\ Columns[4] = "score_ct" /\ Columns[5] = "score_t"
      /\ Columns[6] = "alive_ct" /\ Columns[7] = "alive_t"
      /\ Columns[8] = "health_ct" /\ Columns[9] = "health_t"
      /\ Columns[10] = "money_ct" /\ Columns[11] = "money_t"
      /\ Columns[12] = "equipment_ct" /\ Columns[13] = "equipment_t"
      /\ Columns[14] = "losses_ct" /\ Columns[15] = "losses_t"
      /\ Columns[16] = "kills_ct_window" /\ Columns[17] = "kills_t_window"
      /\ Columns[18] = "window_seconds"
  BY DEF Columns
<1> HIDE DEF row
<1>3. /\ row.seconds_remaining = cells[1] /\ row.bomb_planted = cells[2]
      /\ row.bomb_seconds = cells[3] /\ row.score_ct = cells[4] /\ row.score_t = cells[5]
      /\ row.alive_ct = cells[6] /\ row.alive_t = cells[7]
      /\ row.health_ct = cells[8] /\ row.health_t = cells[9]
      /\ row.money_ct = cells[10] /\ row.money_t = cells[11]
      /\ row.equipment_ct = cells[12] /\ row.equipment_t = cells[13]
      /\ row.losses_ct = cells[14] /\ row.losses_t = cells[15]
      /\ row.kills_ct_window = cells[16] /\ row.kills_t_window = cells[17]
      /\ row.window_seconds = cells[18]
  <2> HIDE DEF cells
  <2> QED
    BY <1>1, <1>2
<1> QED
  BY <1>3, TickRowCells DEF StoredAs, row

\* And such a function is a sequence.
LEMMA FunctionIsSeq ==
  ASSUME NEW S, NEW n \in Nat, NEW q \in [1..n -> S]
  PROVE  q \in Seq(S) /\ Len(q) = n
  OBVIOUS

\* Cells cut off and put back.
LEMMA PutBack ==
  ASSUME NEW S, NEW whole \in Seq(S), NEW k \in 0..Len(whole), NEW rest \in Seq(S),
         Len(rest) = Len(whole) - k, \A j \in 1..Len(rest) : rest[j] = whole[k + j]
  PROVE  SubSeq(whole, 1, k) \o rest = whole
<1>1. k \in Nat /\ Len(whole) \in Nat /\ k <= Len(whole)
  OBVIOUS
<1>2. /\ SubSeq(whole, 1, k) \in Seq(S) /\ Len(SubSeq(whole, 1, k)) = k
      /\ \A i \in 1..k : SubSeq(whole, 1, k)[i] = whole[i]
  BY <1>1
<1> DEFINE old == SubSeq(whole, 1, k)
<1> HIDE DEF old
<1>3. old \o rest \in Seq(S) /\ Len(old \o rest) = Len(whole)
  BY <1>1, <1>2 DEF old
<1>4. ASSUME NEW i \in 1..Len(whole) PROVE (old \o rest)[i] = whole[i]
  <2>1. CASE i <= k
    BY <1>1, <1>2, <2>1 DEF old
  <2>2. CASE i > k
    <3>1. (old \o rest)[i] = rest[i - k] /\ i - k \in 1..Len(rest)
      BY <1>1, <1>2, <2>2 DEF old
    <3>2. rest[i - k] = whole[k + (i - k)] /\ k + (i - k) = i
      BY <1>1, <3>1
    <3> QED
      BY <3>1, <3>2
  <2>3. i <= k \/ i > k
    BY <1>1
  <2> QED
    BY <2>1, <2>2, <2>3
<1>5. old \o rest = [i \in 1..Len(whole) |-> (old \o rest)[i]]
  BY <1>3, SeqIsFunction
<1>6. whole = [i \in 1..Len(whole) |-> whole[i]]
  BY SeqIsFunction
<1> QED
  BY <1>4, <1>5, <1>6 DEF old

\* The row an older build wrote becomes, with the zeros of the migration, the
\* row of a sample without a window.
LEMMA MigratedRow ==
  ASSUME NEW s, NEW zeros, zeros = [j \in 1..3 |-> 0]
  PROVE  SubSeq(TickRow(s, Null), 1, 15) \o zeros = TickRow(s, Null)
<1>1. PICK cells : cells = TickRow(s, Null)
  OBVIOUS
<1>2. /\ cells = [i \in 1..18 |-> cells[i]]
      /\ cells[16] = 0 /\ cells[17] = 0 /\ cells[18] = 0
  BY <1>1, TickRowCells
<1>3. PICK S : S = {cells[i] : i \in 1..18}
  OBVIOUS
<1>4. cells \in [1..18 -> S] /\ 0 \in S
  BY <1>2, <1>3
<1>5. cells \in Seq(S) /\ Len(cells) = 18
  BY <1>4, FunctionIsSeq
<1>6. zeros \in [1..3 -> S]
  BY <1>4
<1>7. zeros \in Seq(S) /\ Len(zeros) = 3
  BY <1>6, FunctionIsSeq
<1>8. \A j \in 1..3 : zeros[j] = cells[15 + j]
  BY <1>2
<1>9. 15 \in 0..Len(cells) /\ Len(zeros) = Len(cells) - 15
  BY <1>5, <1>7
<1> QED
  BY <1>1, <1>5, <1>7, <1>8, <1>9, PutBack

\* A table that has every column keeps its rows.
LEMMA NothingAdded ==
  ASSUME NEW s, NEW m
  PROVE  TickRow(s, m) \o <<>> = TickRow(s, m)
<1>1. PICK cells : cells = TickRow(s, m)
  OBVIOUS
<1>2. cells = [i \in 1..18 |-> cells[i]]
  BY <1>1, TickRowCells
<1>3. PICK S : S = {cells[i] : i \in 1..18}
  OBVIOUS
<1>4. cells \in [1..18 -> S]
  BY <1>2, <1>3
<1>5. cells \in Seq(S)
  BY <1>4, FunctionIsSeq
<1>6. cells \o <<>> = cells
  BY <1>5
<1> QED
  BY <1>1, <1>6

-----------------------------------------------------------------------------
\* What a row of the table holds, as long as an older build's table was not
\* migrated and afterwards.
RowHolds(row) ==
  /\ row.sample \in Samples
  /\ columns = OldColumns =>
       row.sample.metrics = Null /\ row.cells = SubSeq(TickRow(row.sample.state, Null), 1, 15)
  /\ columns = Columns => row.cells = TickRow(row.sample.state, row.sample.metrics)

\* The table at every step.
FeaturesInv ==
  /\ columns \in {<<>>, OldColumns, Columns}
  /\ started \in BOOLEAN
  /\ started => columns = Columns
  /\ columns = <<>> => table = <<>>
  /\ DOMAIN table = 1..Len(table) /\ Len(table) \in Nat
  /\ \A i \in 1..Len(table) :
       table[i] = [sample |-> table[i].sample, cells |-> table[i].cells] /\ RowHolds(table[i])


\* A table of an older build, or none.
LEMMA FeaturesInitially == FeatInit => FeaturesInv
<1> SUFFICES ASSUME FeatInit PROVE FeaturesInv
  OBVIOUS
<1>1. columns # Columns
  <2>1. /\ Len(Columns) = 18 /\ Len(OldColumns) = 15 /\ Len(<<>>) = 0
        /\ 0 # 18 /\ 15 # 18
    BY ColumnsDiffer, OldColumnsAre
  <2>2. CASE columns = <<>>
    BY <2>1, <2>2, Zenon
  <2>3. CASE columns = OldColumns
    BY <2>1, <2>3, Zenon
  <2> QED
    BY <2>2, <2>3 DEF FeatInit
<1>2. table = <<>> /\ Len(table) = 0 /\ DOMAIN table = 1..0 /\ started = FALSE
  BY DEF FeatInit
<1>3. columns \in {<<>>, OldColumns, Columns}
  BY DEF FeatInit
<1>4. ~(\E i \in 1..Len(table) : TRUE) /\ DOMAIN table = 1..Len(table) /\ Len(table) \in Nat
  BY <1>2
<1> QED
  BY <1>2, <1>3, <1>4 DEF FeaturesInv

\* A row that goes to the end of the table.
LEMMA InsertKeeps ==
  ASSUME FeaturesInv, UNCHANGED <<columns, started>>, columns # <<>>,
         NEW sample, NEW cells, Insert(sample, cells),
         RowHolds([sample |-> sample, cells |-> cells])
  PROVE  FeaturesInv'
<1> DEFINE row == [sample |-> sample, cells |-> cells]
<1>1. table' = Append(table, row)
  BY DEF Insert
<1>2. /\ DOMAIN table = 1..Len(table) /\ Len(table) \in Nat
      /\ \A i \in 1..Len(table) :
           table[i] = [sample |-> table[i].sample, cells |-> table[i].cells] /\ RowHolds(table[i])
  BY DEF FeaturesInv
<1>3. /\ DOMAIN table' = 1..(Len(table) + 1) /\ Len(table') = Len(table) + 1
      /\ \A i \in 1..Len(table) : table'[i] = table[i]
      /\ table'[Len(table) + 1] = row
  BY <1>1, <1>2
<1>4. ASSUME NEW i \in 1..Len(table')
      PROVE  /\ table'[i] = [sample |-> table'[i].sample, cells |-> table'[i].cells]
             /\ RowHolds(table'[i])
  <2>1. CASE i \in 1..Len(table)
    BY <1>2, <1>3, <2>1
  <2>2. CASE i = Len(table) + 1
    <3>1. table'[i] = row /\ row = [sample |-> row.sample, cells |-> row.cells] /\ RowHolds(row)
      BY <1>3, <2>2
    <3> HIDE DEF row
    <3> QED
      BY <3>1
  <2> QED
    BY <1>2, <1>3, <2>1, <2>2
<1>5. ASSUME NEW row_, RowHolds(row_) PROVE RowHolds(row_)'
  BY <1>5 DEF RowHolds, OldColumns, Columns, TickRow
<1> QED
  BY <1>2, <1>3, <1>4, <1>5 DEF FeaturesInv


\* The older build writes a row.
LEMMA OldRowKeeps ==
  ASSUME FeaturesInv, OldBuildWrites
  PROVE  FeaturesInv'
<1>1. PICK sample \in Samples :
        /\ sample.metrics = Null
        /\ Insert(sample, SubSeq(TickRow(sample.state, Null), 1, Len(OldColumns)))
  BY DEF OldBuildWrites
<1>2. Len(OldColumns) = 15 /\ Len(Columns) = 18 /\ 15 # 18
  BY ColumnsDiffer, OldColumnsAre
<1>3. columns = OldColumns /\ UNCHANGED <<columns, started>>
  BY DEF OldBuildWrites
<1>4. columns # Columns
  BY <1>2, <1>3, Zenon
<1>5. columns # <<>>
  <2>1. Len(<<>>) = 0 /\ 0 # 15
    OBVIOUS
  <2> QED
    BY <1>2, <1>3, <2>1, Zenon
<1>6. PICK cells : cells = SubSeq(TickRow(sample.state, Null), 1, 15)
  OBVIOUS
<1>7. Insert(sample, cells)
  BY <1>1, <1>2, <1>6
<1>8. RowHolds([sample |-> sample, cells |-> cells])
  BY <1>1, <1>4, <1>6 DEF RowHolds
<1> QED
  BY <1>3, <1>5, <1>7, <1>8, InsertKeeps

\* This build writes one.
LEMMA WriteTickKeeps ==
  ASSUME FeaturesInv, WriteTick
  PROVE  FeaturesInv'
<1>1. PICK sample \in Samples : Insert(sample, TickRow(sample.state, sample.metrics))
  BY DEF WriteTick
<1>2. Len(OldColumns) = 15 /\ Len(Columns) = 18 /\ 15 # 18
  BY ColumnsDiffer, OldColumnsAre
<1>3. columns = Columns /\ UNCHANGED <<columns, started>>
  BY DEF WriteTick, FeaturesInv
<1>4. columns # OldColumns
  BY <1>2, <1>3, Zenon
<1>5. columns # <<>>
  <2>1. Len(<<>>) = 0 /\ 0 # 18
    OBVIOUS
  <2> QED
    BY <1>2, <1>3, <2>1, Zenon
<1>6. PICK cells : cells = TickRow(sample.state, sample.metrics)
  OBVIOUS
<1>7. RowHolds([sample |-> sample, cells |-> cells])
  BY <1>4, <1>6 DEF RowHolds
<1> QED
  BY <1>1, <1>3, <1>5, <1>6, <1>7, InsertKeeps

\* start() with its migration.
LEMMA StartKeeps ==
  ASSUME FeaturesInv, Start
  PROVE  FeaturesInv'
<1>1. /\ columns' = Columns /\ started' = TRUE
      /\ columns = OldColumns => Len(Missing) = 3
      /\ columns = Columns => Len(Missing) = 0
  BY MigratedColumns DEF Start, FeaturesInv
<1>2. PICK zeros : zeros = [j \in 1..Len(Missing) |-> 0]
  OBVIOUS
<1>3. table' = [i \in 1..Len(table) |-> [table[i] EXCEPT !.cells = @ \o zeros]]
  BY <1>2 DEF Start
<1>4. /\ columns \in {<<>>, OldColumns, Columns} /\ (columns = <<>> => table = <<>>)
      /\ DOMAIN table = 1..Len(table) /\ Len(table) \in Nat
      /\ \A i \in 1..Len(table) :
           table[i] = [sample |-> table[i].sample, cells |-> table[i].cells] /\ RowHolds(table[i])
  BY DEF FeaturesInv
<1>5. DOMAIN table' = 1..Len(table) /\ Len(table') = Len(table)
  BY <1>3, <1>4
<1>6. ASSUME NEW i \in 1..Len(table)
      PROVE  /\ table'[i] = [sample |-> table'[i].sample, cells |-> table'[i].cells]
             /\ RowHolds(table[i])'
  <2>1. PICK row : row = table[i]
    OBVIOUS
  <2>2. row = [sample |-> row.sample, cells |-> row.cells] /\ RowHolds(row)
    BY <1>4, <2>1
  <2>3. table'[i] = [row EXCEPT !.cells = @ \o zeros]
    BY <1>3, <2>1
  <2>4. table'[i] = [sample |-> row.sample, cells |-> row.cells \o zeros]
    BY <2>2, <2>3
  <2>5. columns # <<>>
    BY <1>4
  <2>6. row.cells \o zeros = TickRow(row.sample.state, row.sample.metrics)
    <3>1. CASE columns = OldColumns
      <4>1. zeros = [j \in 1..3 |-> 0]
        BY <1>1, <1>2, <3>1
      <4> QED
        BY <2>2, <3>1, <4>1, MigratedRow DEF RowHolds
    <3>2. CASE columns = Columns
      <4>1. zeros = <<>>
        BY <1>1, <1>2, <3>2
      <4> QED
        BY <2>2, <3>2, <4>1, NothingAdded DEF RowHolds
    <3> QED
      BY <1>4, <2>5, <3>1, <3>2
  <2>7. Columns # OldColumns
    <3>1. Len(OldColumns) = 15 /\ Len(Columns) = 18 /\ 15 # 18
      BY ColumnsDiffer, OldColumnsAre
    <3> QED
      BY <3>1, Zenon
  <2> DEFINE new == [sample |-> row.sample, cells |-> TickRow(row.sample.state, row.sample.metrics)]
  <2>8. table'[i] = new
    BY <2>4, <2>6
  <2>9. RowHolds(new)'
    BY <1>1, <2>2, <2>7 DEF RowHolds, OldColumns, Columns, TickRow
  <2>10. RowHolds(table[i])'
    <3> HIDE DEF new
    <3> QED
      BY <2>8, <2>9 DEF RowHolds
  <2> QED
    BY <2>8, <2>10
<1>7. Columns # <<>>
  <2>1. Len(Columns) = 18 /\ Len(<<>>) = 0 /\ 0 # 18
    BY ColumnsDiffer
  <2> QED
    BY <2>1, Zenon
<1>8. started' \in BOOLEAN /\ columns' \in {<<>>, OldColumns, Columns} /\ columns' # <<>>
  BY <1>1, <1>7
<1> QED
  BY <1>1, <1>4, <1>5, <1>6, <1>8 DEF FeaturesInv

\* No step on the table, and a sink that may close.
LEMMA RowsStay ==
  ASSUME FeaturesInv, UNCHANGED <<columns, table>>, started' \in {FALSE, started}
  PROVE  FeaturesInv'
<1>1. ASSUME NEW row, RowHolds(row) PROVE RowHolds(row)'
  BY <1>1 DEF RowHolds, OldColumns, Columns, TickRow
<1>2. ASSUME NEW i \in 1..Len(table)
      PROVE  /\ table'[i] = [sample |-> table'[i].sample, cells |-> table'[i].cells]
             /\ RowHolds(table[i])'
  <2>1. PICK row : row = table[i]
    OBVIOUS
  <2>2. row = [sample |-> row.sample, cells |-> row.cells] /\ RowHolds(row)
    BY <2>1 DEF FeaturesInv
  <2>3. RowHolds(row)'
    BY <1>1, <2>2
  <2>4. table'[i] = row
    BY <2>1
  <2> QED
    BY <2>2, <2>3, <2>4 DEF RowHolds
<1>3. /\ columns' \in {<<>>, OldColumns, Columns} /\ started' \in BOOLEAN
      /\ started' => columns' = Columns
      /\ columns' = <<>> => table' = <<>>
      /\ DOMAIN table' = 1..Len(table') /\ Len(table') \in Nat /\ Len(table') = Len(table)
  <2>1. /\ columns \in {<<>>, OldColumns, Columns} /\ started \in BOOLEAN
        /\ started => columns = Columns
        /\ columns = <<>> => table = <<>>
        /\ DOMAIN table = 1..Len(table) /\ Len(table) \in Nat
    BY DEF FeaturesInv
  <2>2. columns' = columns /\ table' = table /\ (started' = FALSE \/ started' = started)
    OBVIOUS
  <2>3. started' \in BOOLEAN /\ (started' => columns' = Columns)
    <3>1. CASE started' = FALSE
      BY <3>1, Zenon
    <3>2. CASE started' = started
      BY <2>1, <2>2, <3>2, Zenon
    <3> QED
      BY <2>2, <3>1, <3>2
  <2>4. /\ columns' \in {<<>>, OldColumns, Columns} /\ (columns' = <<>> => table' = <<>>)
        /\ DOMAIN table' = 1..Len(table') /\ Len(table') \in Nat /\ Len(table') = Len(table)
    BY <2>1, <2>2, Zenon
  <2> QED
    BY <2>3, <2>4
<1> QED
  BY <1>2, <1>3 DEF FeaturesInv


(***************************************************************************)
(* Every row of `ticks` holds the cells of _tick_row of its sample, in the *)
(* columns of this build once a sink of this build has started.            *)
(***************************************************************************)
THEOREM FeaturesInvariant == FeatSpec => []FeaturesInv
<1>1. FeaturesInv /\ [FeatNext]_featVars => FeaturesInv'
  <2> SUFFICES ASSUME FeaturesInv, [FeatNext]_featVars PROVE FeaturesInv'
    OBVIOUS
  <2>1. CASE OldBuildWrites
    BY <2>1, OldRowKeeps
  <2>2. CASE Start
    BY <2>2, StartKeeps
  <2>3. CASE StopSink
    BY <2>3, RowsStay DEF StopSink
  <2>4. CASE WriteTick
    BY <2>4, WriteTickKeeps
  <2>5. CASE UNCHANGED featVars
    BY <2>5, RowsStay DEF featVars
  <2> QED
    BY <2>1, <2>2, <2>3, <2>4, <2>5 DEF FeatNext
<1> QED
  BY <1>1, FeaturesInitially, PTL DEF FeatSpec

(***************************************************************************)
(* Training reads back what serving computed, for every stored row, and    *)
(* the features are bounded and symmetric in the sides.                    *)
(***************************************************************************)
THEOREM FeatureContractHolds == FeatSpec => []FeatureContract
<1>1. FeaturesInv => FeatureContract
  <2> SUFFICES ASSUME FeaturesInv, NEW i \in 1..Len(table)
               PROVE  LET s == table[i].sample.state
                          m == table[i].sample.metrics
                      IN /\ started => \A j \in 1..15 :
                              Same(Offline(Named(table[i].cells))[j], Extract(s, m)[j])
                         /\ Bounded(s, m) /\ Mirrored(s, m)
    BY DEF FeatureContract
  <2>1. PICK sample : sample = table[i].sample
    OBVIOUS
  <2>2. sample \in Samples
    BY <2>1 DEF FeaturesInv, RowHolds
  <2>3. ASSUME started, NEW j \in 1..15
        PROVE  Same(Offline(Named(table[i].cells))[j], Extract(sample.state, sample.metrics)[j])
    <3>1. columns = Columns /\ table[i].cells = TickRow(sample.state, sample.metrics)
      BY <2>1, <2>3 DEF FeaturesInv, RowHolds
    <3>2. StoredAs(Named(table[i].cells), sample.state, sample.metrics)
      BY <3>1, NamedTickRow
    <3> QED
      BY <2>2, <3>2, PathsAgree
  <2>4. Bounded(sample.state, sample.metrics) /\ Mirrored(sample.state, sample.metrics)
    BY <2>2, FeaturesBounded, FeaturesMirrored
  <2> QED
    BY <2>1, <2>3, <2>4
<1> QED
  BY <1>1, FeaturesInvariant, PTL

-----------------------------------------------------------------------------
(***************************************************************************)
(* The numbers that scores and reports are made of: sets and sequences in  *)
(* order, and running sums (Numbers).                                      *)
(***************************************************************************)
\* A sequence of elements of a set is one of elements of a larger set.
LEMMA WiderSeq ==
  ASSUME NEW S, NEW T, S \subseteq T, NEW s \in Seq(S)
  PROVE  s \in Seq(T)
<1>1. \A i \in 1..Len(s) : s[i] \in T
  OBVIOUS
<1>2. Len(s) \in Nat /\ s = [i \in 1..Len(s) |-> s[i]]
  BY SeqIsFunction
<1>3. s \in [1..Len(s) -> T]
  BY <1>1, <1>2
<1> QED
  BY <1>2, <1>3, FunctionIsSeq

\* The first n numbers.
LEMMA FirstNumbers ==
  ASSUME NEW n \in Nat
  PROVE  IsFiniteSet(1..n) /\ Cardinality(1..n) = n
<1>1. IsFiniteSet(1..n) /\ Cardinality(1..n) = IF 1 > n THEN 0 ELSE n - 1 + 1
  BY 1 \in Int, n \in Int, FS_Interval, Zenon
<1> QED
  BY <1>1

\* No two things of S have one place; every place of T is of something in S.
OneToOne(f, S) == \A i, j \in S : f[i] = f[j] => i = j
Onto(f, S, T) == \A k \in T : \E i \in S : f[i] = k

\* What gives each thing of a finite set one of as many places, and no two the
\* same, gives every place.
LEMMA PlacesTaken ==
  ASSUME NEW S, NEW T, IsFiniteSet(T), IsFiniteSet(S), Cardinality(T) = Cardinality(S),
         NEW place \in [S -> T], OneToOne(place, S)
  PROVE  Onto(place, S, T)
<1>1. place \in Injection(S, T)
  BY DEF Injection, IsInjective, OneToOne
<1>2. place \in Surjection(S, T)
  BY <1>1, FS_Injection
<1> QED
  BY <1>2 DEF Surjection, Onto

\* Counting up to an element: less for what comes first.
LEMMA CountsUpTo ==
  ASSUME NEW S, IsFiniteSet(S), NEW small \in SUBSET S, NEW large \in SUBSET S,
         small \subseteq large, NEW x \in large, x \notin small
  PROVE  /\ Cardinality(small) \in Nat /\ Cardinality(large) \in Nat
         /\ Cardinality(small) < Cardinality(large)
         /\ Cardinality(large) <= Cardinality(S)
         /\ 1 <= Cardinality(large)
<1>1. IsFiniteSet(small) /\ IsFiniteSet(large)
  BY FS_Subset
<1>2. Cardinality(small) \in Nat /\ Cardinality(large) \in Nat /\ Cardinality(S) \in Nat
  BY <1>1, FS_CardinalityType
<1>3. Cardinality(large) <= Cardinality(S)
  BY FS_Subset
<1>4. Cardinality(small) <= Cardinality(large) /\ Cardinality(small) # Cardinality(large)
  <2>1. small # large
    OBVIOUS
  <2> QED
    BY <1>1, <2>1, FS_Subset
<1> QED
  BY <1>2, <1>3, <1>4

\* A sequence has the numbers of a set, ascending.
Enumerates(q, S) ==
  /\ Len(q) = Cardinality(S)
  /\ \A k \in 1..Cardinality(S) : q[k] \in S
  /\ \A i \in S : \E k \in 1..Cardinality(S) : q[k] = i
  /\ \A k, l \in 1..Cardinality(S) : k < l => q[k] < q[l]

\* InOrder enumerates a set of numbers.
LEMMA InOrderEnumerates ==
  ASSUME NEW S, S \subseteq Int, IsFiniteSet(S)
  PROVE  Cardinality(S) \in Nat /\ Enumerates(InOrder(S), S)
<1>0. PICK n : n = Cardinality(S)
  OBVIOUS
<1> DEFINE UpTo(i) == {j \in S : j <= i}
<1>1. n \in Nat
  BY <1>0, FS_CardinalityType
<1>2. PICK place : place = [i \in S |-> Cardinality(UpTo(i))]
  OBVIOUS
<1>3. ASSUME NEW i \in S PROVE UpTo(i) \in SUBSET S /\ i \in UpTo(i)
  OBVIOUS
<1>4. ASSUME NEW i \in S, NEW j \in S, i < j PROVE place[i] < place[j]
  <2>1. UpTo(i) \subseteq UpTo(j)
    <3> SUFFICES ASSUME NEW k \in S, k <= i PROVE k <= j
      OBVIOUS
    <3>1. k \in Int /\ i \in Int /\ j \in Int
      OBVIOUS
    <3> QED
      BY <1>4, <3>1
  <2>2. j \notin UpTo(i)
    <3>1. i \in Int /\ j \in Int
      OBVIOUS
    <3> QED
      BY <1>4, <3>1
  <2> HIDE DEF UpTo
  <2> QED
    BY <1>2, <1>3, <2>1, <2>2, CountsUpTo
<1>5. place \in [S -> 1..n]
  <2> SUFFICES ASSUME NEW i \in S PROVE Cardinality(UpTo(i)) \in 1..n
    BY <1>2
  <2>1. PICK none : none = {}
    OBVIOUS
  <2>2. none \in SUBSET S /\ none \subseteq UpTo(i) /\ i \notin none
    BY <2>1
  <2> HIDE DEF UpTo
  <2>3. UpTo(i) \in SUBSET S /\ i \in UpTo(i)
    BY <1>3
  <2>4. /\ Cardinality(UpTo(i)) \in Nat /\ Cardinality(UpTo(i)) <= Cardinality(S)
        /\ 1 <= Cardinality(UpTo(i))
    BY <2>2, <2>3, CountsUpTo
  <2> QED
    BY <1>0, <1>1, <2>4
<1>6. \A i, j \in S : place[i] = place[j] => i = j
  <2> SUFFICES ASSUME NEW i \in S, NEW j \in S, place[i] = place[j], i # j PROVE FALSE
    OBVIOUS
  <2>1. i < j \/ j < i
    OBVIOUS
  <2>2. place[i] \in Int /\ place[j] \in Int
    BY <1>1, <1>5
  <2>3. place[i] < place[j] \/ place[j] < place[i]
    BY <1>4, <2>1
  <2> QED
    BY <2>2, <2>3
<1>7. \A k \in 1..n : \E i \in S : place[i] = k
  <2>1. PICK T : T = 1..n
    OBVIOUS
  <2>2. IsFiniteSet(T) /\ Cardinality(T) = Cardinality(S) /\ place \in [S -> T]
    BY <1>0, <1>1, <1>5, <2>1, FirstNumbers
  <2>3. OneToOne(place, S)
    BY <1>6 DEF OneToOne
  <2>4. Onto(place, S, T)
    BY <2>2, <2>3, PlacesTaken
  <2> QED
    BY <2>1, <2>4 DEF Onto
<1>8. InOrder(S) = [k \in 1..n |-> CHOOSE i \in S : place[i] = k]
  <2>1. InOrder(S) = [k \in 1..n |-> CHOOSE i \in S : Cardinality(UpTo(i)) = k]
    BY <1>0 DEF InOrder
  <2> HIDE DEF UpTo
  <2> QED
    BY <1>2, <2>1
<1>9. \A k \in 1..n : InOrder(S)[k] \in S
  BY <1>7, <1>8
<1>10. ASSUME NEW i \in S PROVE place[i] \in 1..n /\ InOrder(S)[place[i]] = i
  <2>1. place[i] \in 1..n
    BY <1>5
  <2>2. (CHOOSE j \in S : place[j] = place[i]) = i
    BY <1>6
  <2>3. InOrder(S)[place[i]] = CHOOSE j \in S : place[j] = place[i]
    BY <1>8, <2>1
  <2> QED
    BY <2>1, <2>2, <2>3
<1>11. Len(InOrder(S)) = n
  BY <1>1, <1>8
<1>12. ASSUME NEW k \in 1..n, NEW l \in 1..n, k < l PROVE InOrder(S)[k] < InOrder(S)[l]
  <2>1. PICK i, j : i = InOrder(S)[k] /\ j = InOrder(S)[l]
    OBVIOUS
  <2>2. i \in S /\ j \in S /\ place[i] = k /\ place[j] = l
    BY <1>7, <1>8, <2>1
  <2>3. i \in Int /\ j \in Int
    BY <2>2
  <2>4. i # j /\ ~(j < i)
    BY <1>4, <1>12, <2>2
  <2> QED
    BY <2>1, <2>3, <2>4
<1> QED
  BY <1>1, <1>9, <1>10, <1>11, <1>12, <1>0 DEF Enumerates

-----------------------------------------------------------------------------
\* The elements of a sequence up to the one at i, as sorted() places them.
UpTo(seq, i) ==
  {j \in 1..Len(seq) : seq[j] < seq[i] \/ (seq[j] = seq[i] /\ j <= i)}

\* The elements less than the one at i, and those no greater.
Lesser(seq, i) == {j \in 1..Len(seq) : seq[j] < seq[i]}
NotGreater(seq, i) == {j \in 1..Len(seq) : seq[j] <= seq[i]}

\* The element at i is the k-th in order.
Placed(seq, k, i) ==
  i \in 1..Len(seq) /\ Cardinality(UpTo(seq, i)) = k /\ Sorted(seq)[k] = seq[i]

\* More elements are up to what sorts later.
LEMMA UpToGrows ==
  ASSUME NEW seq \in Seq(Int), NEW i \in 1..Len(seq), NEW j \in 1..Len(seq),
         seq[i] < seq[j] \/ (seq[i] = seq[j] /\ i < j)
  PROVE  Cardinality(UpTo(seq, i)) < Cardinality(UpTo(seq, j))
<1>1. IsFiniteSet(1..Len(seq))
  BY FirstNumbers
<1>2. UpTo(seq, i) \in SUBSET (1..Len(seq)) /\ UpTo(seq, j) \in SUBSET (1..Len(seq))
  BY DEF UpTo
<1>3. seq[i] \in Int /\ seq[j] \in Int /\ i \in Nat /\ j \in Nat
  OBVIOUS
<1>4. ASSUME NEW k \in UpTo(seq, i) PROVE k \in UpTo(seq, j)
  <2>1. k \in 1..Len(seq) /\ (seq[k] < seq[i] \/ (seq[k] = seq[i] /\ k <= i))
    BY DEF UpTo
  <2>2. seq[k] \in Int /\ k \in Nat
    BY <2>1
  <2>3. seq[k] < seq[j] \/ (seq[k] = seq[j] /\ k <= j)
    BY <1>3, <2>1, <2>2
  <2> QED
    BY <2>1, <2>3 DEF UpTo
<1>5. j \in UpTo(seq, j) /\ j \notin UpTo(seq, i)
  BY <1>3 DEF UpTo
<1>6. UpTo(seq, i) \subseteq UpTo(seq, j)
  BY <1>4
<1> QED
  BY <1>1, <1>2, <1>5, <1>6, CountsUpTo

\* Every place of the sorted sequence holds one of its elements, and every
\* element has a place.
LEMMA SortedPlaces ==
  ASSUME NEW seq \in Seq(Int)
  PROVE  /\ Len(Sorted(seq)) = Len(seq)
         /\ \A k \in 1..Len(seq) : \E i \in 1..Len(seq) : Placed(seq, k, i)
         /\ \A i \in 1..Len(seq) : \E k \in 1..Len(seq) : Sorted(seq)[k] = seq[i]
<1>0. PICK S : S = 1..Len(seq)
  OBVIOUS
<1>1. PICK place : place = [i \in S |-> Cardinality(UpTo(seq, i))]
  OBVIOUS
<1>2. IsFiniteSet(S) /\ Cardinality(S) = Len(seq)
  BY <1>0, FirstNumbers
<1>3. ASSUME NEW i \in S PROVE Cardinality(UpTo(seq, i)) \in S
  <2>1. PICK none : none = {}
    OBVIOUS
  <2>2. UpTo(seq, i) \in SUBSET S /\ i \in UpTo(seq, i)
    BY <1>0 DEF UpTo
  <2>3. none \in SUBSET S /\ none \subseteq UpTo(seq, i) /\ i \notin none
    BY <2>1
  <2>4. /\ Cardinality(UpTo(seq, i)) \in Nat /\ Cardinality(UpTo(seq, i)) <= Cardinality(S)
        /\ 1 <= Cardinality(UpTo(seq, i))
    BY <1>2, <2>2, <2>3, CountsUpTo
  <2> QED
    BY <1>0, <1>2, <2>4
<1>4. place \in [S -> S]
  BY <1>1, <1>3
<1>5. OneToOne(place, S)
  <2> SUFFICES ASSUME NEW i \in S, NEW j \in S, place[i] = place[j], i # j PROVE FALSE
    BY DEF OneToOne
  <2>1. seq[i] \in Int /\ seq[j] \in Int /\ i \in Nat /\ j \in Nat
    BY <1>0
  <2>2. \/ seq[i] < seq[j] \/ (seq[i] = seq[j] /\ i < j)
        \/ seq[j] < seq[i] \/ (seq[j] = seq[i] /\ j < i)
    BY <2>1
  <2>3. place[i] < place[j] \/ place[j] < place[i]
    BY <1>0, <1>1, <2>2, UpToGrows
  <2>4. place[i] \in Int /\ place[j] \in Int
    BY <1>0, <1>4
  <2> QED
    BY <2>3, <2>4
<1>6. Onto(place, S, S)
  BY <1>2, <1>4, <1>5, PlacesTaken
<1> DEFINE Chosen(k) == CHOOSE i \in 1..Len(seq) : Cardinality(UpTo(seq, i)) = k
<1>7. Sorted(seq) = [k \in 1..Len(seq) |-> seq[Chosen(k)]]
  BY DEF Sorted, UpTo
<1>8. ASSUME NEW k \in 1..Len(seq) PROVE \E i \in 1..Len(seq) : Placed(seq, k, i)
  <2>1. PICK i \in S : place[i] = k
    BY <1>0, <1>6 DEF Onto
  <2>2. i \in 1..Len(seq) /\ Cardinality(UpTo(seq, i)) = k
    BY <1>0, <1>1, <2>1
  <2>3. Chosen(k) \in 1..Len(seq) /\ Cardinality(UpTo(seq, Chosen(k))) = k
    BY <2>2
  <2> HIDE DEF Chosen
  <2>4. Sorted(seq)[k] = seq[Chosen(k)]
    BY <1>7
  <2> QED
    BY <2>3, <2>4 DEF Placed
<1>9. Len(Sorted(seq)) = Len(seq)
  <2> HIDE DEF Chosen
  <2> QED
    BY <1>7
<1>10. ASSUME NEW i \in 1..Len(seq) PROVE \E k \in 1..Len(seq) : Sorted(seq)[k] = seq[i]
  <2>1. PICK k : k = place[i]
    OBVIOUS
  <2>2. k \in 1..Len(seq) /\ Cardinality(UpTo(seq, i)) = k
    BY <1>0, <1>1, <1>4, <2>1
  <2>3. Chosen(k) \in 1..Len(seq) /\ Cardinality(UpTo(seq, Chosen(k))) = k
    BY <2>2
  <2> HIDE DEF Chosen
  <2>4. place[Chosen(k)] = place[i]
    BY <1>0, <1>1, <2>1, <2>3
  <2>5. Chosen(k) = i
    BY <1>0, <1>5, <2>3, <2>4 DEF OneToOne
  <2> QED
    BY <1>7, <2>2, <2>5
<1> QED
  BY <1>8, <1>9, <1>10

\* Fewer than k elements lie below the k-th, and at least k no higher.
LEMMA PlacedCounts ==
  ASSUME NEW seq \in Seq(Int), NEW k \in 1..Len(seq), NEW i, Placed(seq, k, i)
  PROVE  /\ Cardinality(Lesser(seq, i)) \in Nat /\ Cardinality(NotGreater(seq, i)) \in Nat
         /\ Cardinality(Lesser(seq, i)) < k
         /\ k <= Cardinality(NotGreater(seq, i))
<1>1. i \in 1..Len(seq) /\ Cardinality(UpTo(seq, i)) = k
  BY DEF Placed
<1>2. seq[i] \in Int
  BY <1>1
<1>3. IsFiniteSet(1..Len(seq))
  BY FirstNumbers
<1>4. /\ Lesser(seq, i) \in SUBSET (1..Len(seq)) /\ UpTo(seq, i) \in SUBSET (1..Len(seq))
      /\ NotGreater(seq, i) \in SUBSET (1..Len(seq))
  BY DEF Lesser, UpTo, NotGreater
<1>5. Lesser(seq, i) \subseteq UpTo(seq, i)
  BY DEF Lesser, UpTo
<1>6. i \in UpTo(seq, i) /\ i \notin Lesser(seq, i)
  BY <1>1, <1>2 DEF Lesser, UpTo
<1>7. /\ Cardinality(Lesser(seq, i)) \in Nat
      /\ Cardinality(Lesser(seq, i)) < Cardinality(UpTo(seq, i))
  <2>1. PICK S, small, large :
          S = 1..Len(seq) /\ small = Lesser(seq, i) /\ large = UpTo(seq, i)
    OBVIOUS
  <2>2. /\ IsFiniteSet(S) /\ small \in SUBSET S /\ large \in SUBSET S
        /\ small \subseteq large /\ i \in large /\ i \notin small
    BY <1>3, <1>4, <1>5, <1>6, <2>1
  <2>3. Cardinality(small) \in Nat /\ Cardinality(small) < Cardinality(large)
    BY <2>2, CountsUpTo
  <2> QED
    BY <2>1, <2>3
<1>8. UpTo(seq, i) \subseteq NotGreater(seq, i)
  <2> SUFFICES ASSUME NEW j \in UpTo(seq, i) PROVE j \in NotGreater(seq, i)
    OBVIOUS
  <2>1. j \in 1..Len(seq) /\ (seq[j] < seq[i] \/ seq[j] = seq[i])
    BY DEF UpTo
  <2>2. seq[j] \in Int
    BY <2>1
  <2> QED
    BY <1>2, <2>1, <2>2 DEF NotGreater
<1>9. IsFiniteSet(NotGreater(seq, i))
  BY <1>3, <1>4, FS_Subset
<1>10. /\ Cardinality(NotGreater(seq, i)) \in Nat
       /\ Cardinality(UpTo(seq, i)) <= Cardinality(NotGreater(seq, i))
  BY <1>8, <1>9, FS_Subset, FS_CardinalityType
<1> QED
  BY <1>1, <1>7, <1>10

\* sorted() ascends.
LEMMA SortedAscends ==
  ASSUME NEW seq \in Seq(Int), NEW k \in 1..Len(seq), NEW l \in 1..Len(seq), k <= l
  PROVE  Sorted(seq)[k] <= Sorted(seq)[l]
<1>1. PICK i \in 1..Len(seq) : Placed(seq, k, i)
  BY SortedPlaces
<1>2. PICK j \in 1..Len(seq) : Placed(seq, l, j)
  BY SortedPlaces
<1>3. seq[i] \in Int /\ seq[j] \in Int
  OBVIOUS
<1>4. ~(seq[j] < seq[i])
  <2> SUFFICES ASSUME seq[j] < seq[i] PROVE FALSE
    OBVIOUS
  <2>1. Cardinality(UpTo(seq, j)) < Cardinality(UpTo(seq, i))
    BY UpToGrows
  <2>2. l < k
    BY <1>1, <1>2, <2>1 DEF Placed
  <2> QED
    BY <2>2
<1> QED
  BY <1>1, <1>2, <1>3, <1>4 DEF Placed

\* A set of natural numbers has a least.
LEMMA LeastOf ==
  ASSUME NEW S, S \subseteq Nat, S # {}
  PROVE  \E m \in S : \A x \in S : m <= x
<1>1. PICK d \in S : \A e \in S : ~ (<<e, d>> \in OpToRel(<, Nat))
  BY WFMin, NatLessThanWellFounded
<1>2. ASSUME NEW x \in S PROVE d <= x
  <2>1. x \in Nat /\ d \in Nat
    OBVIOUS
  <2>2. ~(x < d)
    BY <1>1, <2>1 DEF OpToRel
  <2> QED
    BY <2>1, <2>2
<1> QED
  BY <1>2

\* The recursion of a running sum has a solution, so that Sums obeys it.
Summed(g, f, n) ==
  /\ g = [k \in 0..n |-> g[k]]
  /\ \A k \in 0..n : g[k] = IF k = 0 THEN 0 ELSE g[k - 1] + f[k]

\* There is a running sum.
LEMMA SumsExist ==
  ASSUME NEW f, NEW n \in Nat
  PROVE  \E g : Summed(g, f, n)
<1>1. PICK S : S = {k \in Nat : ~ \E g : Summed(g, f, k)}
  OBVIOUS
<1>2. SUFFICES ASSUME S # {} PROVE FALSE
  BY <1>1
<1>3. PICK m \in S : \A x \in S : m <= x
  BY <1>1, <1>2, LeastOf
<1>4. m \in Nat /\ ~ \E g : Summed(g, f, m)
  BY <1>1, <1>3
<1>5. CASE m = 0
  <2>1. Summed([k \in 0..0 |-> 0], f, 0)
    BY DEF Summed
  <2> QED
    BY <1>4, <1>5, <2>1
<1>6. CASE m > 0
  <2>1. m - 1 \in Nat /\ m - 1 \notin S
    BY <1>3, <1>4, <1>6
  <2>2. PICK g : Summed(g, f, m - 1)
    BY <1>1, <2>1
  <2>3. PICK h : h = [k \in 0..m |-> IF k = m THEN g[m - 1] + f[m] ELSE g[k]]
    OBVIOUS
  <2>4. ASSUME NEW k \in 0..m PROVE h[k] = IF k = 0 THEN 0 ELSE h[k - 1] + f[k]
    <3>1. CASE k = m
      <4>1. h[m] = g[m - 1] + f[m] /\ h[m - 1] = g[m - 1]
        BY <1>4, <1>6, <2>3
      <4> QED
        BY <1>4, <1>6, <3>1, <4>1
    <3>2. CASE k # m
      <4>1. k \in 0..(m - 1)
        BY <1>4, <3>2
      <4>2. g[k] = IF k = 0 THEN 0 ELSE g[k - 1] + f[k]
        BY <2>2, <4>1 DEF Summed
      <4>3. h[k] = g[k] /\ (k # 0 => h[k - 1] = g[k - 1])
        BY <1>4, <2>3, <3>2, <4>1
      <4> QED
        BY <4>2, <4>3
    <3> QED
      BY <3>1, <3>2
  <2>5. h = [k \in 0..m |-> h[k]]
    BY <2>3
  <2>6. Summed(h, f, m)
    BY <2>4, <2>5 DEF Summed
  <2> QED
    BY <1>4, <2>6
<1> QED
  BY <1>4, <1>5, <1>6

\* Sums obeys its recursion.
LEMMA SumsObey ==
  ASSUME NEW f, NEW n \in Nat
  PROVE  Summed(Sums(f, n), f, n)
<1>1. PICK g : Summed(g, f, n)
  BY SumsExist
<1>2. g = [k \in 0..n |-> IF k = 0 THEN 0 ELSE g[k - 1] + f[k]]
  BY <1>1 DEF Summed
<1>3. Sums(f, n) = [k \in 0..n |-> IF k = 0 THEN 0 ELSE Sums(f, n)[k - 1] + f[k]]
  BY <1>2 DEF Sums
<1> QED
  BY <1>3 DEF Summed

\* Both sides times the same.
LEMMA Scaled ==
  ASSUME NEW a \in Nat, NEW b \in Nat, NEW c \in Nat, a <= b
  PROVE  a * c <= b * c /\ a * c \in Nat /\ b * c \in Nat
<1>1. PICK d \in Nat : b = a + d
  <2>1. b - a \in Nat /\ b = a + (b - a)
    OBVIOUS
  <2> QED
    BY <2>1
<1>2. b * c = a * c + d * c /\ d * c \in Nat /\ a * c \in Nat
  BY <1>1
<1> QED
  BY <1>2

\* What holds at zero and is handed on holds up to n.
LEMMA Upward ==
  ASSUME NEW n \in Nat, NEW S, 0 \in S, \A k \in 1..n : k - 1 \in S => k \in S
  PROVE  0..n \subseteq S
<1>1. PICK T : T = {k \in 0..n : k \notin S}
  OBVIOUS
<1>2. SUFFICES ASSUME T # {} PROVE FALSE
  BY <1>1
<1>3. PICK m \in T : \A x \in T : m <= x
  <2>1. T \subseteq Nat
    BY <1>1
  <2> QED
    BY <1>2, <2>1, LeastOf
<1>4. m \in 1..n /\ m \notin S
  BY <1>1, <1>3
<1>5. m - 1 \in 0..n /\ ~(m <= m - 1)
  BY <1>4
<1>6. m - 1 \in S
  BY <1>1, <1>3, <1>5
<1> QED
  BY <1>4, <1>6

\* The sums of whole numbers.
Whole(f, n) == \A k \in 1..n : f[k] \in Int

\* A running sum of whole numbers is one, and obeys its recursion.
LEMMA SumsWhole ==
  ASSUME NEW f, NEW n \in Nat, Whole(f, n)
  PROVE  /\ \A k \in 0..n : Sums(f, n)[k] \in Int
         /\ Sums(f, n)[0] = 0
         /\ \A k \in 1..n : Sums(f, n)[k] = Sums(f, n)[k - 1] + f[k]
<1>1. PICK sum : sum = Sums(f, n)
  OBVIOUS
<1>2. sum[0] = 0
  <2>1. 0 \in 0..n
    OBVIOUS
  <2> QED
    BY <1>1, <2>1, SumsObey DEF Summed
<1>3. \A k \in 1..n : sum[k] = sum[k - 1] + f[k]
  <2>1. \A k \in 1..n : k \in 0..n /\ k # 0
    OBVIOUS
  <2> QED
    BY <1>1, <2>1, SumsObey DEF Summed
<1>4. PICK S : S = {k \in 0..n : sum[k] \in Int}
  OBVIOUS
<1>5. 0 \in S
  BY <1>2, <1>4
<1>6. ASSUME NEW k \in 1..n, k - 1 \in S PROVE k \in S
  BY <1>3, <1>4, <1>6 DEF Whole
<1>7. 0..n \subseteq S
  BY <1>5, <1>6, Upward
<1> QED
  BY <1>1, <1>2, <1>3, <1>4, <1>7

\* The sum of zeros.
LEMMA SumsZero ==
  ASSUME NEW f, NEW n \in Nat, \A k \in 1..n : f[k] = 0
  PROVE  Sums(f, n)[n] = 0
<1>1. PICK sum : sum = Sums(f, n)
  OBVIOUS
<1>2. /\ sum[0] = 0
      /\ \A k \in 1..n : sum[k] = sum[k - 1] + f[k]
  BY <1>1, SumsWhole DEF Whole
<1>3. PICK S : S = {k \in 0..n : sum[k] = 0}
  OBVIOUS
<1>4. 0 \in S
  BY <1>2, <1>3
<1>5. ASSUME NEW k \in 1..n, k - 1 \in S PROVE k \in S
  BY <1>2, <1>3, <1>5
<1>6. 0..n \subseteq S
  BY <1>4, <1>5, Upward
<1>7. n \in 0..n
  OBVIOUS
<1> QED
  BY <1>1, <1>3, <1>6, <1>7

\* f counts the parts of a set.
Parts(f, T, part, n) == \A k \in 1..n : f[k] = Cardinality({t \in T : part[t] = k})

\* The counts of the parts add up to the count of the whole.
LEMMA PartsCounted ==
  ASSUME NEW T, IsFiniteSet(T), NEW n \in Nat, NEW part \in [T -> 1..n], NEW f, Parts(f, T, part, n)
  PROVE  /\ \A k \in 1..n : f[k] \in Nat
         /\ Sums(f, n)[n] = Cardinality(T)
<1>1. ASSUME NEW k \in 1..n PROVE f[k] \in Nat
  <2>1. PICK P : P = {t \in T : part[t] = k}
    OBVIOUS
  <2>2. IsFiniteSet(P)
    BY <2>1, FS_Subset
  <2> QED
    BY <2>1, <2>2, FS_CardinalityType DEF Parts
<1>2. PICK sum : sum = Sums(f, n)
  OBVIOUS
<1>3. /\ \A k \in 0..n : sum[k] \in Int
      /\ sum[0] = 0
      /\ \A k \in 1..n : sum[k] = sum[k - 1] + f[k]
  BY <1>1, <1>2, SumsWhole DEF Whole
<1>4. PICK S : S = {k \in 0..n : sum[k] = Cardinality({t \in T : part[t] <= k})}
  OBVIOUS
<1>5. 0 \in S
  <2>1. {t \in T : part[t] <= 0} = {}
    OBVIOUS
  <2> QED
    BY <1>3, <1>4, <2>1, FS_EmptySet
<1>6. ASSUME NEW k \in 1..n, k - 1 \in S PROVE k \in S
  <2>1. PICK A, B, C : /\ A = {t \in T : part[t] <= k - 1} /\ B = {t \in T : part[t] = k}
                       /\ C = {t \in T : part[t] <= k}
    OBVIOUS
  <2>2. C = A \cup B /\ A \cap B = {}
    BY <2>1
  <2>3. IsFiniteSet(A) /\ IsFiniteSet(B)
    BY <2>1, FS_Subset
  <2>4. Cardinality(C) = Cardinality(A) + Cardinality(B)
    <3>1. Cardinality(A \cap B) = 0
      BY <2>2, FS_EmptySet
    <3>2. Cardinality(A \cup B) = Cardinality(A) + Cardinality(B) - Cardinality(A \cap B)
      BY <2>3, FS_Union
    <3>3. Cardinality(A) \in Nat /\ Cardinality(B) \in Nat
      BY <2>3, FS_CardinalityType
    <3> QED
      BY <2>2, <3>1, <3>2, <3>3
  <2>5. sum[k - 1] = Cardinality(A)
    BY <1>4, <1>6, <2>1
  <2>6. f[k] = Cardinality(B)
    BY <2>1 DEF Parts
  <2>7. sum[k] = Cardinality(C)
    BY <1>3, <2>4, <2>5, <2>6
  <2> QED
    BY <1>4, <2>1, <2>7
<1>7. 0..n \subseteq S
  BY <1>5, <1>6, Upward
<1>8. n \in S /\ {t \in T : part[t] <= n} = T
  BY <1>7
<1> QED
  BY <1>1, <1>2, <1>4, <1>8

-----------------------------------------------------------------------------
(***************************************************************************)
(* Scoring.                                                                *)
(***************************************************************************)
\* The part of the statistics that percentile() answers from.
Ranked(seq, percent, value) ==
  /\ 100 * Cardinality({i \in 1..Len(seq) : seq[i] < value}) <= percent * Len(seq)
  /\ 100 * Cardinality({i \in 1..Len(seq) : seq[i] <= value}) >= percent * Len(seq)

\* The place percentile() reads.
Index(percent) ==
  LET n == Len(samples)
      index == (percent * n) \div 100
  IN 1 + (IF n - 1 < index THEN n - 1 ELSE index)

\* A place within one of its share.
WithinShare(percent, place) ==
  /\ place \in 1..Len(samples)
  /\ 100 * (place - 1) <= percent * Len(samples)
  /\ percent * Len(samples) <= 100 * place

\* int(fraction * count), capped, is one.
LEMMA IndexBounds ==
  ASSUME samples \in Seq(Int), samples # <<>>, NEW percent \in {50, 95, 99}
  PROVE  WithinShare(percent, Index(percent))
<1>1. PICK n : n = Len(samples)
  OBVIOUS
<1>2. n \in Nat /\ n > 0
  BY <1>1
<1>3. PICK share : share = percent * n
  OBVIOUS
<1>4. share \in Nat /\ share <= 100 * n
  BY <1>2, <1>3
<1>5. PICK index : index = share \div 100
  OBVIOUS
<1>6. index \in Nat /\ 100 * index <= share /\ share < 100 * index + 100
  BY <1>4, <1>5
<1>7. Index(percent) = 1 + (IF n - 1 < index THEN n - 1 ELSE index)
  BY <1>1, <1>3, <1>5 DEF Index
<1>8. CASE n - 1 < index
  <2>1. Index(percent) = n
    BY <1>2, <1>7, <1>8
  <2>2. 100 * (n - 1) <= share
    BY <1>2, <1>4, <1>6, <1>8
  <2> QED
    BY <1>1, <1>2, <1>3, <1>4, <2>1, <2>2 DEF WithinShare
<1>9. CASE ~(n - 1 < index)
  <2>1. Index(percent) = 1 + index /\ index <= n - 1
    BY <1>2, <1>6, <1>7, <1>9
  <2>2. 100 * ((1 + index) - 1) <= share /\ share <= 100 * (1 + index) /\ 1 + index \in 1..n
    BY <1>2, <1>4, <1>6, <2>1
  <2> QED
    BY <1>1, <1>3, <2>1, <2>2 DEF WithinShare
<1> QED
  BY <1>8, <1>9

\* A percentile has no more than its share of the samples below it and at
\* least its share at or below it.
LEMMA PercentileRanked ==
  ASSUME samples \in Seq(Int), samples # <<>>, NEW percent \in {50, 95, 99}
  PROVE  Ranked(samples, percent, Percentile(percent))
<1>1. PICK k : k = Index(percent)
  OBVIOUS
<1>2. /\ k \in 1..Len(samples) /\ 100 * (k - 1) <= percent * Len(samples)
      /\ percent * Len(samples) <= 100 * k
  <2>1. WithinShare(percent, k)
    BY <1>1, IndexBounds
  <2> QED
    BY <2>1 DEF WithinShare
<1>3. Percentile(percent) = Sorted(samples)[k]
  BY <1>1 DEF Percentile, Index
<1>4. PICK i \in 1..Len(samples) : Placed(samples, k, i)
  BY <1>2, SortedPlaces
<1>5. Percentile(percent) = samples[i]
  BY <1>3, <1>4 DEF Placed
<1>6. /\ Cardinality(Lesser(samples, i)) \in Nat /\ Cardinality(NotGreater(samples, i)) \in Nat
      /\ Cardinality(Lesser(samples, i)) < k
      /\ k <= Cardinality(NotGreater(samples, i))
  BY <1>2, <1>4, PlacedCounts
<1>7. percent * Len(samples) \in Nat
  OBVIOUS
<1>8. /\ 100 * Cardinality(Lesser(samples, i)) <= percent * Len(samples)
      /\ 100 * Cardinality(NotGreater(samples, i)) >= percent * Len(samples)
  BY <1>2, <1>6, <1>7
<1> QED
  BY <1>5, <1>8 DEF Ranked, Lesser, NotGreater

\* p50, p95 and p99 come in order.
LEMMA PercentilesAscend ==
  ASSUME samples \in Seq(Int)
  PROVE  Percentile(50) <= Percentile(95) /\ Percentile(95) <= Percentile(99)
<1>1. CASE samples = <<>>
  BY <1>1 DEF Percentile
<1>2. CASE samples # <<>>
  <2>1. \A p \in {50, 95, 99} : Percentile(p) = Sorted(samples)[Index(p)]
    BY <1>2 DEF Percentile, Index
  <2>2. \A p \in {50, 95, 99} : Index(p) \in 1..Len(samples)
    BY <1>2, IndexBounds DEF WithinShare
  <2>3. Index(50) <= Index(95) /\ Index(95) <= Index(99)
    <3>1. PICK n : n = Len(samples)
      OBVIOUS
    <3>2. n \in Nat /\ n > 0
      BY <1>2, <3>1
    <3> QED
      BY <3>1, <3>2 DEF Index
  <2> QED
    BY <2>1, <2>2, <2>3, SortedAscends
<1> QED
  BY <1>1, <1>2

-----------------------------------------------------------------------------
\* Breakpoints as a calibrator has them.
Breakpoints(points) ==
  /\ points \in Seq((0..Grid) \X (0..Grid))
  /\ \A i, j \in 1..Len(points) : i < j => points[i][1] < points[j][1] /\ points[i][2] <= points[j][2]

\* The segment that np.interp finds x in.
Segment(points, x) ==
  CHOOSE i \in 1..(Len(points) - 1) : points[i][1] <= x /\ x < points[i + 1][1]

\* Strictly between the first breakpoint and the last.
Inside(points, x) ==
  Len(points) >= 2 /\ ~(x <= points[1][1]) /\ ~(x >= points[Len(points)][1])

\* What breakpoints are made of.
LEMMA PointTypes ==
  ASSUME NEW points, Breakpoints(points)
  PROVE  /\ Len(points) \in Nat
         /\ \A i \in 1..Len(points) : points[i][1] \in 0..Grid /\ points[i][2] \in 0..Grid
  BY DEF Breakpoints

\* Between the first breakpoint and the last there is a segment to find.
LEMMA SegmentFound ==
  ASSUME Grid \in Nat, NEW points, Breakpoints(points), NEW x \in 0..Grid, Inside(points, x)
  PROVE  /\ Segment(points, x) \in 1..(Len(points) - 1)
         /\ points[Segment(points, x)][1] <= x /\ x < points[Segment(points, x) + 1][1]
<1> DEFINE S == {i \in 1..Len(points) : points[i][1] <= x}
           n == Len(points)
<1>1. n \in Nat /\ n >= 2
  BY PointTypes DEF Inside
<1>2. 1 \in S /\ n \notin S
  <2>1. points[1][1] \in Nat /\ points[n][1] \in Nat /\ x \in Nat
    BY <1>1, PointTypes
  <2> QED
    BY <1>1, <2>1 DEF Inside
<1>3. S \subseteq Nat /\ S # {} /\ IsFiniteSet(S)
  <2>1. IsFiniteSet(1..n) /\ S \in SUBSET (1..n)
    BY <1>1, FirstNumbers
  <2>2. IsFiniteSet(S)
    BY <2>1, FS_Subset
  <2> QED
    BY <1>1, <1>2, <2>1, <2>2
<1>4. PICK k \in S : \A i \in S : i <= k
  <2> HIDE DEF S
  <2> QED
    BY <1>3, GreatestOfFinite
<1>5. k \in 1..(n - 1)
  <2>1. k \in 1..n /\ k # n
    BY <1>2
  <2> QED
    BY <1>1, <2>1
<1>6. points[k][1] <= x /\ x < points[k + 1][1]
  <2>1. points[k][1] <= x
    BY <1>4
  <2>2. k + 1 \in 1..n
    BY <1>1, <1>5
  <2>3. k + 1 \notin S
    <3> HIDE DEF S
    <3>1. ~(k + 1 <= k)
      BY <1>5
    <3> QED
      BY <1>4, <3>1
  <2>4. ~(points[k + 1][1] <= x)
    BY <2>2, <2>3
  <2>5. points[k + 1][1] \in Nat
    BY <2>2, PointTypes
  <2> QED
    BY <2>1, <2>4, <2>5
<1> QED
  BY <1>5, <1>6 DEF Segment

\* Where Apply lies in its segment.
LEMMA SegmentValue ==
  ASSUME Grid \in Nat \ {0}, NEW points, Breakpoints(points), NEW x \in 0..Grid, Inside(points, x)
  PROVE  LET k == Segment(points, x)
             low == points[k]
             high == points[k + 1]
             run == high[1] - low[1]
             q == Apply(points, x)
         IN /\ run \in Nat \ {0}
            /\ q = <<low[2] * run + (x - low[1]) * (high[2] - low[2]), Grid * run>>
            /\ q[1] \in Nat /\ low[2] * run <= q[1] /\ q[1] <= high[2] * run
<1>1. PICK k : k = Segment(points, x)
  OBVIOUS
<1>2. k \in 1..(Len(points) - 1) /\ points[k][1] <= x /\ x < points[k + 1][1]
  BY <1>1, SegmentFound
<1>3. PICK a, b, c, d : a = points[k][1] /\ b = points[k][2] /\ c = points[k + 1][1] /\ d = points[k + 1][2]
  OBVIOUS
<1>4. Len(points) \in Nat /\ k \in 1..Len(points) /\ k + 1 \in 1..Len(points) /\ k < k + 1
  BY <1>2, PointTypes
<1>5. a \in Nat /\ b \in Nat /\ c \in Nat /\ d \in Nat /\ x \in Nat
  BY <1>3, <1>4, PointTypes
<1>6. a <= x /\ x < c /\ b <= d
  BY <1>2, <1>3, <1>4 DEF Breakpoints
<1>7. PICK run, rise, past : run = c - a /\ rise = d - b /\ past = x - a
  OBVIOUS
<1>8. run \in Nat \ {0} /\ rise \in Nat /\ past \in Nat /\ past <= run
  BY <1>5, <1>6, <1>7
<1>9. Apply(points, x) = <<b * run + past * rise, Grid * run>>
  <2> DEFINE Value(i) ==
        <<points[i][2] * (points[i + 1][1] - points[i][1])
            + (x - points[i][1]) * (points[i + 1][2] - points[i][2]),
          Grid * (points[i + 1][1] - points[i][1])>>
  <2>1. ~(Len(points) < 2) /\ ~(x <= points[1][1]) /\ ~(x >= points[Len(points)][1])
    BY <1>4 DEF Inside
  <2>2. Apply(points, x) = Value(Segment(points, x))
    BY <2>1 DEF Apply, Segment
  <2> QED
    BY <1>1, <1>3, <1>7, <2>2
<1>10. past * rise \in Nat /\ past * rise <= run * rise
  BY <1>8
<1>11. run * rise = d * run - b * run
  BY <1>5, <1>7, <1>8
<1>12. b * run \in Nat /\ d * run \in Nat
  BY <1>5, <1>8
<1>13. b * run + past * rise \in Nat /\ b * run <= b * run + past * rise /\ b * run + past * rise <= d * run
  BY <1>10, <1>11, <1>12
<1> QED
  BY <1>1, <1>3, <1>7, <1>8, <1>9, <1>13

\* A pair that is a probability.
Probability(q) == q[1] \in Nat /\ q[2] \in Nat \ {0} /\ q[1] <= q[2]

\* The cases of np.interp.
LEMMA ApplyEnds ==
  ASSUME Grid \in Nat \ {0}, NEW points, Breakpoints(points), NEW x \in 0..Grid
  PROVE  \/ Len(points) < 2 /\ Apply(points, x) = <<x, Grid>>
         \/ /\ Len(points) >= 2 /\ x <= points[1][1]
            /\ Apply(points, x) = <<points[1][2], Grid>>
         \/ /\ Len(points) >= 2 /\ ~(x <= points[1][1]) /\ x >= points[Len(points)][1]
            /\ Apply(points, x) = <<points[Len(points)][2], Grid>>
         \/ Inside(points, x)
<1>1. Len(points) \in Nat
  BY PointTypes
<1>2. CASE Len(points) < 2
  BY <1>2 DEF Apply
<1>3. CASE Len(points) >= 2 /\ x <= points[1][1]
  BY <1>1, <1>3 DEF Apply
<1>4. CASE Len(points) >= 2 /\ ~(x <= points[1][1]) /\ x >= points[Len(points)][1]
  BY <1>1, <1>4 DEF Apply
<1>5. CASE Len(points) >= 2 /\ ~(x <= points[1][1]) /\ ~(x >= points[Len(points)][1])
  BY <1>5 DEF Inside
<1>6. Len(points) < 2 \/ Len(points) >= 2
  BY <1>1
<1> QED
  BY <1>2, <1>3, <1>4, <1>5, <1>6

\* What a calibrator reports is a probability.
LEMMA ApplyProbability ==
  ASSUME Grid \in Nat \ {0}, NEW points, Breakpoints(points), NEW x \in 0..Grid
  PROVE  Probability(Apply(points, x))
<1>1. Len(points) \in Nat
  BY PointTypes
<1>2. CASE Len(points) < 2 /\ Apply(points, x) = <<x, Grid>>
  BY <1>2 DEF Probability
<1>3. CASE Len(points) >= 2 /\ Apply(points, x) = <<points[1][2], Grid>>
  <2>1. points[1][2] \in 0..Grid
    BY <1>1, <1>3, PointTypes
  <2> QED
    BY <1>3, <2>1 DEF Probability
<1>4. CASE Len(points) >= 2 /\ Apply(points, x) = <<points[Len(points)][2], Grid>>
  <2>1. points[Len(points)][2] \in 0..Grid
    BY <1>1, <1>4, PointTypes
  <2> QED
    BY <1>4, <2>1 DEF Probability
<1>5. CASE Inside(points, x)
  <2>1. PICK k : k = Segment(points, x)
    OBVIOUS
  <2>2. PICK run, high : run = points[k + 1][1] - points[k][1] /\ high = points[k + 1][2]
    OBVIOUS
  <2>3. PICK q : q = Apply(points, x)
    OBVIOUS
  <2>4. run \in Nat \ {0} /\ q[2] = Grid * run /\ q[1] \in Nat /\ q[1] <= high * run
    BY <1>5, <2>1, <2>2, <2>3, SegmentValue
  <2>5. high \in 0..Grid
    <3>1. k + 1 \in 1..Len(points)
      BY <1>1, <1>5, <2>1, SegmentFound
    <3> QED
      BY <2>2, <3>1, PointTypes
  <2>6. high * run <= Grid * run /\ high * run \in Nat /\ Grid * run \in Nat \ {0}
    BY <2>4, <2>5
  <2> QED
    BY <2>3, <2>4, <2>6 DEF Probability
<1> QED
  BY <1>2, <1>3, <1>4, <1>5, ApplyEnds

\* A pair against a level in Grid-ths.
AtMost(q, level) == q[1] * Grid <= level * q[2]
AtLeast(q, level) == level * q[2] <= q[1] * Grid

\* Breakpoints do not descend.
LEMMA PointsAscend ==
  ASSUME NEW points, Breakpoints(points),
         NEW i \in 1..Len(points), NEW j \in 1..Len(points)
  PROVE  /\ i <= j => points[i][1] <= points[j][1] /\ points[i][2] <= points[j][2]
         /\ points[i][1] < points[j][1] => i < j
         /\ points[i][1] <= points[j][1] => i <= j
<1>1. /\ points[i][1] \in Nat /\ points[i][2] \in Nat
      /\ points[j][1] \in Nat /\ points[j][2] \in Nat /\ Len(points) \in Nat
  BY PointTypes
<1>2. i < j => points[i][1] < points[j][1] /\ points[i][2] <= points[j][2]
  BY DEF Breakpoints
<1>3. j < i => points[j][1] < points[i][1] /\ points[j][2] <= points[i][2]
  BY DEF Breakpoints
<1>4. i < j \/ i = j \/ j < i
  BY <1>1
<1> QED
  BY <1>1, <1>2, <1>3, <1>4

\* A breakpoint that x has reached bounds what x becomes from below.
LEMMA ReachedBounds ==
  ASSUME Grid \in Nat \ {0}, NEW points, Breakpoints(points), NEW x \in 0..Grid,
         Len(points) >= 2, NEW i \in 1..Len(points), points[i][1] <= x
  PROVE  AtLeast(Apply(points, x), points[i][2])
<1>1. PICK n : n = Len(points)
  OBVIOUS
<1>2. n \in Nat /\ n >= 2 /\ 1 \in 1..n /\ n \in 1..n /\ i \in 1..n
  BY <1>1, PointTypes
<1>3. PICK level : level = points[i][2]
  OBVIOUS
<1>4. level \in Nat /\ points[i][1] \in Nat /\ x \in Nat
  BY <1>1, <1>2, <1>3, PointTypes
<1>5. CASE x <= points[1][1] /\ Apply(points, x) = <<points[1][2], Grid>>
  <2>1. points[1][1] \in Nat /\ points[1][2] \in Nat
    BY <1>1, <1>2, PointTypes
  <2>2. points[i][1] <= points[1][1]
    BY <1>4, <1>5, <2>1
  <2>3. i <= 1
    BY <1>1, <1>2, <2>2, PointsAscend
  <2>4. i = 1
    BY <1>2, <2>3
  <2> QED
    BY <1>3, <1>5, <2>1, <2>4 DEF AtLeast
<1>6. CASE Apply(points, x) = <<points[n][2], Grid>>
  <2>1. points[n][2] \in Nat /\ level <= points[n][2]
    BY <1>1, <1>2, <1>3, PointTypes, PointsAscend
  <2>2. level * Grid <= points[n][2] * Grid
    BY <1>4, <2>1, Scaled
  <2> QED
    BY <1>3, <1>6, <2>2 DEF AtLeast
<1>7. CASE Inside(points, x)
  <2>1. PICK k : k = Segment(points, x)
    OBVIOUS
  <2>2. k \in 1..(n - 1) /\ points[k][1] <= x /\ x < points[k + 1][1]
    BY <1>1, <1>7, <2>1, SegmentFound
  <2>3. k \in 1..n /\ k + 1 \in 1..n
    BY <1>2, <2>2
  <2>4. points[i][1] < points[k + 1][1]
    <3>1. points[k + 1][1] \in Nat
      BY <1>1, <2>3, PointTypes
    <3> QED
      BY <1>4, <2>2, <3>1
  <2>5. i <= k
    <3>1. i < k + 1
      BY <1>1, <1>2, <2>3, <2>4, PointsAscend
    <3> QED
      BY <1>2, <2>3, <3>1
  <2>6. PICK low, run, q : low = points[k][2] /\ run = points[k + 1][1] - points[k][1]
                           /\ q = Apply(points, x)
    OBVIOUS
  <2>7. run \in Nat \ {0} /\ q[2] = Grid * run /\ q[1] \in Nat /\ low * run <= q[1]
    BY <1>7, <2>1, <2>6, SegmentValue
  <2>8. level <= low /\ low \in Nat
    BY <1>1, <1>2, <1>3, <2>3, <2>5, <2>6, PointTypes, PointsAscend
  <2>9. level * run <= low * run /\ level * run \in Nat /\ low * run \in Nat
    BY <1>4, <2>7, <2>8, Scaled
  <2>10. (level * run) * Grid <= q[1] * Grid
    <3>1. level * run <= q[1] /\ level * run \in Nat /\ q[1] \in Nat /\ Grid \in Nat
      BY <2>7, <2>9
    <3> QED
      BY <3>1, Scaled
  <2>11. level * (Grid * run) = (level * run) * Grid
    BY <1>4, <2>7
  <2> QED
    BY <1>3, <2>6, <2>7, <2>10, <2>11 DEF AtLeast
<1> QED
  BY <1>1, <1>2, <1>5, <1>6, <1>7, ApplyEnds

\* One that x has not passed bounds it from above.
LEMMA AheadBounds ==
  ASSUME Grid \in Nat \ {0}, NEW points, Breakpoints(points), NEW x \in 0..Grid,
         Len(points) >= 2, NEW i \in 1..Len(points), x <= points[i][1]
  PROVE  AtMost(Apply(points, x), points[i][2])
<1>1. PICK n : n = Len(points)
  OBVIOUS
<1>2. n \in Nat /\ n >= 2 /\ 1 \in 1..n /\ n \in 1..n /\ i \in 1..n
  BY <1>1, PointTypes
<1>3. PICK level : level = points[i][2]
  OBVIOUS
<1>4. level \in Nat /\ points[i][1] \in Nat /\ x \in Nat
  BY <1>1, <1>2, <1>3, PointTypes
<1>5. CASE Apply(points, x) = <<points[1][2], Grid>>
  <2>1. points[1][2] \in Nat /\ points[1][2] <= level
    BY <1>1, <1>2, <1>3, PointTypes, PointsAscend
  <2>2. points[1][2] * Grid <= level * Grid
    BY <1>4, <2>1
  <2> QED
    BY <1>3, <1>5, <2>2 DEF AtMost
<1>6. CASE x >= points[n][1] /\ Apply(points, x) = <<points[n][2], Grid>>
  <2>1. points[n][1] \in Nat /\ points[n][2] \in Nat
    BY <1>1, <1>2, PointTypes
  <2>2. points[n][1] <= points[i][1]
    BY <1>4, <1>6, <2>1
  <2>3. n <= i
    BY <1>1, <1>2, <2>2, PointsAscend
  <2>4. i = n
    BY <1>2, <2>3
  <2> QED
    BY <1>3, <1>6, <2>1, <2>4 DEF AtMost
<1>7. CASE Inside(points, x)
  <2>1. PICK k : k = Segment(points, x)
    OBVIOUS
  <2>2. k \in 1..(n - 1) /\ points[k][1] <= x /\ x < points[k + 1][1]
    BY <1>1, <1>7, <2>1, SegmentFound
  <2>3. k \in 1..n /\ k + 1 \in 1..n
    BY <1>2, <2>2
  <2>4. PICK low, high, run, q :
          /\ low = points[k][2] /\ high = points[k + 1][2]
          /\ run = points[k + 1][1] - points[k][1] /\ q = Apply(points, x)
    OBVIOUS
  <2>5. /\ run \in Nat \ {0} /\ q[2] = Grid * run /\ q[1] \in Nat /\ q[1] <= high * run
        /\ q[1] = low * run + (x - points[k][1]) * (high - low)
    BY <1>7, <2>1, <2>4, SegmentValue
  <2>6. low \in Nat /\ high \in Nat /\ points[k][1] \in Nat
    BY <1>1, <2>3, <2>4, PointTypes
  <2>7. q[1] <= level * run
    <3>1. CASE i = k
      <4>1. x - points[k][1] = 0 /\ level = low
        BY <1>3, <1>4, <2>2, <2>4, <2>6, <3>1
      <4>2. q[1] = low * run
        BY <2>5, <2>6, <4>1
      <4> QED
        BY <2>5, <2>6, <4>1, <4>2
    <3>2. CASE i # k
      <4>1. points[k][1] <= points[i][1]
        BY <1>4, <2>2, <2>6
      <4>2. k <= i
        BY <1>1, <1>2, <2>3, <4>1, PointsAscend
      <4>3. k + 1 <= i
        BY <1>2, <2>3, <3>2, <4>2
      <4>4. high <= level
        BY <1>1, <1>2, <1>3, <2>3, <2>4, <4>3, PointsAscend
      <4>5. high * run <= level * run /\ high * run \in Nat /\ level * run \in Nat
        BY <1>4, <2>5, <2>6, <4>4, Scaled
      <4> QED
        BY <2>5, <4>5
    <3> QED
      BY <3>1, <3>2
  <2>8. level * run \in Nat
    BY <1>4, <2>5
  <2>9. q[1] * Grid <= (level * run) * Grid
    BY <2>5, <2>7, <2>8
  <2>10. level * (Grid * run) = (level * run) * Grid
    BY <1>4, <2>5
  <2> QED
    BY <1>3, <2>4, <2>5, <2>9, <2>10 DEF AtMost
<1> QED
  BY <1>1, <1>2, <1>5, <1>6, <1>7, ApplyEnds

\* A level between two probabilities keeps them in order.
LEMMA LevelBetween ==
  ASSUME Grid \in Nat \ {0}, NEW p, Probability(p), NEW q, Probability(q), NEW level \in Nat,
         AtMost(p, level), AtLeast(q, level)
  PROVE  ~Below(q, p)
<1>1. PICK a, b, c, d : a = p[1] /\ b = p[2] /\ c = q[1] /\ d = q[2]
  OBVIOUS
<1>2. a \in Nat /\ b \in Nat \ {0} /\ c \in Nat /\ d \in Nat \ {0}
  BY <1>1 DEF Probability
<1>3. a * Grid <= level * b /\ level * d <= c * Grid
  BY <1>1 DEF AtMost, AtLeast
<1>4. (a * Grid) * d <= (level * b) * d
  BY <1>2, <1>3
<1>5. (level * d) * b <= (c * Grid) * b
  BY <1>2, <1>3
<1>6. /\ (level * b) * d = (level * d) * b
      /\ (a * Grid) * d = (a * d) * Grid /\ (c * Grid) * b = (c * b) * Grid
  BY <1>2
<1>7. (a * d) * Grid <= (c * b) * Grid
  <2>1. (a * Grid) * d \in Nat /\ (level * b) * d \in Nat /\ (c * Grid) * b \in Nat
    BY <1>2
  <2> QED
    BY <1>4, <1>5, <1>6, <2>1
<1>8. a * d <= c * b
  <2>1. PICK u, v : u = a * d /\ v = c * b
    OBVIOUS
  <2>2. u \in Nat /\ v \in Nat /\ u * Grid <= v * Grid
    BY <1>2, <1>7, <2>1
  <2>3. u <= v
    BY <2>2
  <2> QED
    BY <2>1, <2>3
<1> QED
  BY <1>1, <1>2, <1>8 DEF Below

\* "It cannot reorder predictions" (calibrator.py): what the booster rates
\* higher is not reported lower.
LEMMA ApplyKeepsOrder ==
  ASSUME Grid \in Nat \ {0}, NEW points, Breakpoints(points),
         NEW x \in 0..Grid, NEW y \in 0..Grid, x <= y
  PROVE  ~Below(Apply(points, y), Apply(points, x))
<1>1. PICK n : n = Len(points)
  OBVIOUS
<1>2. n \in Nat
  BY <1>1, PointTypes
<1>3. PICK p, q : p = Apply(points, x) /\ q = Apply(points, y)
  OBVIOUS
<1>4. Probability(p) /\ Probability(q)
  BY <1>3, ApplyProbability
<1>5. CASE n < 2
  <2>1. p = <<x, Grid>> /\ q = <<y, Grid>>
    BY <1>1, <1>3, <1>5 DEF Apply
  <2>2. x * Grid <= y * Grid /\ x * Grid \in Nat /\ y * Grid \in Nat
    BY Scaled
  <2> QED
    BY <1>3, <2>1, <2>2 DEF Below
<1>6. CASE n >= 2 /\ \E i \in 1..n : x <= points[i][1] /\ points[i][1] <= y
  <2>1. PICK i \in 1..n : x <= points[i][1] /\ points[i][1] <= y
    BY <1>6
  <2>a. Len(points) >= 2 /\ i \in 1..Len(points) /\ points[i][2] \in Nat
    BY <1>1, <1>6, <2>1, PointTypes
  <2>b. AtMost(p, points[i][2])
    BY <1>3, <2>1, <2>a, AheadBounds
  <2>c. AtLeast(q, points[i][2])
    BY <1>3, <2>1, <2>a, ReachedBounds
  <2>2. AtMost(p, points[i][2]) /\ AtLeast(q, points[i][2]) /\ points[i][2] \in Nat
    BY <2>a, <2>b, <2>c
  <2> QED
    BY <1>3, <1>4, <2>2, LevelBetween
<1>7. CASE n >= 2 /\ ~(\E i \in 1..n : x <= points[i][1] /\ points[i][1] <= y)
  <2>0. 1 \in 1..n /\ n \in 1..n
    BY <1>2, <1>7
  <2>a. \A i \in 1..n : points[i][1] \in Nat
    BY <1>1, PointTypes
  <2>b. \A i \in 1..n : (y < points[i][1] <=> x < points[i][1]) /\ points[i][1] # x /\ points[i][1] # y
    BY <1>7, <2>a
  <2>c. ~Below(p, p)
    BY <1>4 DEF Below, Probability
  <2>1. CASE x <= points[1][1]
    <3>1. y <= points[1][1]
      BY <2>0, <2>1, <2>a, <2>b
    <3>2. p = q
      BY <1>1, <1>2, <1>3, <1>7, <2>1, <3>1 DEF Apply
    <3> QED
      BY <1>3, <2>c, <3>2
  <2>2. CASE x >= points[n][1]
    <3>1. y >= points[n][1] /\ ~(x <= points[1][1]) /\ ~(y <= points[1][1])
      <4>1. y >= points[n][1] /\ points[1][1] <= points[n][1] /\ points[1][1] # x /\ points[1][1] # y
        BY <1>1, <2>0, <2>2, <2>a, <2>b, PointsAscend
      <4> QED
        BY <2>0, <2>2, <2>a, <4>1
    <3>a. /\ ~(Len(points) < 2) /\ ~(x <= points[1][1]) /\ ~(y <= points[1][1])
          /\ x >= points[Len(points)][1] /\ y >= points[Len(points)][1]
      BY <1>1, <1>2, <1>7, <2>2, <3>1
    <3>2. /\ Apply(points, x) = <<points[Len(points)][2], Grid>>
          /\ Apply(points, y) = <<points[Len(points)][2], Grid>>
      BY <3>a DEF Apply
    <3> QED
      BY <1>3, <2>c, <3>2
  <2>3. CASE Inside(points, x) /\ Inside(points, y)
    <3>1. PICK k, l : k = Segment(points, x) /\ l = Segment(points, y)
      OBVIOUS
    <3>2. /\ k \in 1..(n - 1) /\ points[k][1] <= x /\ x < points[k + 1][1]
          /\ l \in 1..(n - 1) /\ points[l][1] <= y /\ y < points[l + 1][1]
      BY <1>1, <2>3, <3>1, SegmentFound
    <3>3. k \in 1..n /\ k + 1 \in 1..n /\ l \in 1..n /\ l + 1 \in 1..n
      BY <1>2, <3>2
    <3>4. k < l + 1 /\ l < k + 1
      <4>1. points[k][1] < points[l + 1][1]
        BY <2>a, <3>2, <3>3
      <4>2. y < points[k + 1][1]
        BY <2>b, <3>2, <3>3
      <4>3. points[l][1] < points[k + 1][1]
        BY <2>a, <3>2, <3>3, <4>2
      <4> QED
        BY <1>1, <3>3, <4>1, <4>3, PointsAscend
    <3>5. k = l
      BY <3>2, <3>4
    <3>6. PICK a, b, rise, run :
            a = points[k][1] /\ b = points[k][2] /\ run = points[k + 1][1] - points[k][1]
            /\ rise = points[k + 1][2] - points[k][2]
      OBVIOUS
    <3>7. /\ run \in Nat \ {0} /\ p = <<b * run + (x - a) * rise, Grid * run>>
          /\ q = <<b * run + (y - a) * rise, Grid * run>>
      BY <1>3, <2>3, <3>1, <3>5, <3>6, SegmentValue
    <3>8. a \in Nat /\ b \in Nat /\ rise \in Nat /\ x - a \in Nat /\ y - a \in Nat
      <4>0. points[k + 1][2] \in Nat /\ points[k][2] \in Nat /\ k \in Nat
        BY <1>1, <3>3, PointTypes
      <4>0a. k <= k + 1
        BY <4>0
      <4>0b. points[k][2] <= points[k + 1][2]
        BY <1>1, <3>3, <4>0a, PointsAscend
      <4>1. points[k + 1][2] \in Nat /\ b \in Nat /\ b <= points[k + 1][2]
        BY <3>6, <4>0, <4>0b
      <4>2. a \in Nat /\ a <= x
        BY <2>a, <3>2, <3>3, <3>6
      <4> QED
        BY <3>6, <4>1, <4>2
    <3>9. (x - a) * rise <= (y - a) * rise /\ (x - a) * rise \in Nat /\ (y - a) * rise \in Nat
      <4>1. x - a <= y - a
        BY <3>8
      <4> QED
        BY <3>8, <4>1, Scaled
    <3>10. /\ b * run \in Nat /\ Grid * run \in Nat
           /\ b * run + (x - a) * rise <= b * run + (y - a) * rise
      BY <3>7, <3>8, <3>9
    <3>11. (b * run + (x - a) * rise) * (Grid * run) <= (b * run + (y - a) * rise) * (Grid * run)
      BY <3>9, <3>10, Scaled
    <3>12. /\ (b * run + (x - a) * rise) * (Grid * run) \in Nat
           /\ (b * run + (y - a) * rise) * (Grid * run) \in Nat
      BY <3>9, <3>10, Scaled
    <3> QED
      BY <1>3, <3>7, <3>11, <3>12 DEF Below
  <2>4. ~(x <= points[1][1]) /\ ~(x >= points[n][1]) => Inside(points, x) /\ Inside(points, y)
    BY <1>1, <1>7, <2>0, <2>a, <2>b DEF Inside
  <2> QED
    BY <2>1, <2>2, <2>3, <2>4
<1> QED
  BY <1>2, <1>5, <1>6, <1>7

-----------------------------------------------------------------------------
\* The last call, answered state by state; and the newest latencies kept.
Answered ==
  /\ asked \in Seq(States)
  /\ answered = [i \in 1..Len(asked) |-> Prediction(asked[i])]

\* The kept latencies are the newest of all, as many as the window holds.
Newest(kept, all) ==
  /\ kept \in Seq(Latencies) /\ all \in Seq(Latencies)
  /\ Len(kept) = (IF Len(all) < Window THEN Len(all) ELSE Window)
  /\ \A i \in 1..Len(kept) : kept[i] = all[Len(all) - Len(kept) + i]

\* The invariant of the engine between calls.
ScoringInv ==
  /\ calibrator \in Calibrators
  /\ Answered
  /\ Newest(samples, recorded) /\ total = Len(recorded)

\* The cells of the end of a sequence.
LEMMA TailCells ==
  ASSUME NEW S, NEW s \in Seq(S), NEW first \in 1..(Len(s) + 1)
  PROVE  /\ SubSeq(s, first, Len(s)) \in Seq(S)
         /\ Len(SubSeq(s, first, Len(s))) = Len(s) - first + 1
         /\ \A i \in 1..(Len(s) - first + 1) : SubSeq(s, first, Len(s))[i] = s[first + i - 1]
  OBVIOUS

\* deque(maxlen): after more latencies it keeps the newest again.
LEMMA NewestKept ==
  ASSUME Window \in Nat \ {0}, NEW kept, NEW all, Newest(kept, all), NEW new \in Seq(Latencies)
  PROVE  Newest(Retained(kept \o new), all \o new)
<1>1. PICK k, a, n : k = Len(kept) /\ a = Len(all) /\ n = Len(new)
  OBVIOUS
<1>2. /\ k \in Nat /\ a \in Nat /\ n \in Nat /\ k <= a
      /\ k = (IF a < Window THEN a ELSE Window)
      /\ kept \in Seq(Latencies) /\ all \in Seq(Latencies)
  BY <1>1 DEF Newest
<1>3. PICK both, every : both = kept \o new /\ every = all \o new
  OBVIOUS
<1>4. /\ both \in Seq(Latencies) /\ Len(both) = k + n
      /\ \A i \in 1..k : both[i] = kept[i]
      /\ \A i \in 1..n : both[k + i] = new[i]
  <2>1. kept \o new \in Seq(Latencies) /\ Joined(kept \o new, kept, new)
    BY <1>2, ConcatCells
  <2> QED
    BY <1>1, <1>3, <2>1 DEF Joined
<1>4a. /\ every \in Seq(Latencies) /\ Len(every) = a + n
       /\ \A i \in 1..a : every[i] = all[i]
       /\ \A i \in 1..n : every[a + i] = new[i]
  <2>1. all \o new \in Seq(Latencies) /\ Joined(all \o new, all, new)
    BY <1>2, ConcatCells
  <2> QED
    BY <1>1, <1>3, <2>1 DEF Joined
<1>5. ASSUME NEW i \in 1..(k + n) PROVE both[i] = every[(a - k) + i]
  <2>1. CASE i <= k
    <3>1. both[i] = kept[i] /\ i \in 1..k
      BY <1>2, <1>4, <2>1
    <3>2. kept[i] = all[a - k + i]
      BY <1>1, <3>1 DEF Newest
    <3>3. (a - k) + i \in 1..a
      BY <1>2, <2>1
    <3>4. every[(a - k) + i] = all[(a - k) + i]
      BY <1>4a, <3>3
    <3> QED
      BY <3>1, <3>2, <3>4
  <2>2. CASE i > k
    <3>1. PICK m : m = i - k
      OBVIOUS
    <3>2. m \in 1..n /\ i = k + m /\ (a - k) + i = a + m
      BY <1>2, <2>2, <3>1
    <3>3. both[k + m] = new[m] /\ every[a + m] = new[m]
      BY <1>4, <1>4a, <3>2
    <3> QED
      BY <3>2, <3>3
  <2> QED
    BY <1>2, <2>1, <2>2
<1>6. CASE k + n <= Window
  <2>1. Retained(both) = both
    BY <1>4, <1>6 DEF Retained
  <2>2. k + n = (IF a + n < Window THEN a + n ELSE Window)
    BY <1>2, <1>6
  <2>3. \A i \in 1..(k + n) : both[i] = every[(a + n) - (k + n) + i]
    <3>1. (a + n) - (k + n) = a - k
      BY <1>2
    <3> QED
      BY <1>5, <3>1
  <2>4. Newest(both, every)
    BY <1>4, <1>4a, <2>2, <2>3 DEF Newest
  <2> QED
    BY <1>3, <2>1, <2>4
<1>7. CASE ~(k + n <= Window)
  <2>1. PICK over : over = k + n - Window
    OBVIOUS
  <2>2. over \in Nat /\ over + 1 \in 1..(k + n) /\ Len(both) - Window + 1 = over + 1
    BY <1>2, <1>4, <1>7, <2>1
  <2>3. PICK rest : rest = SubSeq(both, over + 1, Len(both))
    OBVIOUS
  <2>4. Retained(both) = rest
    BY <1>4, <1>7, <2>2, <2>3 DEF Retained
  <2>5. /\ rest \in Seq(Latencies) /\ Len(rest) = Window
        /\ \A i \in 1..Window : rest[i] = both[over + i]
    <3>1. Len(both) - (over + 1) + 1 = Window
      BY <1>2, <1>4, <2>1
    <3>2. over + 1 \in 1..Len(both)
      BY <1>4, <2>2
    <3>3. rest \in Seq(Latencies) /\ Len(rest) = Len(both) - (over + 1) + 1
      BY <1>4, <2>2, <2>3, <3>1, <3>2
    <3>4. ASSUME NEW i \in 1..Window PROVE rest[i] = both[over + i]
      <4>1. rest[i] = both[(over + 1) + i - 1]
        BY <1>4, <2>2, <2>3, <3>1, <3>2, <3>3
      <4>2. (over + 1) + i - 1 = over + i
        BY <2>2
      <4> QED
        BY <4>1, <4>2
    <3> QED
      BY <3>1, <3>3, <3>4
  <2>6. ~(a + n < Window)
    BY <1>2, <1>7
  <2>7. ASSUME NEW i \in 1..Window PROVE rest[i] = every[(a + n) - Window + i]
    <3>1. over + i \in 1..(k + n) /\ (a - k) + (over + i) = (a + n) - Window + i
      BY <1>2, <2>1, <2>2
    <3> QED
      BY <1>5, <2>5, <3>1
  <2> QED
    BY <1>3, <1>4, <1>4a, <2>4, <2>5, <2>6, <2>7 DEF Newest
<1> QED
  BY <1>2, <1>6, <1>7

\* The rows of a batch answer the states they were taken from.
LEMMA BatchRows ==
  ASSUME NEW batch \in Seq(States)
  PROVE  /\ Len(Rows(batch)) \in Nat
         /\ \A row \in 1..Len(Rows(batch)) : Rows(batch)[row] \in 1..Len(batch)
         /\ \A i \in 1..Len(batch) : batch[i].scoreable =>
              /\ RowOf(Rows(batch), i) \in 1..Len(Rows(batch))
              /\ Rows(batch)[RowOf(Rows(batch), i)] = i
<1>1. PICK S : S = {i \in 1..Len(batch) : batch[i].scoreable}
  OBVIOUS
<1>2. PICK rows : rows = Rows(batch) /\ rows = InOrder(S)
  BY <1>1 DEF Rows
<1>3. S \subseteq 1..Len(batch) /\ S \subseteq Nat /\ IsFiniteSet(S)
  <2>1. Len(batch) \in Nat /\ IsFiniteSet(1..Len(batch))
    BY FirstNumbers
  <2>2. S \subseteq 1..Len(batch)
    BY <1>1
  <2>3. IsFiniteSet(S)
    BY <2>1, <2>2, FS_Subset, Zenon
  <2> QED
    BY <2>1, <2>2, <2>3
<1>4. /\ Cardinality(S) \in Nat /\ Len(rows) = Cardinality(S)
      /\ \A k \in 1..Cardinality(S) : rows[k] \in S
      /\ \A i \in S : \E k \in 1..Cardinality(S) : rows[k] = i
  <2>1. S \subseteq Int /\ IsFiniteSet(S)
    BY <1>3
  <2>2. Cardinality(S) \in Nat /\ Enumerates(InOrder(S), S)
    BY <2>1, InOrderEnumerates, Zenon
  <2> QED
    BY <1>2, <2>2 DEF Enumerates
<1>5. ASSUME NEW i \in 1..Len(batch), batch[i].scoreable
      PROVE  RowOf(rows, i) \in 1..Len(rows) /\ rows[RowOf(rows, i)] = i
  <2>1. i \in S
    BY <1>1, <1>5
  <2>2. \E row \in 1..Len(rows) : rows[row] = i
    BY <1>4, <2>1
  <2> QED
    BY <2>2 DEF RowOf
<1> QED
  BY <1>2, <1>3, <1>4, <1>5

\* LatencyStats.record keeps the count and the newest latencies.
LEMMA LatenciesRecorded ==
  ASSUME ScoringInv, NEW n \in Nat, NEW latency \in Latencies, Record(n, latency)
  PROVE  Newest(samples', recorded') /\ total' = Len(recorded')
<1>1. PICK new : new = [i \in 1..n |-> latency]
  OBVIOUS
<1>2. new \in Seq(Latencies) /\ Len(new) = n
  <2>1. new \in [1..n -> Latencies]
    BY <1>1
  <2> QED
    BY <2>1, FunctionIsSeq
<1>3. samples' = Retained(samples \o new) /\ recorded' = recorded \o new /\ total' = total + n
  BY <1>1 DEF Record
<1>4. Newest(samples', recorded')
  BY <1>2, <1>3, ScoringAssumption, NewestKept DEF ScoringInv
<1>5. Len(recorded \o new) = Len(recorded) + n
  BY <1>2, ConcatCells DEF ScoringInv, Newest, Joined
<1> QED
  BY <1>3, <1>4, <1>5 DEF ScoringInv

\* The state of ScoringInv is kept by what answers the states asked for.
LEMMA InvKept ==
  ASSUME ScoringInv, calibrator' = calibrator, Newest(samples', recorded'), total' = Len(recorded'),
         asked' \in Seq(States),
         answered' = [i \in 1..Len(asked') |-> Prediction(asked'[i])]
  PROVE  ScoringInv'
<1>1. Answered'
  BY DEF Answered, Prediction
<1>2. Newest(samples, recorded)'
  BY DEF Newest
<1> QED
  BY <1>1, <1>2 DEF ScoringInv

\* predict answers its state and records one latency or none.
LEMMA PredictKeeps ==
  ASSUME ScoringInv, Predict
  PROVE  ScoringInv'
<1>1. PICK s \in States, latency \in Latencies :
        /\ asked' = <<s>> /\ answered' = <<Prediction(s)>>
        /\ Record(IF s.scoreable THEN 1 ELSE 0, latency)
  BY DEF Predict
<1>2. Newest(samples', recorded') /\ total' = Len(recorded')
  <2>1. PICK n : n = (IF s.scoreable THEN 1 ELSE 0)
    OBVIOUS
  <2>2. n \in Nat /\ Record(n, latency)
    BY <1>1, <2>1
  <2> QED
    BY <2>2, LatenciesRecorded
<1>3. PICK answer : answer = Prediction(s)
  OBVIOUS
<1>4. asked' \in Seq(States) /\ Len(asked') = 1 /\ asked'[1] = s
  BY <1>1
<1>5. answered' = [i \in 1..Len(asked') |-> Prediction(asked'[i])]
  <2>1. answered' = <<answer>>
    BY <1>1, <1>3
  <2>2. <<answer>> = [i \in 1..1 |-> answer]
    OBVIOUS
  <2>3. \A i \in 1..1 : Prediction(asked'[i]) = answer
    BY <1>3, <1>4
  <2>4. [i \in 1..1 |-> Prediction(asked'[i])] = [i \in 1..1 |-> answer]
    BY <2>3
  <2> QED
    BY <1>4, <2>1, <2>2, <2>4
<1>6. calibrator' = calibrator
  BY DEF Predict
<1> QED
  BY <1>2, <1>4, <1>5, <1>6, InvKept

\* What predict_batch answers.
BatchAnswers(batch) ==
  [i \in 1..Len(batch) |->
     IF batch[i].scoreable
       THEN [id |-> batch[i].id, scored |-> TRUE,
             ct |-> [row \in 1..Len(Rows(batch)) |->
                       Apply(calibrator,
                             [r \in 1..Len(Rows(batch)) |-> batch[Rows(batch)[r]].raw][row])]
                    [RowOf(Rows(batch), i)]]
       ELSE [id |-> batch[i].id, scored |-> FALSE, ct |-> Neutral]]

\* predict_batch answers every state of the batch at its index.
LEMMA PredictBatchKeeps ==
  ASSUME ScoringInv, PredictBatch
  PROVE  ScoringInv'
<1>0. PICK size \in 0..MaxBatch, latency \in Latencies :
        \E batch \in [1..size -> States] :
          asked' = batch /\ answered' = BatchAnswers(batch) /\ Record(Len(Rows(batch)), latency)
  BY DEF PredictBatch, BatchAnswers
<1>1. PICK batch \in [1..size -> States] :
        asked' = batch /\ answered' = BatchAnswers(batch) /\ Record(Len(Rows(batch)), latency)
  BY <1>0
<1>2. batch \in Seq(States)
  <2>1. size \in Nat
    BY ScoringAssumption DEF ScoringInv
  <2> QED
    BY <2>1, FunctionIsSeq
<1>3. PICK rows : rows = Rows(batch)
  OBVIOUS
<1>4. /\ Len(rows) \in Nat
      /\ \A row \in 1..Len(rows) : rows[row] \in 1..Len(batch)
      /\ \A i \in 1..Len(batch) : batch[i].scoreable =>
           RowOf(rows, i) \in 1..Len(rows) /\ rows[RowOf(rows, i)] = i
  BY <1>2, <1>3, BatchRows
<1>5. Newest(samples', recorded') /\ total' = Len(recorded')
  BY <1>1, <1>3, <1>4, LatenciesRecorded
<1>6. ASSUME NEW i \in 1..Len(batch) PROVE answered'[i] = Prediction(batch[i])
  <2>1. CASE batch[i].scoreable
    <3>1. PICK row : row = RowOf(rows, i)
      OBVIOUS
    <3>2. row \in 1..Len(rows) /\ rows[row] = i
      BY <1>4, <2>1, <3>1
    <3>3. answered'[i] = [id |-> batch[i].id, scored |-> TRUE,
                          ct |-> Apply(calibrator, batch[i].raw)]
      BY <1>1, <1>3, <2>1, <3>1, <3>2 DEF BatchAnswers
    <3> QED
      BY <2>1, <3>3 DEF Prediction
  <2>2. CASE ~batch[i].scoreable
    <3>1. answered'[i] = [id |-> batch[i].id, scored |-> FALSE, ct |-> Neutral]
      BY <1>1, <2>2 DEF BatchAnswers
    <3> QED
      BY <2>2, <3>1 DEF Prediction
  <2> QED
    BY <2>1, <2>2
<1>7. answered' = [i \in 1..Len(asked') |-> Prediction(asked'[i])]
  <2>1. answered' = [i \in 1..Len(batch) |-> answered'[i]]
    BY <1>1 DEF BatchAnswers
  <2>2. answered' = [i \in 1..Len(batch) |-> Prediction(batch[i])]
    BY <1>6, <2>1
  <2> QED
    BY <1>1, <2>2
<1>8. calibrator' = calibrator
  BY DEF PredictBatch
<1> QED
  BY <1>1, <1>2, <1>5, <1>7, <1>8, InvKept

\* Answers of one calibrator keep the order of the booster.
LEMMA ScoresRanked ==
  ASSUME ScoringInv
  PROVE  RankingKept
<1>1. Grid \in Nat \ {0} /\ Breakpoints(calibrator)
  BY ScoringAssumption DEF ScoringInv, Breakpoints
<1>2. asked \in Seq(States)
  BY DEF ScoringInv, Answered
<1>3. ASSUME NEW i \in 1..Len(asked)
      PROVE  /\ answered[i] = Prediction(asked[i]) /\ asked[i] \in States
             /\ asked[i].scoreable \in BOOLEAN /\ asked[i].raw \in 0..Grid
  BY <1>2, ScoringAssumption DEF ScoringInv, Answered
<1>4. ASSUME NEW i \in 1..Len(asked), asked[i].scoreable
      PROVE  answered[i].ct = Apply(calibrator, asked[i].raw)
  <2>1. Prediction(asked[i]) = [id |-> asked[i].id, ct |-> Apply(calibrator, asked[i].raw),
                                scored |-> TRUE]
    BY <1>4 DEF Prediction
  <2> QED
    BY <1>3, <2>1
<1>5. ASSUME NEW i \in 1..Len(asked)
      PROVE  0 <= answered[i].ct[1] /\ answered[i].ct[1] <= answered[i].ct[2]
  <2>1. CASE asked[i].scoreable
    <3>1. Probability(Apply(calibrator, asked[i].raw))
      BY <1>1, <1>3, ApplyProbability
    <3> QED
      BY <1>4, <2>1, <3>1 DEF Probability
  <2>2. CASE ~asked[i].scoreable
    <3>1. Prediction(asked[i]) = [id |-> asked[i].id, ct |-> Neutral, scored |-> FALSE]
      BY <2>2 DEF Prediction
    <3>2. answered[i].ct = <<1, 2>>
      BY <1>3, <3>1 DEF Neutral
    <3> QED
      BY <3>2
  <2> QED
    BY <2>1, <2>2, <1>3
<1>6. ASSUME NEW i \in 1..Len(asked), NEW j \in 1..Len(asked),
             asked[i].scoreable, asked[j].scoreable, asked[i].raw <= asked[j].raw
      PROVE  ~Below(answered[j].ct, answered[i].ct)
  <2>1. ~Below(Apply(calibrator, asked[j].raw), Apply(calibrator, asked[i].raw))
    BY <1>1, <1>3, <1>6, ApplyKeepsOrder
  <2> QED
    BY <1>4, <1>6, <2>1
<1> QED
  BY <1>5, <1>6 DEF RankingKept

\* The count and the window of LatencyStats, as ScoringExact has them.
LEMMA StatisticsExact ==
  ASSUME ScoringInv
  PROVE  /\ total = Len(recorded)
         /\ Len(samples) = (IF total < Window THEN total ELSE Window)
         /\ samples = SubSeq(recorded, 1 + total - Len(samples), total)
<1>1. PICK m, n : m = Len(samples) /\ n = Len(recorded)
  OBVIOUS
<1>2. /\ samples \in Seq(Latencies) /\ recorded \in Seq(Latencies) /\ m \in Nat /\ n \in Nat
      /\ total = n /\ m = (IF n < Window THEN n ELSE Window) /\ m <= n
      /\ \A i \in 1..m : samples[i] = recorded[n - m + i]
  <2>1. Newest(samples, recorded) /\ total = Len(recorded) /\ Window \in Nat
    BY ScoringAssumption DEF ScoringInv
  <2>2. samples \in Seq(Latencies) /\ recorded \in Seq(Latencies)
    BY <2>1 DEF Newest
  <2>3. m \in Nat /\ n \in Nat /\ total = n /\ m = (IF n < Window THEN n ELSE Window)
    BY <1>1, <2>1, <2>2 DEF Newest
  <2>4. m <= n
    BY <2>1, <2>3
  <2>5. \A i \in 1..m : samples[i] = recorded[n - m + i]
    BY <1>1, <2>1 DEF Newest
  <2> QED
    BY <2>2, <2>3, <2>4, <2>5
<1>3. PICK first, part : first = 1 + n - m /\ part = SubSeq(recorded, first, n)
  OBVIOUS
<1>4. samples = part
  <2>1. part = [i \in 1..m |-> recorded[first + i - 1]]
    <3>1. n - first + 1 = m
      BY <1>2, <1>3
    <3>2. Len(part) = m /\ part \in Seq(Latencies)
      <4>1. first \in 1..(Len(recorded) + 1) /\ Len(recorded) = n
        BY <1>1, <1>2, <1>3
      <4>2. /\ SubSeq(recorded, first, Len(recorded)) \in Seq(Latencies)
            /\ Len(SubSeq(recorded, first, Len(recorded))) = Len(recorded) - first + 1
        BY <1>2, <4>1, TailCells
      <4> QED
        BY <1>3, <3>1, <4>1, <4>2
    <3>3. ASSUME NEW i \in 1..m PROVE part[i] = recorded[first + i - 1]
      <4>1. first \in 1..(Len(recorded) + 1) /\ Len(recorded) = n
        BY <1>1, <1>2, <1>3
      <4>2. part = SubSeq(recorded, first, Len(recorded)) /\ i \in 1..(Len(recorded) - first + 1)
        BY <1>3, <3>1, <4>1
      <4>3. SubSeq(recorded, first, Len(recorded))[i] = recorded[first + i - 1]
        BY <1>2, <4>1, <4>2, TailCells
      <4> QED
        BY <4>2, <4>3
    <3>4. part = [i \in 1..m |-> part[i]]
      BY <3>2, SeqIsFunction
    <3> QED
      BY <3>3, <3>4
  <2>2. samples = [i \in 1..m |-> samples[i]]
    BY <1>1, <1>2, SeqIsFunction
  <2>3. \A i \in 1..m : first + i - 1 = n - m + i
    BY <1>2, <1>3
  <2>4. \A i \in 1..m : samples[i] = recorded[n - m + i]
    BY <1>2
  <2>5. \A i \in 1..m : samples[i] = recorded[first + i - 1]
    BY <2>3, <2>4
  <2> QED
    BY <2>1, <2>2, <2>5
<1> QED
  BY <1>1, <1>2, <1>3, <1>4

\* The property follows from the invariant.
LEMMA ScoringShown ==
  ASSUME ScoringInv
  PROVE  ScoringExact
<1>1. samples \in Seq(Int)
  <2>1. samples \in Seq(Latencies) /\ Latencies \subseteq Int
    BY ScoringAssumption DEF ScoringInv, Newest
  <2> QED
    BY <2>1, WiderSeq
<1>2. ASSUME NEW percent \in {50, 95, 99}, samples # <<>>
      PROVE  Ranked(samples, percent, Percentile(percent))
  BY <1>1, <1>2, PercentileRanked
<1>3. RankingKept
  BY ScoresRanked
<1>4. answered = [i \in 1..Len(asked) |-> Prediction(asked[i])]
  BY DEF ScoringInv, Answered
<1>5. Percentile(50) <= Percentile(95) /\ Percentile(95) <= Percentile(99)
  BY <1>1, PercentilesAscend
<1> QED
  BY <1>2, <1>3, <1>4, <1>5, StatisticsExact DEF ScoringExact, Ranked

\* An engine that has answered nothing.
LEMMA ScoringStarts ==
  ASSUME ScoringInit
  PROVE  ScoringInv
<1>1. Answered
  <2>1. asked = <<>> /\ answered = <<>>
    BY DEF ScoringInit
  <2>2. <<>> = [i \in 1..Len(<<>>) |-> Prediction(<<>>[i])]
    OBVIOUS
  <2> QED
    BY <2>1, <2>2 DEF Answered
<1>2. Newest(samples, recorded) /\ total = Len(recorded)
  BY ScoringAssumption DEF ScoringInit, Newest
<1> QED
  BY <1>1, <1>2 DEF ScoringInit, ScoringInv

\* The engine between calls: the last call answered state by state with the
\* calibrator that was loaded, and the newest latencies kept and counted.
THEOREM ScoringInvariant == ScoringSpec => []ScoringInv
<1>1. ScoringInit => ScoringInv
  BY ScoringStarts
<1>2. ScoringInv /\ [ScoringNext]_scoringVars => ScoringInv'
  <2> SUFFICES ASSUME ScoringInv, [ScoringNext]_scoringVars
               PROVE  ScoringInv'
    OBVIOUS
  <2>1. CASE Predict
    BY <2>1, PredictKeeps
  <2>2. CASE PredictBatch
    BY <2>2, PredictBatchKeeps
  <2>3. CASE UNCHANGED scoringVars
    <3>1. /\ calibrator' = calibrator /\ samples' = samples /\ total' = total
          /\ asked' = asked /\ answered' = answered /\ recorded' = recorded
      BY <2>3 DEF scoringVars
    <3>2. /\ Newest(samples', recorded') /\ total' = Len(recorded')
          /\ asked' \in Seq(States)
      BY <3>1 DEF ScoringInv, Answered
    <3>3. answered' = [i \in 1..Len(asked') |-> Prediction(asked'[i])]
      BY <3>1 DEF ScoringInv, Answered
    <3> QED
      BY <3>1, <3>2, <3>3, InvKept
  <2> QED
    BY <2>1, <2>2, <2>3 DEF ScoringNext
<1> QED
  BY <1>1, <1>2, PTL DEF ScoringSpec

\* For any states, breakpoints, latencies, window and number of calls: a batch
\* answers what single calls would, in the order of the booster, and the
\* latency statistics are exact (InferenceEngine, LatencyStats, calibrator.py).
THEOREM ScoringAlwaysExact == ScoringSpec => []ScoringExact
<1>1. ScoringInv => ScoringExact
  BY ScoringShown
<1> QED
  BY <1>1, ScoringInvariant, PTL

-----------------------------------------------------------------------------
(***************************************************************************)
(* Reports: calibration, then drift.                                       *)
(***************************************************************************)
\* A ratio between two others is no more than one of them.
LEMMA Mediant ==
  ASSUME NEW e \in Nat, NEW t \in Nat, NEW g \in Nat, NEW m \in Nat,
         NEW h \in Nat, NEW c \in Nat \ {0}, e * c <= h * t, m = 0 => g = 0
  PROVE  \/ (e + g) * c <= h * (t + m)
         \/ m > 0 /\ (e + g) * m <= g * (t + m)
<1>1. /\ e * c \in Nat /\ h * t \in Nat /\ g * c \in Nat /\ h * m \in Nat /\ g * m \in Nat
      /\ e * m \in Nat /\ g * t \in Nat
  OBVIOUS
<1>2. CASE g * c <= h * m
  <2>1. (e + g) * c = e * c + g * c /\ h * (t + m) = h * t + h * m
    OBVIOUS
  <2> QED
    BY <1>1, <1>2, <2>1
<1>3. CASE h * m < g * c
  <2>1. m > 0 \/ m = 0
    OBVIOUS
  <2>2. CASE m > 0
    <3>1. (e * c) * m <= (h * t) * m
      BY <1>1, Scaled
    <3>2. (h * m) * t <= (g * c) * t
      BY <1>1, <1>3, Scaled
    <3>3. (e * c) * m = (e * m) * c /\ (h * t) * m = (h * m) * t /\ (g * c) * t = (g * t) * c
      OBVIOUS
    <3>4. (e * m) * c <= (g * t) * c
      <4>1. (e * c) * m \in Nat /\ (h * t) * m \in Nat /\ (g * c) * t \in Nat
        BY <1>1
      <4> QED
        BY <3>1, <3>2, <3>3, <4>1
    <3>5. e * m <= g * t
      <4> SUFFICES ASSUME g * t + 1 <= e * m PROVE FALSE
        BY <1>1
      <4>1. PICK x, y : x = g * t /\ y = e * m
        OBVIOUS
      <4>2. x \in Nat /\ y \in Nat /\ x + 1 <= y /\ y * c <= x * c
        BY <1>1, <3>4, <4>1
      <4>3. (x + 1) * c <= y * c
        BY <4>2, Scaled
      <4>4. (x + 1) * c = x * c + c /\ x * c \in Nat /\ y * c \in Nat
        BY <4>2
      <4> QED
        BY <4>2, <4>3, <4>4
    <3>6. (e + g) * m = e * m + g * m /\ g * (t + m) = g * t + g * m
      OBVIOUS
    <3> QED
      BY <1>1, <2>2, <3>5, <3>6
  <2>3. CASE m = 0
    <3>1. g = 0
      BY <2>3
    <3>2. g * c = 0
      BY <3>1
    <3> QED
      BY <1>1, <1>3, <3>2
  <2> QED
    BY <2>1, <2>2, <2>3
<1> QED
  BY <1>1, <1>2, <1>3

\* A sum of ratios against the ratio of the sums: one of the terms is no less.
LEMMA LargestShare ==
  ASSUME NEW n \in Nat, NEW g, NEW c,
         \A k \in 1..n : g[k] \in Nat /\ c[k] \in Nat /\ (c[k] = 0 => g[k] = 0),
         Sums(c, n)[n] > 0
  PROVE  \E b \in 1..n : c[b] > 0 /\ Sums(g, n)[n] * c[b] <= g[b] * Sums(c, n)[n]
<1>1. PICK e, t : e = Sums(g, n) /\ t = Sums(c, n)
  OBVIOUS
<1>2. /\ e[0] = 0 /\ t[0] = 0
      /\ \A k \in 1..n : e[k] = e[k - 1] + g[k] /\ t[k] = t[k - 1] + c[k]
  BY <1>1, SumsWhole DEF Whole
<1> DEFINE Shared(k) == \E b \in 1..k : c[b] > 0 /\ e[k] * c[b] <= g[b] * t[k]
<1>3. PICK S : S = {k \in 0..n : /\ e[k] \in Nat /\ t[k] \in Nat
                                 /\ (e[k] = 0 /\ t[k] = 0) \/ Shared(k)}
  OBVIOUS
<1>4. 0 \in S
  BY <1>2, <1>3
<1>5. ASSUME NEW k \in 1..n, k - 1 \in S PROVE k \in S
  <2>1. PICK l : l = k - 1
    OBVIOUS
  <2>2. /\ e[l] \in Nat /\ t[l] \in Nat
        /\ (e[l] = 0 /\ t[l] = 0) \/ Shared(l)
    BY <1>3, <1>5, <2>1
  <2>3. /\ g[k] \in Nat /\ c[k] \in Nat /\ (c[k] = 0 => g[k] = 0)
        /\ e[k] = e[l] + g[k] /\ t[k] = t[l] + c[k]
    BY <1>2, <2>1
  <2>4. e[k] \in Nat /\ t[k] \in Nat
    BY <2>2, <2>3
  <2>5. CASE e[l] = 0 /\ t[l] = 0
    <3>1. e[k] = g[k] /\ t[k] = c[k]
      BY <2>3, <2>5
    <3>2. CASE c[k] = 0
      <4>1. e[k] = 0 /\ t[k] = 0
        BY <2>3, <3>1, <3>2
      <4> QED
        BY <1>3, <4>1
    <3>3. CASE c[k] > 0
      <4>1. e[k] * c[k] <= g[k] * t[k]
        BY <2>3, <3>1
      <4>2. Shared(k)
        BY <3>3, <4>1
      <4> HIDE DEF Shared
      <4> QED
        BY <1>3, <2>4, <4>2
    <3> QED
      BY <2>3, <3>2, <3>3
  <2>6. CASE Shared(l)
    <3>1. PICK b \in 1..l : c[b] > 0 /\ e[l] * c[b] <= g[b] * t[l]
      BY <2>6
    <3>2. b \in 1..k /\ b \in 1..n /\ k \in 1..k
      BY <2>1
    <3>3. g[b] \in Nat /\ c[b] \in Nat \ {0}
      BY <3>1, <3>2
    <3>4. PICK x, y, p, q, h, d :
            x = e[l] /\ y = t[l] /\ p = g[k] /\ q = c[k] /\ h = g[b] /\ d = c[b]
      OBVIOUS
    <3>5. \/ (x + p) * d <= h * (y + q)
          \/ q > 0 /\ (x + p) * q <= p * (y + q)
      <4>1. /\ x \in Nat /\ y \in Nat /\ p \in Nat /\ q \in Nat /\ h \in Nat /\ d \in Nat \ {0}
            /\ x * d <= h * y /\ (q = 0 => p = 0)
        BY <2>2, <2>3, <3>1, <3>3, <3>4
      <4> HIDE DEF Shared
      <4> QED
        BY <4>1, Mediant
    <3>6. Shared(k)
      BY <2>3, <3>1, <3>2, <3>4, <3>5
    <3> HIDE DEF Shared
    <3> QED
      BY <1>3, <2>4, <3>6
  <2> HIDE DEF Shared
  <2> QED
    BY <2>2, <2>5, <2>6
<1>6. 0..n \subseteq S
  <2> HIDE DEF Shared
  <2> QED
    BY <1>4, <1>5, Upward
<1>7. (e[n] = 0 /\ t[n] = 0) \/ Shared(n)
  BY <1>3, <1>6
<1> QED
  BY <1>1, <1>7

-----------------------------------------------------------------------------
\* The rows a report is on.
Judgement == [p : 0..Scale, won : {0, 1}]

\* Every probability is in one band.
LEMMA OneBand ==
  ASSUME Scale \in Nat \ {0}, Bins \in Nat \ {0}, NEW p \in 0..Scale
  PROVE  \E b \in 0..(Bins - 1) :
           InBand(b, p) /\ \A l \in 0..(Bins - 1) : InBand(l, p) => l = b
<1>1. PICK x : x = p * Bins
  OBVIOUS
<1>2. x \in Nat /\ x <= Scale * Bins
  <2>1. p * Bins <= Scale * Bins /\ p * Bins \in Nat
    BY Scaled
  <2> QED
    BY <1>1, <2>1
<1>3. PICK S : S = {b \in 0..(Bins - 1) : b * Scale <= x}
  OBVIOUS
<1>4. PICK b \in S : \A l \in S : l <= b
  <2>1. S \subseteq 0..(Bins - 1) /\ 0 \in 0..(Bins - 1) /\ 0 * Scale = 0
    BY <1>3
  <2>2. 0 \in S
    BY <1>2, <1>3, <2>1
  <2>3. IsFiniteSet(0..(Bins - 1))
    BY 0 \in Int, Bins - 1 \in Int, FS_Interval
  <2>4. IsFiniteSet(S)
    BY <2>1, <2>3, FS_Subset
  <2>5. S \subseteq Nat
    BY <2>1
  <2> QED
    BY <2>2, <2>4, <2>5, GreatestOfFinite
<1>5. b \in 0..(Bins - 1) /\ b * Scale <= x
  BY <1>3
<1>6. InBand(b, p)
  <2>1. CASE b = Bins - 1
    <3>1. (b + 1) * Scale = Scale * Bins
      BY <2>1
    <3> QED
      BY <1>1, <1>2, <1>5, <2>1, <3>1 DEF InBand
  <2>2. CASE b # Bins - 1
    <3>1. b + 1 \in 0..(Bins - 1) /\ ~(b + 1 <= b)
      BY <1>5, <2>2
    <3>2. ~((b + 1) * Scale <= x)
      BY <1>3, <1>4, <3>1
    <3>3. (b + 1) * Scale \in Nat
      BY <1>5
    <3>4. x < (b + 1) * Scale
      BY <1>2, <3>2, <3>3
    <3> QED
      BY <1>1, <1>5, <2>2, <3>4 DEF InBand
  <2> QED
    BY <2>1, <2>2
<1>7. ASSUME NEW l \in 0..(Bins - 1), InBand(l, p) PROVE l = b
  <2>1. l * Scale <= x
    BY <1>1, <1>7 DEF InBand
  <2>2. l <= b
    BY <1>3, <1>4, <2>1
  <2>3. CASE l < b
    <3>1. l # Bins - 1 /\ l + 1 <= b /\ l + 1 \in Nat /\ b \in Nat
      BY <1>5, <2>3
    <3>2. x < (l + 1) * Scale
      BY <1>1, <1>7, <3>1 DEF InBand
    <3>3. (l + 1) * Scale <= b * Scale /\ (l + 1) * Scale \in Nat /\ b * Scale \in Nat
      BY <3>1, Scaled
    <3> QED
      BY <1>2, <1>5, <3>2, <3>3
  <2> QED
    BY <1>5, <2>2, <2>3
<1> QED
  BY <1>5, <1>6, <1>7

\* The state of the reports.
ReportsInv ==
  /\ reference \in References
  /\ live \in Seq(Values)
  /\ judged \in Seq(Judgement)

\* What calibration is judged on.
Counts == /\ Scale \in Nat \ {0} /\ Bins \in Nat \ {0}
          /\ judged \in Seq(Judgement) /\ Len(judged) \in Nat

\* What a row holds.
LEMMA Judgements ==
  ASSUME Counts, NEW i \in 1..Len(judged)
  PROVE  judged[i].p \in 0..Scale /\ judged[i].won \in {0, 1}
<1>1. judged[i] \in Judgement
  BY DEF Counts
<1> QED
  BY <1>1 DEF Judgement

\* The band that each row is in.
BandOf == [i \in 1..Len(judged) |-> 1 + CHOOSE b \in 0..(Bins - 1) : InBand(b, judged[i].p)]

\* The bands divide the rows.
LEMMA BandsPart ==
  ASSUME Counts
  PROVE  /\ BandOf \in [1..Len(judged) -> 1..Bins]
         /\ \A b \in 0..(Bins - 1) : Band(b) = {i \in 1..Len(judged) : BandOf[i] = b + 1}
<1>1. ASSUME NEW i \in 1..Len(judged)
      PROVE  /\ BandOf[i] \in 1..Bins
             /\ \A b \in 0..(Bins - 1) : InBand(b, judged[i].p) <=> BandOf[i] = b + 1
  <2>1. PICK b \in 0..(Bins - 1) :
          InBand(b, judged[i].p) /\ \A l \in 0..(Bins - 1) : InBand(l, judged[i].p) => l = b
    BY Judgements, OneBand DEF Counts
  <2>2. BandOf[i] = 1 + CHOOSE l \in 0..(Bins - 1) : InBand(l, judged[i].p)
    BY DEF BandOf
  <2>3. (CHOOSE l \in 0..(Bins - 1) : InBand(l, judged[i].p)) = b
    BY <2>1
  <2>4. BandOf[i] = b + 1
    <3>1. b \in Int /\ 1 + b = b + 1
      BY DEF Counts
    <3> QED
      BY <2>2, <2>3, <3>1
  <2> QED
    BY <2>1, <2>4 DEF Counts
<1>2. BandOf \in [1..Len(judged) -> 1..Bins]
  BY <1>1 DEF BandOf
<1>3. ASSUME NEW b \in 0..(Bins - 1)
      PROVE  Band(b) = {i \in 1..Len(judged) : BandOf[i] = b + 1}
  BY <1>1 DEF Band
<1> QED
  BY <1>2, <1>3

\* A row is in one band.
LEMMA BandsOnce ==
  ASSUME Counts, NEW i \in 1..Len(judged)
  PROVE  Cardinality({b \in 0..(Bins - 1) : i \in Band(b)}) = 1
<1>1. PICK b : b = BandOf[i] - 1
  OBVIOUS
<1>2. b \in 0..(Bins - 1) /\ BandOf[i] = b + 1
  BY <1>1, BandsPart DEF Counts
<1>3. \A l \in 0..(Bins - 1) : i \in Band(l) <=> l = b
  <2>1. \A l \in 0..(Bins - 1) : i \in Band(l) <=> BandOf[i] = l + 1
    BY BandsPart
  <2> QED
    BY <1>2, <2>1 DEF Counts
<1>4. {l \in 0..(Bins - 1) : i \in Band(l)} = {b}
  BY <1>2, <1>3
<1> QED
  BY <1>4, FS_Singleton

\* The gap of a band is a number of Scale-ths, zero for no rows and for rows that
\* were foreseen.
LEMMA GapBounds ==
  ASSUME Counts, NEW b \in 0..(Bins - 1)
  PROVE  /\ Gap(b) \in Nat
         /\ (\A i \in Band(b) : judged[i].p = Scale * judged[i].won) => Gap(b) = 0
<1>1. PICK n, off : /\ n = Len(judged)
                    /\ off = [i \in 1..n |-> IF i \in Band(b) THEN judged[i].p - Scale * judged[i].won
                                                             ELSE 0]
  OBVIOUS
<1>2. PICK sum : sum = Sums(off, n)[n]
  OBVIOUS
<1>3. Gap(b) = IF sum < 0 THEN 0 - sum ELSE sum
  BY <1>1, <1>2 DEF Gap
<1>4. n \in Nat
  BY <1>1 DEF Counts
<1>5. ASSUME NEW i \in 1..n PROVE off[i] \in Int
  <2>1. judged[i].p \in Int /\ judged[i].won \in Int /\ Scale \in Int
    BY <1>1, Judgements DEF Counts
  <2>2. judged[i].p - Scale * judged[i].won \in Int
    BY <2>1
  <2> QED
    BY <1>1, <2>2
<1>6. sum \in Int
  <2>1. n \in 0..n
    BY <1>4
  <2> QED
    BY <1>2, <1>4, <1>5, <2>1, SumsWhole DEF Whole
<1>7. ASSUME \A i \in Band(b) : judged[i].p = Scale * judged[i].won PROVE sum = 0
  <2>1. ASSUME NEW i \in 1..n PROVE off[i] = 0
    <3>1. judged[i].p \in Int
      BY <1>1, Judgements
    <3> QED
      BY <1>1, <1>7, <3>1
  <2> QED
    BY <1>2, <1>4, <2>1, SumsZero
<1> QED
  BY <1>3, <1>6, <1>7

\* Calibration reports are sound on any rows.
LEMMA CalibrationShown ==
  ASSUME Counts
  PROVE  CalibrationSound
<1>1. PICK g, c : /\ g = [k \in 1..Bins |-> Gap(k - 1)]
                  /\ c = [k \in 1..Bins |-> Cardinality(Band(k - 1))]
  OBVIOUS
<1>2. PICK T : T = 1..Len(judged)
  OBVIOUS
<1>3. IsFiniteSet(T) /\ Cardinality(T) = Len(judged)
  BY <1>2, FirstNumbers DEF Counts
<1>4. ASSUME NEW k \in 1..Bins
      PROVE  /\ k - 1 \in 0..(Bins - 1)
             /\ Band(k - 1) \subseteq T /\ IsFiniteSet(Band(k - 1))
             /\ Band(k - 1) = {i \in T : BandOf[i] = k}
  <2>1. k - 1 \in 0..(Bins - 1) /\ (k - 1) + 1 = k
    BY DEF Counts
  <2>2. Band(k - 1) = {i \in T : BandOf[i] = k}
    BY <1>2, <2>1, BandsPart
  <2>3. Band(k - 1) \subseteq T
    BY <2>2
  <2> QED
    BY <1>3, <2>1, <2>2, <2>3, FS_Subset
<1>5. (\A k \in 1..Bins : c[k] \in Nat) /\ Sums(c, Bins)[Bins] = Len(judged)
  <2>1. Parts(c, T, BandOf, Bins)
    BY <1>1, <1>4 DEF Parts
  <2>2. BandOf \in [T -> 1..Bins]
    BY <1>2, BandsPart
  <2> QED
    BY <1>3, <2>1, <2>2, PartsCounted DEF Counts
<1>6. ASSUME NEW k \in 1..Bins
      PROVE  g[k] \in Nat /\ c[k] \in Nat /\ (c[k] = 0 => g[k] = 0)
  <2>1. g[k] = Gap(k - 1) /\ c[k] = Cardinality(Band(k - 1))
    BY <1>1
  <2>2. g[k] \in Nat
    BY <1>4, <2>1, GapBounds
  <2>3. ASSUME c[k] = 0 PROVE g[k] = 0
    <3>1. Band(k - 1) = {}
      BY <1>4, <2>1, <2>3, FS_EmptySet
    <3> QED
      BY <1>4, <2>1, <3>1, GapBounds
  <2> QED
    BY <1>5, <2>2, <2>3
<1>7. ExpectedError = Sums(g, Bins)[Bins]
  BY <1>1 DEF ExpectedError
<1>8. ASSUME judged # <<>>
      PROVE  \E b \in 0..(Bins - 1) :
               Band(b) # {} /\ ExpectedError * Cardinality(Band(b)) <= Gap(b) * Len(judged)
  <2>1. Len(judged) > 0
    BY <1>8 DEF Counts
  <2>2. PICK k \in 1..Bins :
          c[k] > 0 /\ Sums(g, Bins)[Bins] * c[k] <= g[k] * Sums(c, Bins)[Bins]
    BY <1>5, <1>6, <2>1, LargestShare DEF Counts
  <2>3. /\ ExpectedError * Cardinality(Band(k - 1)) <= Gap(k - 1) * Len(judged)
        /\ Cardinality(Band(k - 1)) > 0
    BY <1>1, <1>5, <1>7, <2>2
  <2>4. Band(k - 1) # {}
    BY <2>3, FS_EmptySet
  <2> QED
    BY <1>4, <2>3, <2>4
<1>9. ASSUME \A i \in 1..Len(judged) : judged[i].p = Scale * judged[i].won
      PROVE  ExpectedError = 0
  <2>1. ASSUME NEW k \in 1..Bins PROVE g[k] = 0
    BY <1>1, <1>2, <1>4, <1>9, GapBounds
  <2> QED
    BY <1>7, <2>1, SumsZero DEF Counts
<1> QED
  BY <1>8, <1>9, BandsOnce DEF CalibrationSound

-----------------------------------------------------------------------------
\* Division with remainder.
LEMMA DivMod ==
  ASSUME NEW a \in Nat, NEW b \in Nat \ {0}
  PROVE  a \div b \in Nat /\ a % b \in 0..(b - 1) /\ a = (a \div b) * b + (a % b)
  OBVIOUS

\* Quotient and remainder are the only ones.
LEMMA DivUnique ==
  ASSUME NEW b \in Nat \ {0}, NEW q \in Nat, NEW d \in 0..(b - 1), NEW k \in Nat, NEW r \in 0..(b - 1),
         q * b + d = k * b + r
  PROVE  q = k /\ d = r
<1>1. ASSUME NEW x \in Nat, NEW y \in Nat, NEW s \in 0..(b - 1), NEW u \in 0..(b - 1),
             x < y, x * b + s = y * b + u
      PROVE  FALSE
  <2>1. (x + 1) * b <= y * b /\ (x + 1) * b \in Nat /\ y * b \in Nat
    BY <1>1, Scaled
  <2>2. (x + 1) * b = x * b + b /\ x * b \in Nat
    OBVIOUS
  <2> QED
    BY <1>1, <2>1, <2>2
<1>2. q = k
  <2>1. ~(q < k) /\ ~(k < q)
    BY <1>1
  <2> QED
    BY <2>1
<1> QED
  BY <1>2

\* Numbers, at least one.
Sample(seq) == seq \in Seq(Int) /\ Len(seq) \in Nat \ {0}

\* Sorted numbers are numbers.
LEMMA SortedTypes ==
  ASSUME NEW seq, Sample(seq)
  PROVE  \A k \in 1..Len(seq) : Sorted(seq)[k] \in Int
<1>1. ASSUME NEW k \in 1..Len(seq) PROVE Sorted(seq)[k] \in Int
  <2>1. PICK i \in 1..Len(seq) : Placed(seq, k, i)
    BY SortedPlaces DEF Sample
  <2>2. seq[i] \in Int
    BY DEF Sample
  <2> QED
    BY <2>1, <2>2 DEF Placed
<1> QED
  BY <1>1

\* Where np.quantile looks.
LEMMA QuantilePlace ==
  ASSUME PsiBins \in Nat \ {0}, NEW n \in Nat \ {0}, NEW i \in 0..PsiBins
  PROVE  /\ (i * (n - 1)) \div PsiBins \in 0..(n - 1)
         /\ (i * (n - 1)) % PsiBins \in 0..(PsiBins - 1)
         /\ i = 0 => (i * (n - 1)) \div PsiBins = 0 /\ (i * (n - 1)) % PsiBins = 0
         /\ i = PsiBins => (i * (n - 1)) \div PsiBins = n - 1
<1>1. PICK place, k, r, m : /\ place = i * m /\ k = place \div PsiBins /\ r = place % PsiBins
                            /\ m = n - 1
  OBVIOUS
<1>2. m \in Nat /\ place \in Nat
  BY <1>1
<1>3. k \in Nat /\ r \in 0..(PsiBins - 1) /\ place = k * PsiBins + r
  BY <1>1, <1>2, DivMod
<1>4. i * m <= PsiBins * m /\ PsiBins * m \in Nat
  BY <1>2, Scaled
<1>5. k <= m
  <2> SUFFICES ASSUME m + 1 <= k PROVE FALSE
    BY <1>2, <1>3
  <2>1. (m + 1) * PsiBins <= k * PsiBins /\ (m + 1) * PsiBins \in Nat /\ k * PsiBins \in Nat
    BY <1>2, <1>3, Scaled
  <2>2. (m + 1) * PsiBins = PsiBins * m + PsiBins
    BY <1>2
  <2> QED
    BY <1>1, <1>2, <1>3, <1>4, <2>1, <2>2
<1>6. ASSUME i = 0 PROVE k = 0 /\ r = 0
  <2>1. 0 * PsiBins + 0 = k * PsiBins + r
    BY <1>1, <1>2, <1>3, <1>6
  <2> QED
    BY <1>3, <2>1, DivUnique
<1>7. ASSUME i = PsiBins PROVE k = m
  <2>1. m * PsiBins + 0 = k * PsiBins + r
    BY <1>1, <1>2, <1>3, <1>7
  <2>2. 0 \in 0..(PsiBins - 1)
    OBVIOUS
  <2> QED
    BY <1>2, <1>3, <2>1, <2>2, DivUnique
<1> QED
  BY <1>1, <1>2, <1>3, <1>5, <1>6, <1>7

\* A mixture of a number with itself.
LEMMA Mixed ==
  ASSUME NEW c \in Int, NEW r \in Int, NEW v \in Int
  PROVE  (c - r) * v + r * v = c * v
  OBVIOUS

\* Quantiles are numbers, the outer ones the extremes; of equal values, the value.
LEMMA Quantiles ==
  ASSUME PsiBins \in Nat \ {0}, NEW seq, Sample(seq)
  PROVE  /\ \A i \in 0..PsiBins : Quantile(seq, i) \in Int
         /\ Quantile(seq, 0) = PsiBins * Sorted(seq)[1]
         /\ Quantile(seq, PsiBins) = PsiBins * Sorted(seq)[Len(seq)]
         /\ \A v \in Int, i \in 0..PsiBins :
              (\A j \in 1..Len(seq) : seq[j] = v) => Quantile(seq, i) = PsiBins * v
<1>1. PICK n, s : n = Len(seq) /\ s = Sorted(seq)
  OBVIOUS
<1>2. n \in Nat \ {0} /\ \A k \in 1..n : s[k] \in Int
  BY <1>1, SortedTypes DEF Sample
<1> DEFINE At(i) == (i * (n - 1)) \div PsiBins
           Rest(i) == (i * (n - 1)) % PsiBins
<1>3. ASSUME NEW i \in 0..PsiBins
      PROVE  /\ At(i) \in 0..(n - 1) /\ Rest(i) \in 0..(PsiBins - 1)
             /\ i = 0 => At(i) = 0 /\ Rest(i) = 0
             /\ i = PsiBins => At(i) = n - 1
  BY <1>2, QuantilePlace
<1>4. ASSUME NEW i \in 0..PsiBins
      PROVE  Quantile(seq, i) = IF At(i) + 1 = n THEN PsiBins * s[At(i) + 1]
                                ELSE (PsiBins - Rest(i)) * s[At(i) + 1] + (Rest(i) * s[At(i) + 2])
  BY <1>1 DEF Quantile
<1> HIDE DEF At, Rest
<1>5. ASSUME NEW i \in 0..PsiBins PROVE Quantile(seq, i) \in Int
  <2>1. PICK k, r : k = At(i) /\ r = Rest(i)
    OBVIOUS
  <2>2. k \in 0..(n - 1) /\ r \in 0..(PsiBins - 1)
    BY <1>3, <2>1
  <2>3. CASE k + 1 = n
    <3>1. s[k + 1] \in Int
      BY <1>2, <2>2
    <3> QED
      BY <1>4, <2>1, <2>3, <3>1
  <2>4. CASE k + 1 # n
    <3>1. s[k + 1] \in Int /\ s[k + 2] \in Int
      BY <1>2, <2>2, <2>4
    <3>2. PsiBins - r \in Int /\ r \in Int
      BY <2>2
    <3> QED
      BY <1>4, <2>1, <2>4, <3>1, <3>2
  <2> QED
    BY <2>3, <2>4
<1>6. Quantile(seq, 0) = PsiBins * s[1]
  <2>1. 0 \in 0..PsiBins
    OBVIOUS
  <2>2. At(0) = 0 /\ Rest(0) = 0
    BY <1>3, <2>1
  <2>3. s[1] \in Int
    BY <1>2
  <2>4. CASE n = 1
    BY <1>4, <2>1, <2>2, <2>4
  <2>5. CASE n # 1
    <3>1. s[2] \in Int
      BY <1>2, <2>5
    <3>2. Quantile(seq, 0) = (PsiBins - 0) * s[1] + (0 * s[2])
      BY <1>4, <2>1, <2>2, <2>5
    <3> QED
      BY <2>3, <3>1, <3>2
  <2> QED
    BY <2>4, <2>5
<1>7. Quantile(seq, PsiBins) = PsiBins * s[n]
  <2>1. PsiBins \in 0..PsiBins
    OBVIOUS
  <2>2. At(PsiBins) = n - 1 /\ At(PsiBins) + 1 = n
    BY <1>2, <1>3, <2>1
  <2> QED
    BY <1>4, <2>1, <2>2
<1>8. ASSUME NEW v \in Int, NEW i \in 0..PsiBins, \A j \in 1..Len(seq) : seq[j] = v
      PROVE  Quantile(seq, i) = PsiBins * v
  <2>1. ASSUME NEW k \in 1..n PROVE s[k] = v
    <3>1. PICK j \in 1..Len(seq) : Placed(seq, k, j)
      BY <1>1, SortedPlaces DEF Sample
    <3> QED
      BY <1>1, <1>8, <3>1 DEF Placed
  <2>2. PICK k, r : k = At(i) /\ r = Rest(i)
    OBVIOUS
  <2>3. k \in 0..(n - 1) /\ r \in 0..(PsiBins - 1)
    BY <1>3, <2>2
  <2>4. s[k + 1] = v /\ (k + 1 # n => s[k + 2] = v)
    BY <1>2, <2>1, <2>3
  <2>5. (PsiBins - r) * v + r * v = PsiBins * v
    BY <2>3, Mixed
  <2> QED
    BY <1>4, <2>2, <2>4, <2>5
<1> QED
  BY <1>1, <1>5, <1>6, <1>7, <1>8

\* Edges of bins: numbers that ascend.
Ascending(edges) ==
  /\ Len(edges) \in Nat
  /\ \A k \in 1..Len(edges) : edges[k] \in Int
  /\ \A k, l \in 1..Len(edges) : k < l => edges[k] < edges[l]

\* What a function gives for finitely many things is finitely much.
LEMMA ImageFinite ==
  ASSUME NEW S, IsFiniteSet(S), NEW f, f = [x \in S |-> f[x]]
  PROVE  IsFiniteSet({f[x] : x \in S})
<1>1. PICK T : T = {f[x] : x \in S}
  OBVIOUS
<1>2. f \in [S -> T]
  BY <1>1
<1>3. \A y \in T : \E x \in S : f[x] = y
  BY <1>1
<1>4. f \in Surjection(S, T)
  BY <1>2, <1>3 DEF Surjection
<1>5. IsFiniteSet(T)
  BY <1>4, FS_Surjection
<1> QED
  BY <1>1, <1>5

\* The edges ascend, and one is left only of equal quantiles.
LEMMA EdgesAscend ==
  ASSUME PsiBins \in Nat \ {0}, NEW seq, Sample(seq)
  PROVE  /\ Ascending(Edges(seq))
         /\ Len(Edges(seq)) < 2 => \A i, j \in 0..PsiBins : Quantile(seq, i) = Quantile(seq, j)
         /\ (\A i, j \in 0..PsiBins : Quantile(seq, i) = Quantile(seq, j)) => Len(Edges(seq)) < 2
<1>1. PICK S : S = {Quantile(seq, i) : i \in 0..PsiBins}
  OBVIOUS
<1>2. S \subseteq Int
  BY <1>1, Quantiles
<1>3. IsFiniteSet(S)
  <2>1. PICK f : f = [i \in 0..PsiBins |-> Quantile(seq, i)]
    OBVIOUS
  <2>2. f = [i \in 0..PsiBins |-> f[i]] /\ S = {f[i] : i \in 0..PsiBins}
    BY <1>1, <2>1
  <2>3. IsFiniteSet(0..PsiBins)
    BY 0 \in Int, PsiBins \in Int, FS_Interval
  <2> QED
    BY <2>2, <2>3, ImageFinite
<1>4. PICK edges : edges = Edges(seq) /\ edges = InOrder(S)
  BY <1>1 DEF Edges
<1>5. /\ Cardinality(S) \in Nat /\ Len(edges) = Cardinality(S)
      /\ \A k \in 1..Cardinality(S) : edges[k] \in S
      /\ \A i \in S : \E k \in 1..Cardinality(S) : edges[k] = i
      /\ \A k, l \in 1..Cardinality(S) : k < l => edges[k] < edges[l]
  BY <1>2, <1>3, <1>4, InOrderEnumerates DEF Enumerates
<1>6. Ascending(edges)
  BY <1>2, <1>5 DEF Ascending
<1>7. ASSUME Len(edges) < 2, NEW i \in 0..PsiBins, NEW j \in 0..PsiBins
      PROVE  Quantile(seq, i) = Quantile(seq, j)
  <2>1. Quantile(seq, i) \in S /\ Quantile(seq, j) \in S
    BY <1>1
  <2>2. PICK k \in 1..Len(edges), l \in 1..Len(edges) :
          edges[k] = Quantile(seq, i) /\ edges[l] = Quantile(seq, j)
    BY <1>5, <2>1
  <2>3. k = l
    BY <1>5, <1>7
  <2> QED
    BY <2>2, <2>3
<1>8. ASSUME \A i, j \in 0..PsiBins : Quantile(seq, i) = Quantile(seq, j)
      PROVE  Len(edges) < 2
  <2>1. \A x, y \in S : x = y
    BY <1>1, <1>8
  <2> SUFFICES ASSUME 2 <= Len(edges) PROVE FALSE
    BY <1>5
  <2>2. 1 \in 1..Cardinality(S) /\ 2 \in 1..Cardinality(S)
    BY <1>5
  <2>3. edges[1] \in S /\ edges[2] \in S /\ edges[1] < edges[2]
    BY <1>5, <2>2
  <2>4. edges[1] = edges[2] /\ edges[1] \in Int
    BY <1>2, <2>1, <2>3
  <2> QED
    BY <2>3, <2>4
<1> QED
  BY <1>4, <1>6, <1>7, <1>8

\* With the outer edges at infinity every value is in one bin.
LEMMA OneBin ==
  ASSUME NEW edges, Ascending(edges), Len(edges) > 1, PsiBins \in Nat, NEW x \in Int
  PROVE  \E k \in 1..(Len(edges) - 1) :
           /\ InPsiBin(edges, k, x)
           /\ \A l \in 1..(Len(edges) - 1) : InPsiBin(edges, l, x) => l = k
<1>1. PICK n, y : n = Len(edges) /\ y = PsiBins * x
  OBVIOUS
<1>2. n \in Nat /\ n > 1 /\ y \in Int
  BY <1>1 DEF Ascending
<1>3. PICK S : S = {k \in 1..(n - 1) : k = 1 \/ edges[k] <= y}
  OBVIOUS
<1>4. PICK k \in S : \A l \in S : l <= k
  <2>1. 1 \in S /\ S \subseteq 1..(n - 1) /\ S \subseteq Nat
    BY <1>2, <1>3
  <2>2. IsFiniteSet(1..(n - 1))
    BY <1>2, FirstNumbers
  <2>3. IsFiniteSet(S)
    BY <2>1, <2>2, FS_Subset
  <2> QED
    BY <2>1, <2>3, GreatestOfFinite
<1>5. k \in 1..(n - 1) /\ (k > 1 => edges[k] <= y)
  BY <1>3
<1>6. ASSUME k + 1 < n PROVE y < edges[k + 1]
  <2>1. k + 1 \in 1..(n - 1) /\ ~(k + 1 <= k) /\ k + 1 # 1
    BY <1>2, <1>5, <1>6
  <2>2. ~(edges[k + 1] <= y)
    BY <1>3, <1>4, <2>1
  <2>3. edges[k + 1] \in Int
    BY <1>1, <1>2, <2>1 DEF Ascending
  <2> QED
    BY <1>2, <2>2, <2>3
<1>7. InPsiBin(edges, k, x)
  BY <1>1, <1>5, <1>6 DEF InPsiBin
<1>8. ASSUME NEW l \in 1..(n - 1), InPsiBin(edges, l, x) PROVE l = k
  <2>1. (l > 1 => edges[l] <= y) /\ (l + 1 < n => y < edges[l + 1])
    BY <1>1, <1>8 DEF InPsiBin
  <2>2. l \in S
    BY <1>2, <1>3, <2>1
  <2>3. l <= k
    BY <1>4, <2>2
  <2>4. ASSUME l < k PROVE FALSE
    <3>1. l + 1 < n /\ l + 1 \in 1..n /\ k \in 1..n /\ l + 1 <= k /\ k > 1
      BY <1>2, <1>5, <2>4
    <3>2. y < edges[l + 1] /\ edges[k] <= y
      BY <1>5, <2>1, <3>1
    <3>3. edges[l + 1] \in Int /\ edges[k] \in Int
      BY <1>1, <3>1 DEF Ascending
    <3>4. l + 1 = k \/ edges[l + 1] < edges[k]
      BY <1>1, <1>2, <3>1 DEF Ascending
    <3> QED
      BY <1>2, <3>2, <3>3, <3>4
  <2> QED
    BY <1>5, <2>3, <2>4
<1> QED
  BY <1>1, <1>5, <1>7, <1>8

\* The bins account for every row.
LEMMA RowsBinned ==
  ASSUME PsiBins \in Nat, NEW edges, Ascending(edges), Len(edges) > 1,
         NEW seq \in Seq(Int)
  PROVE  Sums(Histogram(edges, seq), Len(edges) - 1)[Len(edges) - 1] = Len(seq)
<1>1. PICK m, T : m = Len(edges) - 1 /\ T = 1..Len(seq)
  OBVIOUS
<1>2. m \in Nat /\ IsFiniteSet(T) /\ Cardinality(T) = Len(seq)
  BY <1>1, FirstNumbers DEF Ascending
<1>3. PICK part : part = [i \in T |-> CHOOSE k \in 1..m : InPsiBin(edges, k, seq[i])]
  OBVIOUS
<1>4. ASSUME NEW i \in T
      PROVE  part[i] \in 1..m /\ \A k \in 1..m : InPsiBin(edges, k, seq[i]) <=> part[i] = k
  <2>1. seq[i] \in Int
    BY <1>1
  <2>2. PICK k \in 1..m :
          InPsiBin(edges, k, seq[i]) /\ \A l \in 1..m : InPsiBin(edges, l, seq[i]) => l = k
    BY <1>1, <2>1, OneBin
  <2>3. part[i] = CHOOSE l \in 1..m : InPsiBin(edges, l, seq[i])
    BY <1>3
  <2>4. part[i] = k
    BY <2>2, <2>3
  <2> QED
    BY <2>2, <2>4
<1>5. part \in [T -> 1..m]
  BY <1>3, <1>4
<1>6. PICK f : f = Histogram(edges, seq)
  OBVIOUS
<1>7. Parts(f, T, part, m)
  <2> SUFFICES ASSUME NEW k \in 1..m PROVE f[k] = Cardinality({i \in T : part[i] = k})
    BY DEF Parts
  <2>1. f[k] = Cardinality({i \in T : InPsiBin(edges, k, seq[i])})
    BY <1>1, <1>6 DEF Histogram
  <2>2. {i \in T : InPsiBin(edges, k, seq[i])} = {i \in T : part[i] = k}
    BY <1>4
  <2> QED
    BY <2>1, <2>2
<1>8. Sums(f, m)[m] = Cardinality(T)
  BY <1>2, <1>5, <1>7, PartsCounted
<1> QED
  BY <1>1, <1>2, <1>6, <1>8

-----------------------------------------------------------------------------
\* A sample over and over: each of its places is taken as often.
LEMMA Repeated ==
  ASSUME NEW n \in Nat, NEW m \in Nat \ {0}, NEW H, H \subseteq 1..m
  PROVE  Cardinality({i \in 1..(n * m) : 1 + (i % m) \in H}) = n * Cardinality(H)
<1>1. PICK T : T = {i \in 1..(n * m) : 1 + (i % m) \in H}
  OBVIOUS
<1>2. PICK D : D = (0..(n - 1)) \X H
  OBVIOUS
<1>3. n * m \in Nat
  OBVIOUS
<1>4. IsFiniteSet(H) /\ IsFiniteSet(0..(n - 1)) /\ Cardinality(0..(n - 1)) = n
  <2>1. IsFiniteSet(1..m)
    BY FirstNumbers
  <2>2. /\ IsFiniteSet(0..(n - 1))
        /\ Cardinality(0..(n - 1)) = IF 0 > n - 1 THEN 0 ELSE n - 1 - 0 + 1
    BY 0 \in Int, n - 1 \in Int, FS_Interval
  <2>3. IsFiniteSet(H)
    BY <2>1, FS_Subset, Zenon
  <2>4. Cardinality(0..(n - 1)) = n
    <3>1. n = 0 \/ n > 0
      OBVIOUS
    <3> QED
      BY <2>2, <3>1
  <2> QED
    BY <2>2, <2>3, <2>4
<1>5. IsFiniteSet(D) /\ Cardinality(D) = n * Cardinality(H)
  BY <1>2, <1>4, FS_Product
<1>5a. \A d \in D : d[1] \in 0..(n - 1) /\ d[2] \in H /\ d = <<d[1], d[2]>>
  BY <1>2
<1>6. PICK f : f = [d \in D |-> IF d[2] = 1 THEN d[1] * m + m ELSE d[1] * m + (d[2] - 1)]
  OBVIOUS
<1>7. ASSUME NEW q \in 0..(n - 1), NEW j \in H
      PROVE  f[<<q, j>>] = IF j = 1 THEN q * m + m ELSE q * m + (j - 1)
  BY <1>2, <1>6
<1>8. ASSUME NEW q \in 0..(n - 1), NEW j \in H
      PROVE  f[<<q, j>>] \in 1..(n * m) /\ 1 + (f[<<q, j>>] % m) = j
  <2>1. q \in Nat /\ q + 1 <= n /\ q + 1 \in Nat /\ j \in 1..m
    OBVIOUS
  <2>2. (q + 1) * m <= n * m /\ (q + 1) * m = q * m + m /\ q * m \in Nat
    BY <2>1, Scaled
  <2>3. CASE j = 1
    <3>1. PICK i : i = q * m + m
      OBVIOUS
    <3>2. i \in 1..(n * m) /\ i \in Nat /\ f[<<q, j>>] = i
      BY <1>3, <1>7, <2>2, <2>3, <3>1
    <3>3. i = (i \div m) * m + (i % m) /\ i \div m \in Nat /\ i % m \in 0..(m - 1)
      BY <3>2, DivMod
    <3>4. (i \div m) * m + (i % m) = (q + 1) * m + 0
      BY <2>2, <3>1, <3>3
    <3>5. i % m = 0
      <4>1. PICK k, r, s, u : k = i \div m /\ r = i % m /\ s = q + 1 /\ u = 0
        OBVIOUS
      <4>2. k \in Nat /\ r \in 0..(m - 1) /\ s \in Nat /\ u \in 0..(m - 1) /\ k * m + r = s * m + u
        BY <2>1, <3>3, <3>4, <4>1
      <4> QED
        BY <4>1, <4>2, DivUnique
    <3> QED
      BY <2>3, <3>2, <3>5
  <2>4. CASE j # 1
    <3>1. PICK i : i = q * m + (j - 1)
      OBVIOUS
    <3>2. i \in 1..(n * m) /\ i \in Nat /\ f[<<q, j>>] = i
      BY <1>3, <1>7, <2>1, <2>2, <2>4, <3>1
    <3>3. i = (i \div m) * m + (i % m) /\ i \div m \in Nat /\ i % m \in 0..(m - 1)
      BY <3>2, DivMod
    <3>4. (i \div m) * m + (i % m) = q * m + (j - 1) /\ j - 1 \in 0..(m - 1)
      BY <2>1, <3>1, <3>3
    <3>5. i % m = j - 1
      <4>1. PICK k, r, s : k = i \div m /\ r = i % m /\ s = j - 1
        OBVIOUS
      <4>2. k \in Nat /\ r \in 0..(m - 1) /\ q \in Nat /\ s \in 0..(m - 1) /\ k * m + r = q * m + s
        BY <2>1, <3>3, <3>4, <4>1
      <4> QED
        BY <4>1, <4>2, DivUnique
    <3> QED
      BY <2>1, <3>2, <3>5
  <2> QED
    BY <2>3, <2>4
<1>9. f \in [D -> T]
  <2>1. ASSUME NEW d \in D PROVE f[d] \in T
    <3>1. PICK q \in 0..(n - 1), j \in H : d = <<q, j>>
      BY <1>5a
    <3> QED
      BY <1>1, <1>8, <3>1
  <2> QED
    BY <1>6, <2>1
<1>10. ASSUME NEW q \in 0..(n - 1), NEW j \in H, NEW s \in 0..(n - 1), NEW l \in H,
              f[<<q, j>>] = f[<<s, l>>]
       PROVE  q = s /\ j = l
  <2>1. j = l
    BY <1>8, <1>10
  <2>2. q \in Nat /\ s \in Nat /\ j \in 1..m /\ q * m \in Nat /\ s * m \in Nat
    OBVIOUS
  <2>3. q * m = s * m
    BY <1>7, <1>10, <2>1, <2>2
  <2>4. q * m + 0 = s * m + 0 /\ 0 \in 0..(m - 1)
    BY <2>3
  <2> QED
    BY <2>1, <2>2, <2>4, DivUnique
<1>11. ASSUME NEW i \in T PROVE \E d \in D : f[d] = i
  <2>1. i \in 1..(n * m) /\ 1 + (i % m) \in H
    BY <1>1
  <2>2. PICK k, r : k = i \div m /\ r = i % m
    OBVIOUS
  <2>2a. i \in Nat /\ i >= 1 /\ i <= n * m
    BY <1>3, <2>1
  <2>2b. i \div m \in Nat /\ i % m \in 0..(m - 1) /\ i = (i \div m) * m + (i % m)
    BY <2>2a, DivMod
  <2>3. k \in Nat /\ r \in 0..(m - 1) /\ i = k * m + r /\ i \in Nat /\ i >= 1 /\ i <= n * m
    BY <2>2, <2>2a, <2>2b
  <2>4. k <= n
    <3> SUFFICES ASSUME n + 1 <= k PROVE FALSE
      BY <2>3
    <3>1. (n + 1) * m <= k * m /\ (n + 1) * m = n * m + m /\ k * m \in Nat
      BY <2>3, Scaled
    <3> QED
      BY <1>3, <2>3, <3>1
  <2>5. CASE r = 0
    <3>1. k # 0
      BY <2>3, <2>5
    <3>2. k - 1 \in 0..(n - 1) /\ 1 \in H
      BY <2>1, <2>2, <2>3, <2>4, <2>5, <3>1
    <3>3. f[<<k - 1, 1>>] = (k - 1) * m + m
      BY <1>7, <3>2
    <3>4. (k - 1) * m + m = k * m
      BY <2>3
    <3>5. f[<<k - 1, 1>>] = i /\ <<k - 1, 1>> \in D
      BY <1>2, <2>3, <2>5, <3>2, <3>3, <3>4
    <3> QED
      BY <3>5
  <2>6. CASE r # 0
    <3>1. k # n
      BY <1>3, <2>3, <2>6
    <3>2. k \in 0..(n - 1) /\ 1 + r \in H /\ 1 + r # 1 /\ (1 + r) - 1 = r
      BY <2>1, <2>2, <2>3, <2>4, <2>6, <3>1
    <3>3. f[<<k, 1 + r>>] = k * m + r
      BY <1>7, <3>2
    <3>4. <<k, 1 + r>> \in D
      BY <1>2, <3>2
    <3> QED
      BY <2>3, <3>3, <3>4
  <2> QED
    BY <2>5, <2>6
<1>12. ExistsBijection(D, T)
  <2>1. \A d, e \in D : f[d] = f[e] => d = e
    <3> SUFFICES ASSUME NEW d \in D, NEW e \in D, f[d] = f[e] PROVE d = e
      OBVIOUS
    <3>1. PICK q \in 0..(n - 1), j \in H : d = <<q, j>>
      BY <1>5a
    <3>2. PICK s \in 0..(n - 1), l \in H : e = <<s, l>>
      BY <1>5a
    <3> QED
      BY <1>10, <3>1, <3>2
  <2>2. f \in Injection(D, T)
    BY <1>9, <2>1 DEF Injection, IsInjective
  <2>3. f \in Surjection(D, T)
    BY <1>9, <1>11 DEF Surjection
  <2> QED
    BY <2>2, <2>3 DEF ExistsBijection, Bijection
<1>13. Cardinality(T) = Cardinality(D)
  BY <1>5, <1>12, FS_Bijection
<1> QED
  BY <1>1, <1>5, <1>13

-----------------------------------------------------------------------------
\* The distinct values of a sample.
LEMMA DistinctCounts ==
  ASSUME NEW seq, Len(seq) \in Nat
  PROVE  /\ IsFiniteSet(Distinct(seq)) /\ Cardinality(Distinct(seq)) \in Nat
         /\ Cardinality(Distinct(seq)) = 1 =>
              \E v : Distinct(seq) = {v} /\ \A i \in 1..Len(seq) : seq[i] = v
<1>1. PICK f : f = [i \in 1..Len(seq) |-> seq[i]]
  OBVIOUS
<1>2. f = [i \in 1..Len(seq) |-> f[i]] /\ Distinct(seq) = {f[i] : i \in 1..Len(seq)}
  BY <1>1 DEF Distinct
<1>3. IsFiniteSet(Distinct(seq))
  BY <1>2, FirstNumbers, ImageFinite
<1>4. Cardinality(Distinct(seq)) \in Nat
  BY <1>3, FS_CardinalityType
<1>5. ASSUME Cardinality(Distinct(seq)) = 1
      PROVE  \E v : Distinct(seq) = {v} /\ \A i \in 1..Len(seq) : seq[i] = v
  <2>1. PICK v : Distinct(seq) = {v}
    BY <1>3, <1>5, FS_Singleton
  <2>2. \A i \in 1..Len(seq) : seq[i] \in Distinct(seq)
    BY DEF Distinct
  <2> QED
    BY <2>1, <2>2
<1> QED
  BY <1>3, <1>4, <1>5

\* What drift is judged on.
DriftRows == /\ PsiBins \in Nat \ {0} /\ MinSamples \in Nat \ {0} /\ MinDistinct \in Nat \ {0}
        /\ MaxLive \in Nat
        /\ Sample(reference) /\ live \in Seq(Int)

\* A feature that did not vary in training has one edge, and the other way round.
LEMMA ConstantEdges ==
  ASSUME DriftRows
  PROVE  /\ (Cardinality(Distinct(reference)) = 1) => Len(Edges(reference)) < 2
         /\ Len(Edges(reference)) < 2 =>
              \A i, j \in 1..Len(reference) : reference[i] = reference[j]
<1>1. /\ PsiBins \in Nat \ {0} /\ Sample(reference) /\ reference \in Seq(Int)
      /\ Len(reference) \in Nat \ {0}
  BY DEF DriftRows, Sample
<1>2. ASSUME Cardinality(Distinct(reference)) = 1 PROVE Len(Edges(reference)) < 2
  <2>1. PICK v : \A i \in 1..Len(reference) : reference[i] = v
    BY <1>1, <1>2, DistinctCounts
  <2>2. v \in Int
    <3>1. 1 \in 1..Len(reference)
      BY <1>1
    <3>2. reference[1] \in Int
      BY <1>1, <3>1
    <3> QED
      BY <2>1, <3>1, <3>2
  <2>3. \A i \in 0..PsiBins : Quantile(reference, i) = PsiBins * v
    BY <1>1, <2>1, <2>2, Quantiles
  <2> QED
    BY <1>1, <2>3, EdgesAscend
<1>3. ASSUME Len(Edges(reference)) < 2, NEW i \in 1..Len(reference), NEW j \in 1..Len(reference)
      PROVE  reference[i] = reference[j]
  <2>1. PICK n, s : n = Len(reference) /\ s = Sorted(reference)
    OBVIOUS
  <2>2. n \in Nat \ {0} /\ \A k \in 1..n : s[k] \in Int
    BY <1>1, <2>1, SortedTypes
  <2>3. Quantile(reference, 0) = Quantile(reference, PsiBins)
    <3>1. 0 \in 0..PsiBins /\ PsiBins \in 0..PsiBins
      BY <1>1
    <3> QED
      BY <1>1, <1>3, <3>1, EdgesAscend
  <2>4. PsiBins * s[1] = PsiBins * s[n]
    BY <1>1, <2>1, <2>3, Quantiles
  <2>5. s[1] = s[n]
    <3>1. PICK x, y : x = s[1] /\ y = s[n]
      OBVIOUS
    <3>2. x \in Int /\ y \in Int /\ PsiBins * x = PsiBins * y
      BY <2>2, <2>4, <3>1
    <3>3. PsiBins * x - PsiBins * y = PsiBins * (x - y)
      BY <1>1, <3>2
    <3>4. PsiBins * (x - y) = 0 /\ x - y \in Int
      BY <1>1, <3>2, <3>3
    <3>5. x - y = 0
      BY <1>1, <3>4
    <3> QED
      BY <3>1, <3>2, <3>5
  <2>6. \A k \in 1..n : s[k] = s[1]
    <3> SUFFICES ASSUME NEW k \in 1..n PROVE s[k] = s[1]
      OBVIOUS
    <3>1. 1 \in 1..n /\ n \in 1..n /\ 1 <= k /\ k <= n
      BY <2>2
    <3>2. s[1] <= s[k] /\ s[k] <= s[n]
      BY <1>1, <2>1, <3>1, SortedAscends
    <3> QED
      BY <2>2, <2>5, <3>1, <3>2
  <2>7. PICK k \in 1..n : s[k] = reference[i]
    BY <1>1, <2>1, SortedPlaces
  <2>8. PICK l \in 1..n : s[l] = reference[j]
    BY <1>1, <2>1, SortedPlaces
  <2> QED
    BY <2>6, <2>7, <2>8
<1> QED
  BY <1>2, <1>3

\* The training sample over and over has the shares of the training sample.
LEMMA RepeatedIsStable ==
  ASSUME DriftRows, NEW n \in 1..MaxLive,
         live = [i \in 1..(n * Len(reference)) |-> reference[1 + (i % Len(reference))]]
  PROVE  Psi(reference, live) = "zero"
<1>1. PICK m : m = Len(reference)
  OBVIOUS
<1>2. m \in Nat \ {0} /\ n \in Nat \ {0} /\ n * m \in Nat \ {0} /\ live \in Seq(Int)
      /\ reference \in Seq(Int) /\ Sample(reference) /\ PsiBins \in Nat \ {0}
  BY <1>1 DEF DriftRows, Sample
<1>3. Len(live) = n * m
  BY <1>1, <1>2
<1>4. ASSUME NEW i \in 1..(n * m)
      PROVE  /\ live[i] = reference[1 + (i % m)] /\ 1 + (i % m) \in 1..m
  <2>1. i \in Nat
    BY <1>2
  <2>2. i % m \in 0..(m - 1)
    BY <1>2, <2>1, DivMod
  <2>3. live[i] = reference[1 + (i % m)]
    BY <1>1
  <2> QED
    BY <1>2, <2>2, <2>3
<1>5. CASE Len(Edges(reference)) < 2
  <2>1. PICK v : v = reference[1]
    OBVIOUS
  <2>2. \A j \in 1..m : reference[j] = v
    <3>1. 1 \in 1..m
      BY <1>2
    <3> QED
      BY <1>1, <1>5, <2>1, <3>1, ConstantEdges
  <2>3. Distinct(live) = {v}
    <3>1. \A i \in 1..Len(live) : live[i] = v
      BY <1>3, <1>4, <2>2
    <3>2. 1 \in 1..Len(live)
      BY <1>2, <1>3
    <3> QED
      BY <3>1, <3>2 DEF Distinct
  <2>4. Cardinality(Distinct(live)) = 1
    BY <2>3, FS_Singleton
  <2> QED
    BY <1>5, <2>4 DEF Psi
<1>6. CASE ~(Len(Edges(reference)) < 2)
  <2>1. PICK edges : edges = Edges(reference)
    OBVIOUS
  <2>2. ASSUME NEW k \in 1..(Len(edges) - 1)
        PROVE  Histogram(edges, reference)[k] * Len(live) = Histogram(edges, live)[k] * Len(reference)
    <3>1. PICK H : H = {j \in 1..m : InPsiBin(edges, k, reference[j])}
      OBVIOUS
    <3>2. Histogram(edges, reference)[k] = Cardinality(H)
      BY <1>1, <3>1 DEF Histogram
    <3>3. Histogram(edges, live)[k] = Cardinality({i \in 1..(n * m) : InPsiBin(edges, k, live[i])})
      BY <1>3 DEF Histogram
    <3>4. {i \in 1..(n * m) : InPsiBin(edges, k, live[i])} = {i \in 1..(n * m) : 1 + (i % m) \in H}
      BY <1>4, <3>1
    <3>5. H \subseteq 1..m /\ IsFiniteSet(H) /\ Cardinality(H) \in Nat
      <4>1. H \subseteq 1..m /\ IsFiniteSet(1..m)
        BY <1>2, <3>1, FirstNumbers
      <4>2. IsFiniteSet(H)
        BY <4>1, FS_Subset, Zenon
      <4> QED
        BY <4>1, <4>2, FS_CardinalityType
    <3>6. Cardinality({i \in 1..(n * m) : 1 + (i % m) \in H}) = n * Cardinality(H)
      BY <1>2, <3>5, Repeated
    <3>7. PICK c : c = Cardinality(H)
      OBVIOUS
    <3>8. c * (n * m) = (n * c) * m
      BY <1>2, <3>5, <3>7
    <3> QED
      BY <1>1, <1>3, <3>2, <3>3, <3>4, <3>6, <3>7, <3>8
  <2> QED
    BY <1>6, <2>1, <2>2 DEF Psi
<1> QED
  BY <1>5, <1>6

\* Drift reports are sound on any rows.
LEMMA DriftShown ==
  ASSUME DriftRows
  PROVE  DriftSound
<1>1. PICK r, d : r = Cardinality(Distinct(reference)) /\ d = Cardinality(Distinct(live))
  OBVIOUS
<1>2. r \in Nat /\ d \in Nat
  <2>1. Len(reference) \in Nat /\ Len(live) \in Nat
    BY DEF DriftRows, Sample
  <2> QED
    BY <1>1, <2>1, DistinctCounts
<1>3. MinSamples \in Nat \ {0} /\ MinDistinct \in Nat \ {0} /\ Len(live) \in Nat
  BY DEF DriftRows
<1>4. ASSUME Len(Edges(reference)) > 1
      PROVE  Sums(Histogram(Edges(reference), live), Len(Edges(reference)) - 1)
               [Len(Edges(reference)) - 1] = Len(live)
  BY <1>4, EdgesAscend, RowsBinned DEF DriftRows
<1>5. ASSUME NEW n \in 1..MaxLive,
             live = [i \in 1..(n * Len(reference)) |-> reference[1 + (i % Len(reference))]]
      PROVE  Severities \subseteq {"stable", "unknown"}
  <2>1. Psi(reference, live) = "zero"
    BY <1>5, RepeatedIsStable
  <2> QED
    BY <2>1 DEF Severities
<1>6. ASSUME Len(live) >= MinSamples, d = 1, r > 2
      PROVE  "unknown" \notin Severities
  <2>1. ~(Len(live) < MinSamples)
    BY <1>3, <1>6
  <2>2. ~Thin(reference, live)
    BY <1>1, <1>2, <1>6 DEF Thin
  <2> QED
    BY <2>1, <2>2 DEF Severities
<1>7. ASSUME Len(live) >= MinSamples, r = 1, d >= MinDistinct
      PROVE  Severities = (IF d > 1 THEN {"severe"} ELSE {"stable"})
  <2>1. ~(Len(live) < MinSamples) /\ live # <<>> /\ reference # <<>>
    BY <1>3, <1>7 DEF DriftRows, Sample
  <2>2. ~Thin(reference, live)
    BY <1>1, <1>2, <1>3, <1>7 DEF Thin
  <2>3. Len(Edges(reference)) < 2
    BY <1>1, <1>7, ConstantEdges
  <2>4. Psi(reference, live) = IF d = 1 THEN "zero" ELSE "shifted"
    BY <1>1, <2>1, <2>3 DEF Psi
  <2>5. d > 1 <=> d # 1
    BY <1>2, <1>3, <1>7
  <2> QED
    BY <2>1, <2>2, <2>4, <2>5 DEF Severities
<1> QED
  BY <1>1, <1>4, <1>5, <1>6, <1>7 DEF DriftSound

-----------------------------------------------------------------------------
\* The property follows from the invariant.
LEMMA ReportsShown ==
  ASSUME ReportsInv
  PROVE  ReportsSound
<1>1. reference \in References /\ live \in Seq(Values) /\ judged \in Seq(Judgement)
  BY DEF ReportsInv
<1>2. Counts
  BY <1>1, ReportsAssumption DEF Counts
<1>3. DriftRows
  <2>1. live \in Seq(Int)
    BY <1>1, WiderSeq, ReportsAssumption
  <2>2. reference \in Seq(Int) /\ Len(reference) \in Nat \ {0}
    BY <1>1, ReportsAssumption
  <2> QED
    BY <1>1, <2>1, <2>2, ReportsAssumption DEF DriftRows, Sample
<1> QED
  BY <1>2, <1>3, DriftShown, CalibrationShown DEF ReportsSound

\* What the reports are on stays of its types.
THEOREM ReportsInvariant == ReportsSpec => []ReportsInv
<1>1. ReportsInit => ReportsInv
  BY DEF ReportsInit, ReportsInv
<1>2. ReportsInv /\ [ReportsNext]_reportVars => ReportsInv'
  <2> SUFFICES ASSUME ReportsInv, [ReportsNext]_reportVars
               PROVE  ReportsInv'
    OBVIOUS
  <2>1. CASE Row
    <3>1. PICK value \in Values, p \in 0..Scale, won \in {0, 1} :
            live' = Append(live, value) /\ judged' = Append(judged, [p |-> p, won |-> won])
      BY <2>1 DEF Row
    <3>2. [p |-> p, won |-> won] \in Judgement
      BY DEF Judgement
    <3>3. live' \in Seq(Values) /\ judged' \in Seq(Judgement) /\ reference' = reference
      BY <2>1, <3>1, <3>2 DEF ReportsInv, Row
    <3> QED
      BY <3>3 DEF ReportsInv, Judgement
  <2>2. CASE UNCHANGED reportVars
    BY <2>2 DEF ReportsInv, reportVars, Judgement
  <2> QED
    BY <2>1, <2>2 DEF ReportsNext
<1> QED
  BY <1>1, <1>2, PTL DEF ReportsSpec

\* For any training samples, values, bins, bands and rows: the bins and the
\* bands account for every row, and drift and calibration judge the certain
\* cases as they must (ml/drift.py, ml/calibration.py).
THEOREM ReportsAlwaysSound == ReportsSpec => []ReportsSound
<1>1. ReportsInv => ReportsSound
  BY ReportsShown
<1> QED
  BY <1>1, ReportsInvariant, PTL

=============================================================================
