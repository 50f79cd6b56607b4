--------------------------- MODULE ArtifactPipeline ---------------------------
(***************************************************************************)
(* The offline pipeline as its programs meet on the file system:           *)
(* simulation/artifacts.py publishes a dataset, features/extraction.py     *)
(* reads the dataset's events and publishes features, modeling/data.py     *)
(* reads both and modeling/artifacts.py publishes a model.  Each program   *)
(* runs any number of times, beside the others; its renames and its reads  *)
(* of a file are single steps, and it may be interrupted, by an error of   *)
(* the file system or by being killed, between any two of them.  An        *)
(* operator may remove a directory that nobody writes.                     *)
(*                                                                         *)
(* Everything is deterministic, so a file is identified by the version of  *)
(* the dataset (its configuration and seed) that it comes from; 0 is an    *)
(* absent file.  Versions are generated in increasing order: a dataset     *)
(* that was replaced does not come back.                                   *)
(***************************************************************************)
EXTENDS Naturals, Sequences

CONSTANTS
    MaxVersion,     \* bound on the versions generated
    Pinned          \* the version whose hashes the modeling configuration pins

ASSUME PipelineAssumption == MaxVersion \in Nat /\ Pinned \in 1..MaxVersion

VARIABLES
    dataset,        \* the simulation directory: the version of each file
    features,       \* the feature directory
    model,          \* the model directory: the inputs each file comes from
    gen, ext, trn,  \* the generator, the extractor, the trainer
    latest          \* the highest version generated so far

vars == <<dataset, features, model, gen, ext, trn, latest>>

Versions == 0..MaxVersion

\* Publication orders: the manifest, which vouches for the rest, is last.
DatasetFiles == <<"events", "labels", "report", "manifest">>

\* Mutant: the files in the order of their names.
FeatureFilesByName == <<"features", "manifest", "report">>

FeatureFiles == <<"features", "report", "manifest">>

ModelFiles == <<"model", "report", "manifest">>

NoDataset == [events |-> 0, labels |-> 0, report |-> 0, manifest |-> 0]

\* A feature manifest names the source it was extracted from and the features.
NoManifest == [source |-> 0, of |-> 0]
NoFeatures == [features |-> 0, report |-> 0, manifest |-> NoManifest]

\* A model file comes from the features and the labels that were loaded.
Nothing == <<0, 0>>
NoModel == [model |-> Nothing, report |-> Nothing, manifest |-> Nothing]

IdleExtractor ==
    [pc |-> "idle", stage |-> "none", replacing |-> FALSE,
     before |-> 0, measured |-> 0, read |-> 0, left |-> <<>>]
Ended(p) == p.pc \in {"idle", "ok", "failed"}

Init ==
    /\ dataset = NoDataset /\ features = NoFeatures /\ model = NoModel
    /\ gen = [pc |-> "idle", left |-> <<>>]
    /\ ext = IdleExtractor
    /\ trn = [pc |-> "idle", features |-> 0, labels |-> 0, left |-> <<>>]
    /\ latest = 0

-----------------------------------------------------------------------------
(* The generator.                                                          *)

\* validate_dataset_directory: four files, one of which vouches for the others.
DatasetValid == \E v \in 1..MaxVersion : \A f \in DOMAIN dataset : dataset[f] = v

GenUnchanged == UNCHANGED <<features, model, ext, trn>>

\* _validate_existing_output and the staged dataset: an existing dataset is
\* replaced only on request and only if it is valid.
Generate ==
    /\ Ended(gen)
    /\ dataset = NoDataset \/ DatasetValid
    /\ \E v \in latest..MaxVersion :
        /\ v > 0
        /\ latest' = v
        /\ gen' = [pc |-> "publishing", left |-> DatasetFiles]
    /\ UNCHANGED dataset /\ GenUnchanged

GenRefuses ==
    /\ Ended(gen)
    /\ dataset # NoDataset
    /\ gen' = [pc |-> "failed", left |-> <<>>]
    /\ UNCHANGED <<dataset, latest>> /\ GenUnchanged

GenPublish ==
    /\ gen.pc = "publishing" /\ gen.left # <<>>
    /\ dataset' = [dataset EXCEPT ![Head(gen.left)] = latest]
    /\ gen' = [gen EXCEPT !.left = Tail(@)]
    /\ UNCHANGED latest /\ GenUnchanged

GenFinish ==
    /\ gen.pc = "publishing" /\ gen.left = <<>>
    /\ gen' = [gen EXCEPT !.pc = IF DatasetValid THEN "ok" ELSE "failed"]
    /\ UNCHANGED <<dataset, latest>> /\ GenUnchanged

GenInterrupted ==
    /\ gen.pc = "publishing"
    /\ gen' = [pc |-> "failed", left |-> <<>>]
    /\ UNCHANGED <<dataset, latest>> /\ GenUnchanged

-----------------------------------------------------------------------------
(* The extractor.                                                          *)

ExtUnchanged == UNCHANGED <<dataset, model, gen, trn, latest>>

\* Mutant: the hash of the events is computed once.
SourceCached == IF ext.before = 0 THEN dataset.events ELSE ext.before

\* file_metadata of the source events.
Source == dataset.events

ExtFails == ext' = [IdleExtractor EXCEPT !.pc = "failed"]

Complete(d) == d.features # 0 /\ d.report # 0 /\ d.manifest # NoManifest

\* inspect_existing_output and the first look at the source.
Extract ==
    /\ Ended(ext)
    /\ dataset.events # 0
    /\ features = NoFeatures \/ Complete(features)
    /\ ext' = [IdleExtractor EXCEPT
            !.pc = IF features = NoFeatures THEN "reading" ELSE "header",
            !.stage = "existing",
            !.replacing = (features # NoFeatures),
            !.before = dataset.events]
    /\ UNCHANGED features /\ ExtUnchanged

ExtRefuses ==
    /\ Ended(ext)
    /\ dataset.events = 0 \/ features # NoFeatures
    /\ ExtFails
    /\ UNCHANGED features /\ ExtUnchanged

\* _extract_to_path: the events are opened once.
ReadEvents ==
    /\ ext.pc = "reading"
    /\ IF dataset.events = 0 THEN ExtFails
       ELSE ext' = [ext EXCEPT !.read = dataset.events,
                               !.stage = "extracted", !.pc = "unchanged"]
    /\ UNCHANGED features /\ ExtUnchanged

\* What validate_feature_dataset is applied to.
Subject ==
    IF ext.stage = "staged"
    THEN [features |-> ext.read, report |-> ext.read,
          manifest |-> [source |-> ext.before, of |-> ext.read]]
    ELSE features

\* The source is measured and compared with the manifest.
CheckHeader ==
    /\ ext.pc = "header"
    /\ IF Source # 0 /\ Complete(Subject) /\ Subject.manifest.source = Source
       THEN ext' = [ext EXCEPT !.measured = Source, !.pc = "lockstep"]
       ELSE ExtFails
    /\ UNCHANGED features /\ ExtUnchanged

\* _validate_lockstep: the events are opened again and their features recomputed.
Lockstep ==
    /\ ext.pc = "lockstep"
    /\ IF dataset.events # 0 /\ Subject.features = dataset.events
       THEN ext' = [ext EXCEPT !.pc = "recheck"]
       ELSE ExtFails
    /\ UNCHANGED features /\ ExtUnchanged

\* The source is measured again; report and manifest are compared with the rows.
Recheck ==
    /\ ext.pc = "recheck"
    /\ IF /\ Source = ext.measured
          /\ Subject.report = Subject.features
          /\ Subject.manifest.of = Subject.features
       THEN ext' = [ext EXCEPT !.pc = IF ext.stage = "published" THEN "ok" ELSE "unchanged"]
       ELSE ExtFails
    /\ UNCHANGED features /\ ExtUnchanged

\* The source is still the one that was measured first.
CheckUnchanged ==
    /\ ext.pc = "unchanged"
    /\ IF Source # ext.before THEN ExtFails
       ELSE ext' =
        CASE ext.stage = "existing" -> [ext EXCEPT !.pc = "reading"]
          [] ext.stage = "extracted" -> [ext EXCEPT !.pc = "header", !.stage = "staged"]
          [] ext.stage = "staged" -> [ext EXCEPT !.pc = "publishing", !.left =
                (IF ext.replacing THEN <<"unlink">> ELSE <<>>) \o FeatureFiles]
    /\ UNCHANGED features /\ ExtUnchanged

\* publish_staged_artifacts: a manifest that is replaced goes first.
ExtPublish ==
    /\ ext.pc = "publishing" /\ ext.left # <<>>
    /\ features' = IF Head(ext.left) = "unlink"
                   THEN [features EXCEPT !.manifest = NoManifest]
                   ELSE [features EXCEPT ![Head(ext.left)] = Subject[Head(ext.left)]]
    /\ ext' = [ext EXCEPT !.left = Tail(@)]
    /\ ExtUnchanged

ExtPublished ==
    /\ ext.pc = "publishing" /\ ext.left = <<>>
    /\ ext' = [ext EXCEPT !.pc = "header", !.stage = "published"]
    /\ UNCHANGED features /\ ExtUnchanged

ExtInterrupted ==
    /\ ~Ended(ext)
    /\ ExtFails
    /\ UNCHANGED features /\ ExtUnchanged

-----------------------------------------------------------------------------
(* The trainer.                                                            *)

TrnUnchanged == UNCHANGED <<dataset, features, gen, ext, latest>>

TrnFails == trn' = [pc |-> "failed", features |-> 0, labels |-> 0, left |-> <<>>]

\* _validate_source_contract, in its order.
Contract ==
    <<"datasetManifest", "featureManifest", "labels", "datasetReport", "features", "featureReport">>

HashOk(f) ==
    CASE f = "datasetManifest" -> dataset.manifest = Pinned
      [] f = "featureManifest" -> features.manifest = [source |-> Pinned, of |-> Pinned]
      [] f = "labels" -> dataset.labels = Pinned
      [] f = "datasetReport" -> dataset.report = Pinned
      [] f = "features" -> features.features = Pinned
      [] f = "featureReport" -> features.report = Pinned

Train ==
    /\ Ended(trn)
    /\ trn' = [pc |-> "checking", features |-> 0, labels |-> 0, left |-> Contract]
    /\ UNCHANGED model /\ TrnUnchanged

CheckHash ==
    /\ trn.pc = "checking" /\ trn.left # <<>>
    /\ IF HashOk(Head(trn.left)) THEN trn' = [trn EXCEPT !.left = Tail(@)] ELSE TrnFails
    /\ UNCHANGED model /\ TrnUnchanged

OpenFeatures ==
    /\ trn.pc = "checking" /\ trn.left = <<>>
    /\ IF features.features = 0 THEN TrnFails
       ELSE trn' = [trn EXCEPT !.pc = "opened", !.features = features.features]
    /\ UNCHANGED model /\ TrnUnchanged

\* The rows of two versions may still agree in what the join compares.
OpenLabels ==
    /\ trn.pc = "opened"
    /\ IF dataset.labels = 0 THEN TrnFails
       ELSE trn' = [trn EXCEPT !.pc = "loaded", !.labels = dataset.labels]
    /\ UNCHANGED model /\ TrnUnchanged

\* Mutant: the labels are not hashed again.
RecheckLabelsNever ==
    /\ trn.pc = "loaded"
    /\ trn' = [trn EXCEPT !.pc = "rechecked"]
    /\ UNCHANGED model /\ TrnUnchanged

RecheckLabels ==
    /\ trn.pc = "loaded"
    /\ IF HashOk("labels") THEN trn' = [trn EXCEPT !.pc = "rechecked"] ELSE TrnFails
    /\ UNCHANGED model /\ TrnUnchanged

\* The second hash of the features, and _require_empty_destination.
RecheckFeatures ==
    /\ trn.pc = "rechecked"
    /\ IF HashOk("features") /\ model = NoModel
       THEN trn' = [trn EXCEPT !.pc = "publishing", !.left = ModelFiles]
       ELSE TrnFails
    /\ UNCHANGED model /\ TrnUnchanged

TrnPublish ==
    /\ trn.pc = "publishing" /\ trn.left # <<>>
    /\ model' = [model EXCEPT ![Head(trn.left)] = <<trn.features, trn.labels>>]
    /\ trn' = [trn EXCEPT !.left = Tail(@)]
    /\ TrnUnchanged

TrnFinish ==
    /\ trn.pc = "publishing" /\ trn.left = <<>>
    /\ trn' = [trn EXCEPT !.pc = "ok"]
    /\ UNCHANGED model /\ TrnUnchanged

TrnInterrupted ==
    /\ ~Ended(trn)
    /\ TrnFails
    /\ UNCHANGED model /\ TrnUnchanged

-----------------------------------------------------------------------------
(* The operator, who removes what a program refuses.                       *)

RemoveDataset ==
    /\ Ended(gen) /\ dataset # NoDataset
    /\ dataset' = NoDataset
    /\ UNCHANGED <<gen, latest>> /\ GenUnchanged

RemoveFeatures ==
    /\ Ended(ext) /\ features # NoFeatures
    /\ features' = NoFeatures
    /\ ext' = IdleExtractor
    /\ ExtUnchanged

RemoveModel ==
    /\ Ended(trn) /\ model # NoModel
    /\ model' = NoModel
    /\ UNCHANGED trn /\ TrnUnchanged

Next ==
    \/ Generate \/ GenRefuses \/ GenPublish \/ GenFinish \/ GenInterrupted
    \/ Extract \/ ExtRefuses \/ ReadEvents \/ CheckHeader \/ Lockstep \/ Recheck
    \/ CheckUnchanged \/ ExtPublish \/ ExtPublished \/ ExtInterrupted
    \/ Train \/ CheckHash \/ OpenFeatures \/ OpenLabels \/ RecheckLabels
    \/ RecheckFeatures \/ TrnPublish \/ TrnFinish \/ TrnInterrupted
    \/ RemoveDataset \/ RemoveFeatures \/ RemoveModel

Spec == Init /\ [][Next]_vars

-----------------------------------------------------------------------------
(* Properties.                                                             *)

\* Types of the state; an extraction always has events.
TypeOK ==
    /\ dataset \in [{"events", "labels", "report", "manifest"} -> Versions]
    /\ features \in [features : Versions, report : Versions,
                     manifest : [source : Versions, of : Versions]]
    /\ model \in [{"model", "report", "manifest"} -> Versions \X Versions]
    /\ gen.pc \in {"idle", "publishing", "ok", "failed"}
    /\ ext.pc \in {"idle", "reading", "unchanged", "header", "lockstep", "recheck",
                   "publishing", "ok", "failed"}
    /\ {ext.before, ext.measured, ext.read} \subseteq Versions
    /\ ext.stage \in {"extracted", "staged", "published"} => ext.read # 0
    /\ trn.pc \in {"idle", "checking", "opened", "loaded", "rechecked", "publishing",
                   "ok", "failed"}
    /\ {trn.features, trn.labels} \subseteq Versions
    /\ latest \in Versions

\* extract_feature_dataset: when it reports success, the features, their report
\* and the source named by their manifest are of one dataset, however often the
\* dataset was replaced meanwhile.
FeaturesOfOneSource == ext.pc = "ok" =>
    /\ features.features = features.report
    /\ features.manifest = [source |-> features.features, of |-> features.features]

\* publish_staged_artifacts and _publish: at every instant and after every
\* interruption, a feature or model manifest lies beside the very files it
\* vouches for.
ManifestVouches ==
    /\ features.manifest # NoManifest =>
        features.features = features.manifest.of /\ features.report = features.manifest.of
    /\ model.manifest # Nothing =>
        model.model = model.manifest /\ model.report = model.manifest

\* load_training_data: a model comes from the features and the labels that the
\* configuration pins, although both may be replaced while they are loaded.
TrainedOnPinned == \A f \in DOMAIN model : model[f] \in {Nothing, <<Pinned, Pinned>>}

=============================================================================
