--------------------------- MODULE PipelineInvariant ---------------------------
(***************************************************************************)
(* Why the artifacts agree although every program reads files the others   *)
(* may be replacing: versions only grow, so a file that has the same       *)
(* version at two instants has not been replaced in between, and a value   *)
(* read between them that is not older than the first is that version.     *)
(***************************************************************************)
EXTENDS ArtifactPipeline

\* What is left to publish, at every point of a publication.
GenLefts ==
    {DatasetFiles, <<"labels", "report", "manifest">>, <<"report", "manifest">>,
     <<"manifest">>, <<>>}

ExtLefts ==
    {<<"unlink", "features", "report", "manifest">>, FeatureFiles,
     <<"report", "manifest">>, <<"manifest">>, <<>>}

ModelLefts == {ModelFiles, <<"report", "manifest">>, <<"manifest">>, <<>>}

\* What is left of the contract, while its first hashes, those of the labels and
\* those of the features are still to be compared.
BeforeLabels ==
    {Contract,
     <<"featureManifest", "labels", "datasetReport", "features", "featureReport">>,
     <<"labels", "datasetReport", "features", "featureReport">>}

BeforeFeatures ==
    {<<"datasetReport", "features", "featureReport">>, <<"features", "featureReport">>}

AfterFeatures == {<<"featureReport">>, <<>>}

DatasetType ==
    [events : Versions, labels : Versions, report : Versions, manifest : Versions]

FeaturesType ==
    [features : Versions, report : Versions, manifest : [source : Versions, of : Versions]]

ModelType ==
    [model : Versions \X Versions, report : Versions \X Versions,
     manifest : Versions \X Versions]

GenType == [pc : {"idle", "publishing", "ok", "failed"}, left : GenLefts]

ExtType ==
    [pc : {"idle", "reading", "unchanged", "header", "lockstep", "recheck",
           "publishing", "ok", "failed"},
     stage : {"none", "existing", "extracted", "staged", "published"},
     replacing : BOOLEAN, before : Versions, measured : Versions, read : Versions,
     left : ExtLefts]

TrnType ==
    [pc : {"idle", "checking", "opened", "loaded", "rechecked", "publishing", "ok",
           "failed"},
     features : Versions, labels : Versions,
     left : BeforeLabels \cup BeforeFeatures \cup AfterFeatures \cup ModelLefts]

Types ==
    /\ dataset \in DatasetType /\ features \in FeaturesType /\ model \in ModelType
    /\ gen \in GenType /\ ext \in ExtType /\ trn \in TrnType
    /\ latest \in Versions

-----------------------------------------------------------------------------
(* The steps of each program, and of the operator on its directory.        *)

GeneratorStep ==
    Generate \/ GenRefuses \/ GenPublish \/ GenFinish \/ GenInterrupted \/ RemoveDataset

ExtractorStep ==
    \/ Extract \/ ExtRefuses \/ ReadEvents \/ CheckHeader \/ Lockstep \/ Recheck
    \/ CheckUnchanged \/ ExtPublish \/ ExtPublished \/ ExtInterrupted \/ RemoveFeatures

TrainerStep ==
    \/ Train \/ CheckHash \/ OpenFeatures \/ OpenLabels \/ RecheckLabels
    \/ RecheckFeatures \/ TrnPublish \/ TrnFinish \/ TrnInterrupted \/ RemoveModel

-----------------------------------------------------------------------------
(* Order: what a file or a program holds, now or later, is not older.      *)

AbsentOr(n, v) == n = 0 \/ n >= v

\* Version v, or a newer one, has been generated: the events, here and from now
\* on, are not older than v.
SeenEvents(v) == latest >= v /\ AbsentOr(dataset.events, v)

SeenLabels(v) == latest >= v /\ AbsentOr(dataset.labels, v)

\* The same of the features, which come from the events.
SeenFeatures(v) ==
    SeenEvents(v) /\ AbsentOr(ext.read, v) /\ AbsentOr(features.features, v)

Ordered ==
    /\ dataset.events <= latest /\ dataset.labels <= latest
    /\ SeenEvents(ext.read)
    /\ SeenEvents(features.features) /\ AbsentOr(ext.read, features.features)

-----------------------------------------------------------------------------
(* The extractor.                                                          *)

\* What the two measurements of a validation enclose.
Measured ==
    /\ ext.pc \in {"lockstep", "recheck"} =>
        /\ ext.measured # 0 /\ SeenEvents(ext.measured)
        /\ Subject.manifest.source = ext.measured
    /\ ext.pc = "recheck" =>
        Subject.features >= ext.measured /\ SeenEvents(Subject.features)

\* The stage says what has been read and what is in the directory.
Extracted ==
    /\ ext.stage \in {"extracted", "staged", "published"} => ext.read # 0
    /\ ext.pc = "publishing" => ext.stage = "staged"
    /\ ext.pc = "reading" => ext.stage = "existing"
    /\ ext.pc = "unchanged" => ext.stage \in {"existing", "extracted", "staged"}
    /\ ext.pc \in {"header", "lockstep", "recheck"} =>
        ext.stage \in {"existing", "staged", "published"}
    /\ ~Ended(ext) /\ ext.pc # "publishing" /\ ext.stage # "published"
        /\ ~ext.replacing => features = NoFeatures

\* The manifest goes first, and it comes back after what it vouches for.
Publishing == ext.pc = "publishing" =>
    /\ ext.left \in {FeatureFiles, <<"report", "manifest">>, <<"manifest">>} =>
        features.manifest = NoManifest
    /\ ext.left \in {<<"report", "manifest">>, <<"manifest">>} =>
        features.features = ext.read
    /\ ext.left = <<"manifest">> => features.report = ext.read

-----------------------------------------------------------------------------
(* The trainer.                                                            *)

Loading ==
    /\ trn.pc = "checking" =>
        /\ trn.left \in BeforeLabels \cup BeforeFeatures \cup AfterFeatures
        /\ trn.left \notin BeforeLabels => SeenLabels(Pinned)
        /\ trn.left \in AfterFeatures => SeenFeatures(Pinned)
    /\ trn.pc = "opened" => SeenLabels(Pinned)
    /\ trn.pc \in {"opened", "loaded", "rechecked"} =>
        trn.features >= Pinned /\ SeenFeatures(trn.features)
    /\ trn.pc = "loaded" => trn.labels >= Pinned /\ SeenLabels(trn.labels)
    /\ trn.pc = "rechecked" => trn.labels = Pinned

\* The model is published from the pinned files, into an empty directory.
Storing == trn.pc = "publishing" =>
    /\ trn.left \in ModelLefts
    /\ trn.features = Pinned /\ trn.labels = Pinned
    /\ trn.left # <<>> => model.manifest = Nothing
    /\ trn.left \in {<<"report", "manifest">>, <<"manifest">>} =>
        model.model = <<Pinned, Pinned>>
    /\ trn.left = <<"manifest">> => model.report = <<Pinned, Pinned>>

IInv ==
    /\ Types /\ Ordered
    /\ Measured /\ Extracted /\ Publishing /\ FeaturesOfOneSource
    /\ Loading /\ Storing /\ TrainedOnPinned /\ ManifestVouches

=============================================================================
