---------------------------- MODULE PipelineProofs ----------------------------
(***************************************************************************)
(* Proofs about the offline pipeline, for any number of versions, any      *)
(* pinned version and any number of runs of each program.                  *)
(***************************************************************************)
EXTENDS PipelineInvariant, SequenceTheorems, TLAPS

\* Publications advance one file at a time, in their order.
LEMMA NextToPublish ==
    /\ Head(DatasetFiles) = "events"
    /\ Tail(DatasetFiles) = <<"labels", "report", "manifest">>
    /\ Head(<<"labels", "report", "manifest">>) = "labels"
    /\ Tail(<<"labels", "report", "manifest">>) = <<"report", "manifest">>
    /\ Head(<<"report", "manifest">>) = "report"
    /\ Tail(<<"report", "manifest">>) = <<"manifest">>
    /\ Head(<<"manifest">>) = "manifest" /\ Tail(<<"manifest">>) = <<>>
    /\ Head(<<"unlink", "features", "report", "manifest">>) = "unlink"
    /\ Tail(<<"unlink", "features", "report", "manifest">>) = FeatureFiles
    /\ Head(FeatureFiles) = "features" /\ Tail(FeatureFiles) = <<"report", "manifest">>
    /\ Head(ModelFiles) = "model" /\ Tail(ModelFiles) = <<"report", "manifest">>
BY DEF DatasetFiles, FeatureFiles, ModelFiles

\* The contract of the trainer advances one hash at a time.
LEMMA NextHash ==
    /\ \A l \in BeforeLabels :
        /\ Tail(l) \in BeforeLabels \cup BeforeFeatures
        /\ Tail(l) \in BeforeFeatures => Head(l) = "labels"
    /\ \A l \in BeforeFeatures :
        /\ Tail(l) \in BeforeFeatures \cup AfterFeatures
        /\ Tail(l) \in AfterFeatures => Head(l) = "features"
    /\ \A l \in AfterFeatures : l # <<>> => Tail(l) \in AfterFeatures
<1>1. /\ Tail(Contract) = <<"featureManifest", "labels", "datasetReport", "features",
                            "featureReport">>
      /\ Tail(<<"featureManifest", "labels", "datasetReport", "features", "featureReport">>) =
            <<"labels", "datasetReport", "features", "featureReport">>
      /\ Tail(<<"labels", "datasetReport", "features", "featureReport">>) =
            <<"datasetReport", "features", "featureReport">>
      /\ Tail(<<"datasetReport", "features", "featureReport">>) =
            <<"features", "featureReport">>
      /\ Tail(<<"features", "featureReport">>) = <<"featureReport">>
      /\ Tail(<<"featureReport">>) = <<>>
      /\ Head(<<"labels", "datasetReport", "features", "featureReport">>) = "labels"
      /\ Head(<<"features", "featureReport">>) = "features"
  BY DEF Contract
<1>2. BeforeLabels \cap BeforeFeatures = {} /\ BeforeFeatures \cap AfterFeatures = {}
  BY DEF BeforeLabels, BeforeFeatures, AfterFeatures, Contract
<1> QED
  BY <1>1, <1>2 DEF BeforeLabels, BeforeFeatures, AfterFeatures

\* The parts of the contract are distinct from each other.
LEMMA ContractParts ==
    /\ Contract \in BeforeLabels /\ <<>> \in AfterFeatures
    /\ BeforeLabels \cap BeforeFeatures = {} /\ BeforeLabels \cap AfterFeatures = {}
    /\ BeforeFeatures \cap AfterFeatures = {}
BY DEF BeforeLabels, BeforeFeatures, AfterFeatures, Contract

\* The remainders of a publication are distinct from each other.
LEMMA DistinctLefts ==
    /\ FeatureFiles # <<"report", "manifest">> /\ FeatureFiles # <<"manifest">>
    /\ FeatureFiles # <<>> /\ ModelFiles # <<"report", "manifest">>
    /\ ModelFiles # <<"manifest">> /\ ModelFiles # <<>>
    /\ <<"report", "manifest">> # <<"manifest">> /\ <<"report", "manifest">> # <<>>
    /\ <<"manifest">> # <<>>
    /\ <<"unlink", "features", "report", "manifest">> \notin
            {FeatureFiles, <<"report", "manifest">>, <<"manifest">>, <<>>}
BY DEF FeatureFiles, ModelFiles

\* A replacement removes the old manifest before it publishes.
LEMMA WhatIsPublished ==
    /\ <<"unlink">> \o FeatureFiles = <<"unlink", "features", "report", "manifest">>
    /\ <<>> \o FeatureFiles = FeatureFiles
<1> DEFINE S == {"unlink", "features", "report", "manifest"}
        s == <<"unlink">> \o FeatureFiles
<1>1. FeatureFiles \in Seq(S) /\ <<"unlink">> \in Seq(S)
  BY DEF FeatureFiles
<1>2. <<>> \o FeatureFiles = FeatureFiles
  BY <1>1, ConcatEmptySeq
<1>3. s \in Seq(S) /\ Len(s) = 4
  BY <1>1, ConcatProperties DEF FeatureFiles
<1>4. s[1] = "unlink" /\ s[2] = "features" /\ s[3] = "report" /\ s[4] = "manifest"
  BY <1>1, ConcatProperties DEF FeatureFiles
<1>5. s = <<"unlink", "features", "report", "manifest">>
  <2> HIDE DEF s
  <2> DEFINE t == <<"unlink", "features", "report", "manifest">>
  <2>1. t \in Seq(S) /\ Len(t) = 4 /\ \A i \in 1..4 : t[i] = s[i]
    BY <1>4
  <2> QED
    BY <1>3, <2>1, SeqEqual
<1> QED
  BY <1>2, <1>5

\* The remainders that the programs' records range over.
LEMMA LeftsAreTyped ==
    /\ DatasetFiles \in GenLefts /\ <<>> \in GenLefts
    /\ {FeatureFiles, <<"report", "manifest">>, <<"manifest">>, <<>>} \subseteq ExtLefts
    /\ <<"unlink">> \o FeatureFiles \in ExtLefts /\ <<>> \o FeatureFiles \in ExtLefts
    /\ {ModelFiles, <<"report", "manifest">>, <<"manifest">>, <<>>} \subseteq ModelLefts
    /\ Contract \in BeforeLabels /\ <<>> \in AfterFeatures
BY WhatIsPublished DEF GenLefts, ExtLefts, ModelLefts, BeforeLabels, AfterFeatures

\* A program that failed has forgotten what it read.
LEMMA FailuresAreTyped ==
    /\ IdleExtractor \in ExtType /\ [IdleExtractor EXCEPT !.pc = "failed"] \in ExtType
    /\ [pc |-> "failed", features |-> 0, labels |-> 0, left |-> <<>>] \in TrnType
<1>1. 0 \in Versions
  BY PipelineAssumption DEF Versions
<1>2. <<>> \in ExtLefts /\ <<>> \in AfterFeatures
  BY LeftsAreTyped
<1>3. IdleExtractor \in ExtType
  BY <1>1, <1>2 DEF IdleExtractor, ExtType
<1>4. [IdleExtractor EXCEPT !.pc = "failed"] \in ExtType
  BY <1>3 DEF ExtType
<1> QED
  BY <1>1, <1>2, <1>3, <1>4 DEF TrnType

\* Versions are numbers.
LEMMA Numbers ==
    ASSUME Types
    PROVE  /\ latest \in Nat /\ dataset.events \in Nat /\ dataset.labels \in Nat
           /\ features.features \in Nat /\ features.report \in Nat
           /\ ext.before \in Nat /\ ext.measured \in Nat /\ ext.read \in Nat
           /\ trn.features \in Nat /\ trn.labels \in Nat /\ Pinned \in Nat \ {0}
BY PipelineAssumption DEF Types, Versions, DatasetType, FeaturesType, ExtType, TrnType

\* What the generator's renames change.
LEMMA GenPublishEffect ==
    ASSUME IInv, GenPublish
    PROVE  /\ \/ dataset' = [dataset EXCEPT !.events = latest]
              \/ dataset' = [dataset EXCEPT !.labels = latest]
              \/ dataset' = [dataset EXCEPT !.report = latest]
              \/ dataset' = [dataset EXCEPT !.manifest = latest]
           /\ gen' = [gen EXCEPT !.left = Tail(gen.left)] /\ gen'.left \in GenLefts
           /\ UNCHANGED <<features, model, ext, trn, latest>>
<1>1. /\ gen.left \in GenLefts \ {<<>>}
      /\ dataset' = [dataset EXCEPT ![Head(gen.left)] = latest]
      /\ gen' = [gen EXCEPT !.left = Tail(gen.left)]
      /\ UNCHANGED <<features, model, ext, trn, latest>>
  BY DEF GenPublish, GenUnchanged, IInv, Types, GenType
<1>2. Head(gen.left) \in {"events", "labels", "report", "manifest"}
  BY <1>1, NextToPublish DEF GenLefts
<1>3. Tail(gen.left) \in GenLefts
  BY <1>1, NextToPublish DEF GenLefts
<1>4. gen'.left = Tail(gen.left)
  BY <1>1 DEF IInv, Types, GenType
<1> QED
  BY <1>1, <1>2, <1>3, <1>4

\* What the extractor's renames change.
LEMMA ExtPublishEffect ==
    ASSUME IInv, ExtPublish
    PROVE  /\ ext.pc = "publishing" /\ ext.stage = "staged"
           /\ \/ /\ ext.left = <<"unlink", "features", "report", "manifest">>
                 /\ features' = [features EXCEPT !.manifest = NoManifest]
                 /\ ext' = [ext EXCEPT !.left = FeatureFiles]
              \/ /\ ext.left = FeatureFiles
                 /\ features' = [features EXCEPT !.features = ext.read]
                 /\ ext' = [ext EXCEPT !.left = <<"report", "manifest">>]
              \/ /\ ext.left = <<"report", "manifest">>
                 /\ features' = [features EXCEPT !.report = ext.read]
                 /\ ext' = [ext EXCEPT !.left = <<"manifest">>]
              \/ /\ ext.left = <<"manifest">>
                 /\ features' = [features EXCEPT
                        !.manifest = [source |-> ext.before, of |-> ext.read]]
                 /\ ext' = [ext EXCEPT !.left = <<>>]
           /\ UNCHANGED <<dataset, model, gen, trn, latest>>
<1>1. /\ ext.pc = "publishing" /\ ext.stage = "staged" /\ ext.left \in ExtLefts \ {<<>>}
      /\ ext' = [ext EXCEPT !.left = Tail(ext.left)]
      /\ features' = IF Head(ext.left) = "unlink"
                     THEN [features EXCEPT !.manifest = NoManifest]
                     ELSE [features EXCEPT ![Head(ext.left)] = Subject[Head(ext.left)]]
      /\ UNCHANGED <<dataset, model, gen, trn, latest>>
  BY DEF ExtPublish, ExtUnchanged, IInv, Types, ExtType, Extracted
<1>2. /\ Subject["features"] = ext.read /\ Subject["report"] = ext.read
      /\ Subject["manifest"] = [source |-> ext.before, of |-> ext.read]
  BY <1>1 DEF Subject
<1>3. CASE ext.left = <<"unlink", "features", "report", "manifest">>
  <2>1. Head(ext.left) = "unlink" /\ Tail(ext.left) = FeatureFiles
    BY <1>3, NextToPublish
  <2> QED
    BY <1>1, <1>3, <2>1
<1>4. CASE ext.left = FeatureFiles
  <2>1. Head(ext.left) = "features" /\ Tail(ext.left) = <<"report", "manifest">>
    BY <1>4, NextToPublish
  <2> QED
    BY <1>1, <1>2, <1>4, <2>1
<1>5. CASE ext.left = <<"report", "manifest">>
  <2>1. Head(ext.left) = "report" /\ Tail(ext.left) = <<"manifest">>
    BY <1>5, NextToPublish
  <2> QED
    BY <1>1, <1>2, <1>5, <2>1
<1>6. CASE ext.left = <<"manifest">>
  <2>1. Head(ext.left) = "manifest" /\ Tail(ext.left) = <<>>
    BY <1>6, NextToPublish
  <2> QED
    BY <1>1, <1>2, <1>6, <2>1
<1> QED
  BY <1>1, <1>3, <1>4, <1>5, <1>6 DEF ExtLefts

\* What follows from an unchanged source depends on the stage.
LEMMA CheckUnchangedEffect ==
    ASSUME IInv, CheckUnchanged
    PROVE  /\ ext.pc = "unchanged"
           /\ \/ ExtFails
              \/ ext.stage = "existing" /\ ext' = [ext EXCEPT !.pc = "reading"]
              \/ /\ ext.stage = "extracted"
                 /\ ext' = [ext EXCEPT !.pc = "header", !.stage = "staged"]
              \/ /\ ext.stage = "staged" /\ ext.replacing
                 /\ ext' = [ext EXCEPT !.pc = "publishing",
                        !.left = <<"unlink", "features", "report", "manifest">>]
              \/ /\ ext.stage = "staged" /\ ~ext.replacing
                 /\ ext' = [ext EXCEPT !.pc = "publishing", !.left = FeatureFiles]
           /\ UNCHANGED <<features, dataset, model, gen, trn, latest>>
<1>1. ext.pc = "unchanged" /\ UNCHANGED <<features, dataset, model, gen, trn, latest>>
  BY DEF CheckUnchanged, ExtUnchanged
<1>2. CASE Source # ext.before
  BY <1>1, <1>2 DEF CheckUnchanged
<1>3. CASE Source = ext.before /\ ext.stage = "existing"
  BY <1>1, <1>3 DEF CheckUnchanged
<1>4. CASE Source = ext.before /\ ext.stage = "extracted"
  BY <1>1, <1>4 DEF CheckUnchanged
<1>5. CASE Source = ext.before /\ ext.stage = "staged"
  <2>1. ext' = [ext EXCEPT !.pc = "publishing",
            !.left = (IF ext.replacing THEN <<"unlink">> ELSE <<>>) \o FeatureFiles]
    BY <1>5 DEF CheckUnchanged
  <2> QED
    BY <1>1, <1>5, <2>1, WhatIsPublished
<1> QED
  BY <1>1, <1>2, <1>3, <1>4, <1>5 DEF IInv, Extracted

\* What the trainer's renames change.
LEMMA TrnPublishEffect ==
    ASSUME IInv, TrnPublish
    PROVE  /\ trn.pc = "publishing" /\ trn.features = Pinned /\ trn.labels = Pinned
           /\ \/ /\ trn.left = ModelFiles
                 /\ model' = [model EXCEPT !.model = <<Pinned, Pinned>>]
                 /\ trn' = [trn EXCEPT !.left = <<"report", "manifest">>]
              \/ /\ trn.left = <<"report", "manifest">>
                 /\ model' = [model EXCEPT !.report = <<Pinned, Pinned>>]
                 /\ trn' = [trn EXCEPT !.left = <<"manifest">>]
              \/ /\ trn.left = <<"manifest">>
                 /\ model' = [model EXCEPT !.manifest = <<Pinned, Pinned>>]
                 /\ trn' = [trn EXCEPT !.left = <<>>]
           /\ UNCHANGED <<dataset, features, gen, ext, latest>>
<1>1. /\ trn.pc = "publishing" /\ trn.left \in ModelLefts \ {<<>>}
      /\ trn.features = Pinned /\ trn.labels = Pinned
      /\ trn' = [trn EXCEPT !.left = Tail(trn.left)]
      /\ model' = [model EXCEPT ![Head(trn.left)] = <<Pinned, Pinned>>]
      /\ UNCHANGED <<dataset, features, gen, ext, latest>>
  BY DEF TrnPublish, TrnUnchanged, IInv, Storing
<1>2. CASE trn.left = ModelFiles
  BY <1>1, <1>2, NextToPublish
<1>3. CASE trn.left = <<"report", "manifest">>
  BY <1>1, <1>3, NextToPublish
<1>4. CASE trn.left = <<"manifest">>
  BY <1>1, <1>4, NextToPublish
<1> QED
  BY <1>1, <1>2, <1>3, <1>4 DEF ModelLefts

\* What one comparison of the contract shows.
LEMMA CheckHashEffect ==
    ASSUME IInv, CheckHash
    PROVE  /\ \/ TrnFails
              \/ /\ trn.pc = "checking" /\ trn' = [trn EXCEPT !.left = Tail(trn.left)]
                 /\ Tail(trn.left) \in BeforeLabels \cup BeforeFeatures \cup AfterFeatures
                 /\ Tail(trn.left) \notin BeforeLabels =>
                        trn.left \notin BeforeLabels \/ dataset.labels = Pinned
                 /\ Tail(trn.left) \in AfterFeatures =>
                        trn.left \in AfterFeatures \/ features.features = Pinned
           /\ UNCHANGED <<model, dataset, features, gen, ext, latest>>
<1>1. /\ trn.pc = "checking" /\ trn.left # <<>>
      /\ trn.left \in BeforeLabels \cup BeforeFeatures \cup AfterFeatures
      /\ \/ TrnFails
         \/ HashOk(Head(trn.left)) /\ trn' = [trn EXCEPT !.left = Tail(trn.left)]
      /\ UNCHANGED <<model, dataset, features, gen, ext, latest>>
  BY DEF CheckHash, TrnUnchanged, IInv, Loading
<1>2. HashOk("labels") => dataset.labels = Pinned
  BY DEF HashOk
<1>3. HashOk("features") => features.features = Pinned
  BY DEF HashOk
<1> QED
  BY <1>1, <1>2, <1>3, NextHash, ContractParts

-----------------------------------------------------------------------------
(* Preservation, program by program.                                       *)

\* Types are preserved.
LEMMA TypesStep ==
    ASSUME IInv, [Next]_vars
    PROVE  Types'
<1> USE PipelineAssumption, LeftsAreTyped, FailuresAreTyped DEF IInv, Types, Versions
<1>1. CASE Generate
  BY <1>1 DEF Generate, GenUnchanged, GenType
<1>2. CASE GenRefuses
  BY <1>2 DEF GenRefuses, GenUnchanged, GenType
<1>3. CASE GenPublish
  BY <1>3, GenPublishEffect DEF DatasetType, GenType
<1>4. CASE GenFinish
  BY <1>4 DEF GenFinish, GenUnchanged, GenType
<1>5. CASE GenInterrupted
  BY <1>5 DEF GenInterrupted, GenUnchanged, GenType
<1>6. CASE Extract
  BY <1>6 DEF Extract, ExtUnchanged, ExtType, DatasetType, IdleExtractor, Source
<1>7. CASE ExtRefuses
  BY <1>7 DEF ExtRefuses, ExtUnchanged, ExtFails
<1>8. CASE ReadEvents
  BY <1>8 DEF ReadEvents, ExtUnchanged, ExtFails, ExtType, DatasetType, Source
<1>9. CASE CheckHeader
  BY <1>9 DEF CheckHeader, ExtUnchanged, ExtFails, ExtType, DatasetType, Source
<1>10. CASE Lockstep
  BY <1>10 DEF Lockstep, ExtUnchanged, ExtFails, ExtType, DatasetType, Source
<1>11. CASE Recheck
  BY <1>11 DEF Recheck, ExtUnchanged, ExtFails, ExtType, DatasetType, Source
<1>12. CASE CheckUnchanged
  <2>1. CASE ExtFails
    BY <1>12, <2>1, CheckUnchangedEffect DEF ExtFails
  <2>2. CASE ext' = [ext EXCEPT !.pc = "reading"]
    BY <1>12, <2>2, CheckUnchangedEffect DEF ExtType
  <2>3. CASE ext' = [ext EXCEPT !.pc = "header", !.stage = "staged"]
    BY <1>12, <2>3, CheckUnchangedEffect DEF ExtType
  <2>4. CASE ext' = [ext EXCEPT !.pc = "publishing",
                        !.left = <<"unlink", "features", "report", "manifest">>]
    BY <1>12, <2>4, CheckUnchangedEffect, WhatIsPublished DEF ExtType
  <2>5. CASE /\ ext.stage = "staged" /\ ~ext.replacing
             /\ ext' = [ext EXCEPT !.pc = "publishing", !.left = FeatureFiles]
    BY <1>12, <2>5, CheckUnchangedEffect DEF ExtType
  <2> QED
    BY <1>12, <2>1, <2>2, <2>3, <2>4, <2>5, CheckUnchangedEffect
<1>13. CASE ExtPublish
  <2>1. ext' \in ExtType
    BY <1>13, ExtPublishEffect DEF ExtType
  <2>2. features' \in FeaturesType
    <3>1. /\ NoManifest \in [source : Versions, of : Versions]
          /\ ext.read \in Versions /\ ext.before \in Versions
      BY DEF ExtType, NoManifest
    <3>2. [source |-> ext.before, of |-> ext.read] \in [source : Versions, of : Versions]
      BY <3>1
    <3>3. \/ features' = [features EXCEPT !.manifest = NoManifest]
          \/ features' = [features EXCEPT !.features = ext.read]
          \/ features' = [features EXCEPT !.report = ext.read]
          \/ features' = [features EXCEPT
                !.manifest = [source |-> ext.before, of |-> ext.read]]
      BY <1>13, ExtPublishEffect
    <3> HIDE DEF Versions
    <3> QED
      BY <3>1, <3>2, <3>3 DEF FeaturesType
  <2> QED
    BY <1>13, <2>1, <2>2, ExtPublishEffect
<1>14. CASE ExtPublished
  BY <1>14 DEF ExtPublished, ExtUnchanged, ExtType, DatasetType, Source
<1>15. CASE ExtInterrupted
  BY <1>15 DEF ExtInterrupted, ExtUnchanged, ExtFails
<1>16. CASE Train
  BY <1>16 DEF Train, TrnUnchanged, TrnType
<1>17. CASE CheckHash
  BY <1>17, CheckHashEffect DEF TrnFails, TrnType
<1>18. CASE OpenFeatures
  BY <1>18 DEF OpenFeatures, TrnUnchanged, TrnFails, TrnType, FeaturesType
<1>19. CASE OpenLabels
  BY <1>19 DEF OpenLabels, TrnUnchanged, TrnFails, TrnType, DatasetType
<1>20. CASE RecheckLabels
  BY <1>20 DEF RecheckLabels, TrnUnchanged, TrnFails, TrnType
<1>21. CASE RecheckFeatures
  BY <1>21 DEF RecheckFeatures, TrnUnchanged, TrnFails, TrnType
<1>22. CASE TrnPublish
  BY <1>22, TrnPublishEffect DEF ModelType, TrnType
<1>23. CASE TrnFinish
  BY <1>23 DEF TrnFinish, TrnUnchanged, TrnType
<1>24. CASE TrnInterrupted
  BY <1>24 DEF TrnInterrupted, TrnUnchanged, TrnFails
<1>25. CASE RemoveDataset
  BY <1>25 DEF RemoveDataset, GenUnchanged, DatasetType, NoDataset
<1>26. CASE RemoveFeatures
  BY <1>26 DEF RemoveFeatures, ExtUnchanged, FeaturesType, NoFeatures, NoManifest
<1>27. CASE RemoveModel
  BY <1>27 DEF RemoveModel, TrnUnchanged, ModelType, NoModel, Nothing
<1>28. CASE UNCHANGED vars
  BY <1>28 DEF vars
<1> QED
  BY <1>1, <1>2, <1>3, <1>4, <1>5, <1>6, <1>7, <1>8, <1>9, <1>10, <1>11, <1>12, <1>13, <1>14,
     <1>15, <1>16, <1>17, <1>18, <1>19, <1>20, <1>21, <1>22, <1>23, <1>24, <1>25, <1>26, <1>27, <1>28
  DEF Next

\* The generator writes the newest version or removes, and versions only grow.
LEMMA GeneratorEffect ==
    ASSUME IInv, GeneratorStep
    PROVE  /\ UNCHANGED <<features, model, ext, trn>>
           /\ latest' >= latest /\ latest' \in Nat
           /\ dataset'.events \in {dataset.events, 0, latest}
           /\ dataset'.labels \in {dataset.labels, 0, latest}
<1> USE PipelineAssumption, Numbers DEF IInv, Types
<1>1. CASE Generate
  BY <1>1 DEF Generate, GenUnchanged
<1>2. CASE GenRefuses
  BY <1>2 DEF GenRefuses, GenUnchanged
<1>3. CASE GenPublish
  BY <1>3, GenPublishEffect DEF DatasetType
<1>4. CASE GenFinish
  BY <1>4 DEF GenFinish, GenUnchanged
<1>5. CASE GenInterrupted
  BY <1>5 DEF GenInterrupted, GenUnchanged
<1>6. CASE RemoveDataset
  BY <1>6 DEF RemoveDataset, GenUnchanged, NoDataset
<1> QED
  BY <1>1, <1>2, <1>3, <1>4, <1>5, <1>6
  DEF GeneratorStep

\* The extractor keeps what it read, forgets it, reads the events or writes what it
\* read.
LEMMA ExtractorEffect ==
    ASSUME IInv, ExtractorStep
    PROVE  /\ UNCHANGED <<dataset, model, gen, trn, latest>>
           /\ \/ ext'.read \in {ext.read, 0, dataset.events}
                 /\ features'.features = features.features
              \/ /\ ext'.read = ext.read /\ ext.read # 0
                 /\ features'.features = ext.read
              \/ ext'.read = 0 /\ features'.features = 0
<1> USE PipelineAssumption DEF IInv, Types
<1>1. CASE Extract
  BY <1>1 DEF Extract, ExtUnchanged, ExtType, IdleExtractor
<1>2. CASE ExtRefuses
  BY <1>2 DEF ExtRefuses, ExtUnchanged, ExtFails, ExtType, IdleExtractor
<1>3. CASE ReadEvents
  <2>1. CASE dataset.events = 0
    BY <1>3, <2>1 DEF ReadEvents, ExtUnchanged, ExtFails, IdleExtractor
  <2>2. CASE dataset.events # 0
    <3>1. /\ ext'.read = dataset.events
          /\ UNCHANGED <<features, dataset, model, gen, trn, latest>>
      BY <1>3, <2>2 DEF ReadEvents, ExtUnchanged, ExtType
    <3> QED
      BY <3>1
  <2> QED
    BY <2>1, <2>2
<1>4. CASE CheckHeader
  <2>1. ext'.read \in {0, ext.read} /\ UNCHANGED <<features, dataset, model, gen, trn, latest>>
    <3>1. CASE ExtFails
      BY <1>4, <3>1 DEF CheckHeader, ExtUnchanged, ExtFails, IdleExtractor
    <3>2. CASE ext' = [ext EXCEPT !.measured = Source, !.pc = "lockstep"]
      BY <1>4, <3>2 DEF CheckHeader, ExtUnchanged, ExtType
    <3> QED
      BY <1>4, <3>1, <3>2 DEF CheckHeader
  <2> QED
    BY <2>1
<1>5. CASE Lockstep
  BY <1>5 DEF Lockstep, ExtUnchanged, ExtFails, ExtType, IdleExtractor
<1>6. CASE Recheck
  BY <1>6 DEF Recheck, ExtUnchanged, ExtFails, ExtType, IdleExtractor
<1>7. CASE CheckUnchanged
  <2>1. CASE ExtFails
    BY <1>7, <2>1, CheckUnchangedEffect DEF ExtFails, IdleExtractor
  <2>2. CASE ext' = [ext EXCEPT !.pc = "reading"]
    BY <1>7, <2>2, CheckUnchangedEffect DEF ExtType
  <2>3. CASE ext' = [ext EXCEPT !.pc = "header", !.stage = "staged"]
    BY <1>7, <2>3, CheckUnchangedEffect DEF ExtType
  <2>4. CASE ext' = [ext EXCEPT !.pc = "publishing",
                        !.left = <<"unlink", "features", "report", "manifest">>]
    BY <1>7, <2>4, CheckUnchangedEffect DEF ExtType
  <2>5. CASE /\ ext.stage = "staged" /\ ~ext.replacing
             /\ ext' = [ext EXCEPT !.pc = "publishing", !.left = FeatureFiles]
    BY <1>7, <2>5, CheckUnchangedEffect DEF ExtType
  <2> QED
    BY <1>7, <2>1, <2>2, <2>3, <2>4, <2>5, CheckUnchangedEffect
<1>8. CASE ExtPublish
  BY <1>8, ExtPublishEffect DEF ExtType, FeaturesType, Extracted
<1>9. CASE ExtPublished
  BY <1>9 DEF ExtPublished, ExtUnchanged, ExtType, IdleExtractor
<1>10. CASE ExtInterrupted
  BY <1>10 DEF ExtInterrupted, ExtUnchanged, ExtFails, ExtType, IdleExtractor
<1>11. CASE RemoveFeatures
  BY <1>11 DEF RemoveFeatures, ExtUnchanged, NoFeatures, IdleExtractor
<1> QED
  BY <1>1, <1>2, <1>3, <1>4, <1>5, <1>6, <1>7, <1>8, <1>9, <1>10, <1>11
  DEF ExtractorStep

\* The trainer writes nothing that the others read.
LEMMA TrainerEffect ==
    ASSUME IInv, TrainerStep
    PROVE  UNCHANGED <<dataset, features, gen, ext, latest>>
<1> USE PipelineAssumption DEF TrnUnchanged
<1>1. CASE Train
  BY <1>1 DEF Train, TrnUnchanged
<1>2. CASE CheckHash
  BY <1>2, CheckHashEffect DEF TrnFails
<1>3. CASE OpenFeatures
  BY <1>3 DEF OpenFeatures, TrnUnchanged, TrnFails
<1>4. CASE OpenLabels
  BY <1>4 DEF OpenLabels, TrnUnchanged, TrnFails
<1>5. CASE RecheckLabels
  BY <1>5 DEF RecheckLabels, TrnUnchanged, TrnFails
<1>6. CASE RecheckFeatures
  BY <1>6 DEF RecheckFeatures, TrnUnchanged, TrnFails
<1>7. CASE TrnPublish
  BY <1>7, TrnPublishEffect
<1>8. CASE TrnFinish
  BY <1>8 DEF TrnFinish, TrnUnchanged
<1>9. CASE TrnInterrupted
  BY <1>9 DEF TrnInterrupted, TrnUnchanged, TrnFails
<1>10. CASE RemoveModel
  BY <1>10 DEF RemoveModel, TrnUnchanged
<1> QED
  BY <1>1, <1>2, <1>3, <1>4, <1>5, <1>6, <1>7, <1>8, <1>9, <1>10
  DEF TrainerStep

\* Every step is one of the three programs' or of nobody.
LEMMA StepsOfPrograms ==
    ASSUME [Next]_vars
    PROVE  GeneratorStep \/ ExtractorStep \/ TrainerStep \/ UNCHANGED vars
BY DEF Next, GeneratorStep, ExtractorStep, TrainerStep

\* Order is preserved: what is written comes from the newest version, or from what
\* was read before.
LEMMA OrderStep ==
    ASSUME IInv, [Next]_vars
    PROVE  Ordered'
<1> USE Numbers DEF IInv, Ordered, SeenEvents, AbsentOr
<1>1. CASE GeneratorStep
  BY <1>1, GeneratorEffect
<1>2. CASE ExtractorStep
  BY <1>2, ExtractorEffect
<1>3. CASE TrainerStep
  BY <1>3, TrainerEffect
<1>4. CASE UNCHANGED vars
  BY <1>4 DEF vars
<1> QED
  BY <1>1, <1>2, <1>3, <1>4, StepsOfPrograms

\* The extractor measures, recomputes and measures again.
LEMMA MeasuredExtractorStep ==
    ASSUME IInv, ExtractorStep
    PROVE  Measured'
<1> USE PipelineAssumption, Numbers DEF IInv, Types, Ordered, Measured, SeenEvents, AbsentOr
<1>1. CASE Extract
  BY <1>1 DEF Extract, ExtUnchanged, ExtType, IdleExtractor
<1>2. CASE ExtRefuses
  BY <1>2 DEF ExtRefuses, ExtUnchanged, ExtFails, ExtType, IdleExtractor
<1>3. CASE ReadEvents
  BY <1>3 DEF ReadEvents, ExtUnchanged, ExtFails, ExtType, IdleExtractor
<1>4. CASE CheckHeader
  <2>1. CASE ExtFails
    BY <1>4, <2>1 DEF CheckHeader, ExtUnchanged, ExtFails, IdleExtractor
  <2>2. CASE ext' = [ext EXCEPT !.measured = Source, !.pc = "lockstep"]
    <3>1. /\ ext'.pc = "lockstep" /\ ext'.measured = Source
          /\ UNCHANGED <<features, dataset, latest>>
      BY <1>4, <2>2 DEF CheckHeader, ExtUnchanged, ExtType
    <3>2. Subject' = Subject
      BY <1>4, <2>2 DEF Subject, CheckHeader, ExtType
    <3>3. Source # 0 /\ Subject.manifest.source = Source
      <4>1. ~ExtFails
        BY <3>1 DEF ExtFails, IdleExtractor
      <4> QED
        BY <1>4, <4>1 DEF CheckHeader
    <3> QED
      BY <3>1, <3>2, <3>3 DEF Source
  <2> QED
    BY <1>4, <2>1, <2>2 DEF CheckHeader
<1>5. CASE Lockstep
  BY <1>5 DEF Lockstep, ExtUnchanged, ExtFails, ExtType, IdleExtractor, Subject
<1>6. CASE Recheck
  BY <1>6 DEF Recheck, ExtUnchanged, ExtFails, ExtType, IdleExtractor
<1>7. CASE CheckUnchanged
  BY <1>7, CheckUnchangedEffect DEF ExtFails, ExtType, IdleExtractor
<1>8. CASE ExtPublish
  BY <1>8, ExtPublishEffect DEF ExtType
<1>9. CASE ExtPublished
  BY <1>9 DEF ExtPublished, ExtUnchanged, ExtType, IdleExtractor
<1>10. CASE ExtInterrupted
  BY <1>10 DEF ExtInterrupted, ExtUnchanged, ExtFails, ExtType, IdleExtractor
<1>11. CASE RemoveFeatures
  BY <1>11 DEF RemoveFeatures, ExtUnchanged, IdleExtractor
<1> QED
  BY <1>1, <1>2, <1>3, <1>4, <1>5, <1>6, <1>7, <1>8, <1>9, <1>10, <1>11
  DEF ExtractorStep

\* What the measurements enclose is preserved.
LEMMA MeasuredStep ==
    ASSUME IInv, [Next]_vars
    PROVE  Measured'
<1> USE Numbers DEF IInv, Ordered, Measured, SeenEvents, AbsentOr
<1>1. CASE GeneratorStep
  <2>1. Subject' = Subject
    BY <1>1, GeneratorEffect DEF Subject
  <2>2. Subject.features \in Nat
    BY DEF Subject
  <2> QED
    BY <1>1, <2>1, <2>2, GeneratorEffect
<1>2. CASE ExtractorStep
  BY <1>2, MeasuredExtractorStep
<1>3. CASE TrainerStep
  BY <1>3, TrainerEffect DEF Subject
<1>4. CASE UNCHANGED vars
  BY <1>4 DEF vars, Subject
<1> QED
  BY <1>1, <1>2, <1>3, <1>4, StepsOfPrograms

\* The extractor reads before it stages, and stages before it publishes.
LEMMA ExtractedExtractorStep ==
    ASSUME IInv, ExtractorStep
    PROVE  Extracted'
<1> USE PipelineAssumption DEF IInv, Types, Extracted, Ended
<1>1. CASE Extract
  BY <1>1 DEF Extract, ExtUnchanged, ExtType, IdleExtractor
<1>2. CASE ExtRefuses
  BY <1>2 DEF ExtRefuses, ExtUnchanged, ExtFails, ExtType, IdleExtractor
<1>3. CASE ReadEvents
  <2>1. CASE dataset.events = 0
    BY <1>3, <2>1 DEF ReadEvents, ExtUnchanged, ExtFails, IdleExtractor
  <2>2. CASE dataset.events # 0
    <3>1. /\ ext'.pc = "unchanged" /\ ext'.stage = "extracted"
          /\ ext'.read # 0 /\ ext'.replacing = ext.replacing
          /\ UNCHANGED features
      BY <1>3, <2>2 DEF ReadEvents, ExtType
    <3>2. ext.pc = "reading"
      BY <1>3 DEF ReadEvents
    <3>3. ext.stage # "published"
      BY <3>2
    <3> QED
      BY <3>1, <3>2, <3>3
  <2> QED
    BY <2>1, <2>2
<1>4. CASE CheckHeader
  BY <1>4 DEF CheckHeader, ExtUnchanged, ExtFails, ExtType, IdleExtractor
<1>5. CASE Lockstep
  BY <1>5 DEF Lockstep, ExtUnchanged, ExtFails, ExtType, IdleExtractor
<1>6. CASE Recheck
  BY <1>6 DEF Recheck, ExtUnchanged, ExtFails, ExtType, IdleExtractor
<1>7. CASE CheckUnchanged
  BY <1>7, CheckUnchangedEffect DEF ExtFails, ExtType, IdleExtractor
<1>8. CASE ExtPublish
  BY <1>8, ExtPublishEffect DEF ExtType
<1>9. CASE ExtPublished
  BY <1>9 DEF ExtPublished, ExtUnchanged, ExtType, IdleExtractor
<1>10. CASE ExtInterrupted
  BY <1>10 DEF ExtInterrupted, ExtUnchanged, ExtFails, ExtType, IdleExtractor
<1>11. CASE RemoveFeatures
  BY <1>11 DEF RemoveFeatures, ExtUnchanged, IdleExtractor
<1> QED
  BY <1>1, <1>2, <1>3, <1>4, <1>5, <1>6, <1>7, <1>8, <1>9, <1>10, <1>11
  DEF ExtractorStep

\* The manifest is absent while what it vouches for is replaced.
LEMMA PublishingExtractorStep ==
    ASSUME IInv, ExtractorStep
    PROVE  Publishing'
<1> USE PipelineAssumption, DistinctLefts DEF IInv, Types, Extracted, Publishing, Ended
<1>1. CASE Extract
  BY <1>1 DEF Extract, ExtUnchanged, ExtType, IdleExtractor
<1>2. CASE ExtRefuses
  BY <1>2 DEF ExtRefuses, ExtUnchanged, ExtFails, ExtType, IdleExtractor
<1>3. CASE ReadEvents
  BY <1>3 DEF ReadEvents, ExtUnchanged, ExtFails, ExtType, IdleExtractor
<1>4. CASE CheckHeader
  BY <1>4 DEF CheckHeader, ExtUnchanged, ExtFails, ExtType, IdleExtractor
<1>5. CASE Lockstep
  BY <1>5 DEF Lockstep, ExtUnchanged, ExtFails, ExtType, IdleExtractor
<1>6. CASE Recheck
  BY <1>6 DEF Recheck, ExtUnchanged, ExtFails, ExtType, IdleExtractor
<1>7. CASE CheckUnchanged
  <2>1. CASE ExtFails
    BY <1>7, <2>1, CheckUnchangedEffect DEF ExtFails, IdleExtractor
  <2>2. CASE ext' = [ext EXCEPT !.pc = "reading"]
    BY <1>7, <2>2, CheckUnchangedEffect DEF ExtType, NoFeatures
  <2>3. CASE ext' = [ext EXCEPT !.pc = "header", !.stage = "staged"]
    BY <1>7, <2>3, CheckUnchangedEffect DEF ExtType, NoFeatures
  <2>4. CASE ext' = [ext EXCEPT !.pc = "publishing",
                        !.left = <<"unlink", "features", "report", "manifest">>]
    BY <1>7, <2>4, CheckUnchangedEffect DEF ExtType, NoFeatures
  <2>5. CASE /\ ext.stage = "staged" /\ ~ext.replacing
             /\ ext' = [ext EXCEPT !.pc = "publishing", !.left = FeatureFiles]
    BY <1>7, <2>5, CheckUnchangedEffect DEF ExtType, NoFeatures
  <2> QED
    BY <1>7, <2>1, <2>2, <2>3, <2>4, <2>5, CheckUnchangedEffect
<1>8. CASE ExtPublish
  <2>1. CASE ext.left = <<"unlink", "features", "report", "manifest">>
    BY <1>8, <2>1, ExtPublishEffect DEF ExtType, FeaturesType
  <2>2. CASE ext.left = FeatureFiles
    BY <1>8, <2>2, ExtPublishEffect DEF ExtType, FeaturesType
  <2>3. CASE ext.left = <<"report", "manifest">>
    BY <1>8, <2>3, ExtPublishEffect DEF ExtType, FeaturesType
  <2>4. CASE ext.left = <<"manifest">>
    BY <1>8, <2>4, ExtPublishEffect DEF ExtType, FeaturesType
  <2> QED
    BY <1>8, <2>1, <2>2, <2>3, <2>4, ExtPublishEffect
<1>9. CASE ExtPublished
  BY <1>9 DEF ExtPublished, ExtUnchanged, ExtType, IdleExtractor
<1>10. CASE ExtInterrupted
  BY <1>10 DEF ExtInterrupted, ExtUnchanged, ExtFails, ExtType, IdleExtractor
<1>11. CASE RemoveFeatures
  BY <1>11 DEF RemoveFeatures, ExtUnchanged, IdleExtractor
<1> QED
  BY <1>1, <1>2, <1>3, <1>4, <1>5, <1>6, <1>7, <1>8, <1>9, <1>10, <1>11
  DEF ExtractorStep

\* An extraction succeeds only on features of one source.
LEMMA OneSourceExtractorStep ==
    ASSUME IInv, ExtractorStep
    PROVE  FeaturesOfOneSource'
<1> USE PipelineAssumption, Numbers DEF IInv, Types, FeaturesOfOneSource, Ended
<1>1. CASE Extract
  BY <1>1 DEF Extract, ExtUnchanged, ExtType, IdleExtractor
<1>2. CASE ExtRefuses
  BY <1>2 DEF ExtRefuses, ExtUnchanged, ExtFails, ExtType, IdleExtractor
<1>3. CASE ReadEvents
  BY <1>3 DEF ReadEvents, ExtUnchanged, ExtFails, ExtType, IdleExtractor
<1>4. CASE CheckHeader
  BY <1>4 DEF CheckHeader, ExtUnchanged, ExtFails, ExtType, IdleExtractor
<1>5. CASE Lockstep
  BY <1>5 DEF Lockstep, ExtUnchanged, ExtFails, ExtType, IdleExtractor
<1>6. CASE Recheck
  BY <1>6 DEF Recheck, ExtUnchanged, ExtFails, ExtType, FeaturesType, IdleExtractor, Source, Measured, Ordered, SeenEvents, AbsentOr, Subject
<1>7. CASE CheckUnchanged
  BY <1>7, CheckUnchangedEffect DEF ExtFails, ExtType, IdleExtractor
<1>8. CASE ExtPublish
  BY <1>8, ExtPublishEffect DEF ExtType
<1>9. CASE ExtPublished
  BY <1>9 DEF ExtPublished, ExtUnchanged, ExtType, IdleExtractor
<1>10. CASE ExtInterrupted
  BY <1>10 DEF ExtInterrupted, ExtUnchanged, ExtFails, ExtType, IdleExtractor
<1>11. CASE RemoveFeatures
  BY <1>11 DEF RemoveFeatures, ExtUnchanged, IdleExtractor
<1> QED
  BY <1>1, <1>2, <1>3, <1>4, <1>5, <1>6, <1>7, <1>8, <1>9, <1>10, <1>11
  DEF ExtractorStep

\* A feature manifest lies beside what it vouches for.
LEMMA VouchesExtractorStep ==
    ASSUME IInv, ExtractorStep
    PROVE  ManifestVouches'
<1> USE PipelineAssumption, DistinctLefts DEF IInv, Types, Extracted, Publishing, ManifestVouches
<1>1. CASE Extract
  BY <1>1 DEF Extract, ExtUnchanged
<1>2. CASE ExtRefuses
  BY <1>2 DEF ExtRefuses, ExtUnchanged, ExtFails
<1>3. CASE ReadEvents
  BY <1>3 DEF ReadEvents, ExtUnchanged, ExtFails
<1>4. CASE CheckHeader
  BY <1>4 DEF CheckHeader, ExtUnchanged, ExtFails
<1>5. CASE Lockstep
  BY <1>5 DEF Lockstep, ExtUnchanged, ExtFails
<1>6. CASE Recheck
  BY <1>6 DEF Recheck, ExtUnchanged, ExtFails
<1>7. CASE CheckUnchanged
  BY <1>7, CheckUnchangedEffect DEF ExtFails
<1>8. CASE ExtPublish
  <2>1. CASE ext.left = <<"unlink", "features", "report", "manifest">>
    BY <1>8, <2>1, ExtPublishEffect DEF ExtType, FeaturesType, NoManifest
  <2>2. CASE ext.left = FeatureFiles
    BY <1>8, <2>2, ExtPublishEffect DEF ExtType, FeaturesType, NoManifest
  <2>3. CASE ext.left = <<"report", "manifest">>
    BY <1>8, <2>3, ExtPublishEffect DEF ExtType, FeaturesType, NoManifest
  <2>4. CASE ext.left = <<"manifest">>
    BY <1>8, <2>4, ExtPublishEffect DEF ExtType, FeaturesType, NoManifest
  <2> QED
    BY <1>8, <2>1, <2>2, <2>3, <2>4, ExtPublishEffect
<1>9. CASE ExtPublished
  BY <1>9 DEF ExtPublished, ExtUnchanged
<1>10. CASE ExtInterrupted
  BY <1>10 DEF ExtInterrupted, ExtUnchanged, ExtFails
<1>11. CASE RemoveFeatures
  BY <1>11 DEF RemoveFeatures, ExtUnchanged, NoFeatures, NoManifest
<1> QED
  BY <1>1, <1>2, <1>3, <1>4, <1>5, <1>6, <1>7, <1>8, <1>9, <1>10, <1>11
  DEF ExtractorStep

\* What the extractor relies on is preserved.
LEMMA ExtractorStepPreserves ==
    ASSUME IInv, [Next]_vars
    PROVE  Extracted' /\ Publishing' /\ FeaturesOfOneSource'
<1>1. CASE UNCHANGED <<ext, features>>
  BY <1>1 DEF IInv, Extracted, Publishing, FeaturesOfOneSource, Ended
<1>2. CASE ExtractorStep
  BY <1>2, ExtractedExtractorStep, PublishingExtractorStep, OneSourceExtractorStep
<1> QED
  BY <1>1, <1>2, StepsOfPrograms, GeneratorEffect, TrainerEffect DEF vars

\* The trainer loads between two hashes.
LEMMA LoadingTrainerStep ==
    ASSUME IInv, TrainerStep
    PROVE  Loading'
<1> USE PipelineAssumption, Numbers, ContractParts DEF IInv, Types, Loading, Ordered, SeenLabels, SeenFeatures, SeenEvents, AbsentOr
<1>1. CASE Train
  BY <1>1 DEF Train, TrnUnchanged
<1>2. CASE CheckHash
  <2>1. CASE TrnFails
    BY <1>2, <2>1 DEF TrnFails
  <2>2. CASE ~TrnFails
    <3>1. /\ trn.pc = "checking" /\ trn' = [trn EXCEPT !.left = Tail(trn.left)]
          /\ Tail(trn.left) \in BeforeLabels \cup BeforeFeatures \cup AfterFeatures
          /\ Tail(trn.left) \notin BeforeLabels =>
                trn.left \notin BeforeLabels \/ dataset.labels = Pinned
          /\ Tail(trn.left) \in AfterFeatures =>
                trn.left \in AfterFeatures \/ features.features = Pinned
          /\ UNCHANGED <<dataset, features, ext, latest>>
      BY <1>2, <2>2, CheckHashEffect
    <3>2. trn'.pc = "checking" /\ trn'.left = Tail(trn.left)
      BY <3>1 DEF TrnType
    <3> QED
      BY <3>1, <3>2
  <2> QED
    BY <2>1, <2>2
<1>3. CASE OpenFeatures
  <2>1. CASE TrnFails
    BY <1>3, <2>1 DEF OpenFeatures, TrnUnchanged, TrnFails
  <2>2. CASE /\ features.features # 0
             /\ trn' = [trn EXCEPT !.pc = "opened", !.features = features.features]
    <3>1. /\ trn'.pc = "opened" /\ trn'.features = features.features
          /\ UNCHANGED <<dataset, features, ext, latest>>
      BY <1>3, <2>2 DEF OpenFeatures, TrnUnchanged, TrnType
    <3>2. SeenLabels(Pinned) /\ SeenFeatures(Pinned)
      BY <1>3 DEF OpenFeatures
    <3> QED
      BY <2>2, <3>1, <3>2
  <2> QED
    BY <1>3, <2>1, <2>2 DEF OpenFeatures
<1>4. CASE OpenLabels
  <2>1. CASE TrnFails
    BY <1>4, <2>1 DEF OpenLabels, TrnUnchanged, TrnFails
  <2>2. CASE /\ dataset.labels # 0
             /\ trn' = [trn EXCEPT !.pc = "loaded", !.labels = dataset.labels]
    <3>1. /\ trn'.pc = "loaded" /\ trn'.labels = dataset.labels
          /\ trn'.features = trn.features /\ trn.pc = "opened"
          /\ UNCHANGED <<dataset, features, ext, latest>>
      BY <1>4, <2>2 DEF OpenLabels, TrnUnchanged, TrnType
    <3> QED
      BY <2>2, <3>1
  <2> QED
    BY <1>4, <2>1, <2>2 DEF OpenLabels
<1>5. CASE RecheckLabels
  BY <1>5 DEF RecheckLabels, TrnUnchanged, TrnFails, TrnType, HashOk
<1>6. CASE RecheckFeatures
  <2>1. CASE TrnFails
    BY <1>6, <2>1 DEF RecheckFeatures, TrnUnchanged, TrnFails
  <2>2. CASE /\ HashOk("features") /\ model = NoModel
             /\ trn' = [trn EXCEPT !.pc = "publishing", !.left = ModelFiles]
    BY <1>6, <2>2 DEF RecheckFeatures, TrnUnchanged, TrnType
  <2> QED
    BY <1>6, <2>1, <2>2 DEF RecheckFeatures
<1>7. CASE TrnPublish
  BY <1>7, TrnPublishEffect DEF TrnType
<1>8. CASE TrnFinish
  BY <1>8 DEF TrnFinish, TrnUnchanged, TrnType
<1>9. CASE TrnInterrupted
  BY <1>9 DEF TrnInterrupted, TrnUnchanged, TrnFails
<1>10. CASE RemoveModel
  BY <1>10 DEF RemoveModel, TrnUnchanged
<1> QED
  BY <1>1, <1>2, <1>3, <1>4, <1>5, <1>6, <1>7, <1>8, <1>9, <1>10
  DEF TrainerStep

\* The trainer publishes what it was configured with, the manifest last.
LEMMA StoringTrainerStep ==
    ASSUME IInv, TrainerStep
    PROVE  Storing' /\ TrainedOnPinned'
<1> USE PipelineAssumption, DistinctLefts, LeftsAreTyped DEF IInv, Types, Storing, TrainedOnPinned
<1>1. CASE Train
  BY <1>1 DEF Train, TrnUnchanged
<1>2. CASE CheckHash
  BY <1>2, CheckHashEffect DEF TrnFails, TrnType
<1>3. CASE OpenFeatures
  <2>1. CASE TrnFails
    BY <1>3, <2>1 DEF OpenFeatures, TrnUnchanged, TrnFails
  <2>2. CASE /\ features.features # 0
             /\ trn' = [trn EXCEPT !.pc = "opened", !.features = features.features]
    BY <1>3, <2>2 DEF OpenFeatures, TrnType
  <2> QED
    BY <1>3, <2>1, <2>2 DEF OpenFeatures
<1>4. CASE OpenLabels
  <2>1. CASE TrnFails
    BY <1>4, <2>1 DEF OpenLabels, TrnUnchanged, TrnFails
  <2>2. CASE /\ dataset.labels # 0
             /\ trn' = [trn EXCEPT !.pc = "loaded", !.labels = dataset.labels]
    BY <1>4, <2>2 DEF OpenLabels, TrnType
  <2> QED
    BY <1>4, <2>1, <2>2 DEF OpenLabels
<1>5. CASE RecheckLabels
  BY <1>5 DEF RecheckLabels, TrnUnchanged, TrnFails, TrnType
<1>6. CASE RecheckFeatures
  <2>1. CASE TrnFails
    BY <1>6, <2>1 DEF RecheckFeatures, TrnUnchanged, TrnFails
  <2>2. CASE /\ HashOk("features") /\ model = NoModel
             /\ trn' = [trn EXCEPT !.pc = "publishing", !.left = ModelFiles]
    <3>1. /\ trn'.pc = "publishing" /\ trn'.left = ModelFiles
          /\ trn'.features = trn.features /\ trn'.labels = trn.labels
          /\ trn.pc = "rechecked" /\ UNCHANGED model
      BY <1>6, <2>2 DEF RecheckFeatures, TrnType
    <3>2. trn.features = Pinned /\ trn.labels = Pinned
      BY <2>2, <3>1, Numbers DEF Loading, SeenFeatures, AbsentOr, HashOk
    <3>3. model.manifest = Nothing /\ ModelFiles \in ModelLefts
      BY <2>2, LeftsAreTyped DEF NoModel
    <3> QED
      BY <3>1, <3>2, <3>3
  <2> QED
    BY <1>6, <2>1, <2>2 DEF RecheckFeatures
<1>7. CASE TrnPublish
  BY <1>7, TrnPublishEffect DEF TrnType, ModelType
<1>8. CASE TrnFinish
  BY <1>8 DEF TrnFinish, TrnUnchanged, TrnType
<1>9. CASE TrnInterrupted
  BY <1>9 DEF TrnInterrupted, TrnUnchanged, TrnFails
<1>10. CASE RemoveModel
  BY <1>10 DEF RemoveModel, TrnUnchanged, Ended, NoModel
<1> QED
  BY <1>1, <1>2, <1>3, <1>4, <1>5, <1>6, <1>7, <1>8, <1>9, <1>10
  DEF TrainerStep

\* A model manifest lies beside what it vouches for.
LEMMA VouchesTrainerStep ==
    ASSUME IInv, TrainerStep
    PROVE  ManifestVouches'
<1> USE DistinctLefts DEF IInv, Types, Storing, ManifestVouches
<1>1. CASE Train
  BY <1>1 DEF Train, TrnUnchanged
<1>2. CASE CheckHash
  BY <1>2, CheckHashEffect DEF TrnFails
<1>3. CASE OpenFeatures
  BY <1>3 DEF OpenFeatures, TrnUnchanged, TrnFails
<1>4. CASE OpenLabels
  BY <1>4 DEF OpenLabels, TrnUnchanged, TrnFails
<1>5. CASE RecheckLabels
  BY <1>5 DEF RecheckLabels, TrnUnchanged, TrnFails
<1>6. CASE RecheckFeatures
  BY <1>6 DEF RecheckFeatures, TrnUnchanged, TrnFails
<1>7. CASE TrnPublish
  BY <1>7, TrnPublishEffect DEF ModelType, Nothing
<1>8. CASE TrnFinish
  BY <1>8 DEF TrnFinish, TrnUnchanged
<1>9. CASE TrnInterrupted
  BY <1>9 DEF TrnInterrupted, TrnUnchanged, TrnFails
<1>10. CASE RemoveModel
  BY <1>10 DEF RemoveModel, TrnUnchanged, NoModel, Nothing
<1> QED
  BY <1>1, <1>2, <1>3, <1>4, <1>5, <1>6, <1>7, <1>8, <1>9, <1>10
  DEF TrainerStep

\* What the trainer relies on is preserved, whatever the others replace meanwhile.
LEMMA TrainerStepPreserves ==
    ASSUME IInv, [Next]_vars
    PROVE  Loading' /\ Storing' /\ TrainedOnPinned'
<1>1. CASE GeneratorStep
  <2>1. Storing' /\ TrainedOnPinned'
    BY <1>1, GeneratorEffect DEF IInv, Storing, TrainedOnPinned
  <2>2. Loading'
    BY <1>1, GeneratorEffect, Numbers
    DEF IInv, Loading, SeenLabels, SeenFeatures, SeenEvents, AbsentOr
  <2> QED
    BY <2>1, <2>2
<1>2. CASE ExtractorStep
  <2>1. Storing' /\ TrainedOnPinned'
    BY <1>2, ExtractorEffect DEF IInv, Storing, TrainedOnPinned
  <2>2. Loading'
    BY <1>2, ExtractorEffect, Numbers
    DEF IInv, Loading, SeenLabels, SeenFeatures, SeenEvents, AbsentOr
  <2> QED
    BY <2>1, <2>2
<1>3. CASE TrainerStep
  BY <1>3, LoadingTrainerStep, StoringTrainerStep
<1>4. CASE UNCHANGED vars
  BY <1>4 DEF vars, IInv, Loading, Storing, TrainedOnPinned, SeenLabels, SeenFeatures,
              SeenEvents
<1> QED
  BY <1>1, <1>2, <1>3, <1>4, StepsOfPrograms

\* Manifests vouch after every step.
LEMMA VouchesStep ==
    ASSUME IInv, [Next]_vars
    PROVE  ManifestVouches'
<1>1. CASE UNCHANGED <<features, model>>
  BY <1>1 DEF IInv, ManifestVouches
<1> QED
  BY <1>1, StepsOfPrograms, GeneratorEffect, VouchesExtractorStep, VouchesTrainerStep
  DEF vars

\* At the start no program runs and nothing is published.
LEMMA InitialInvariant == Init => IInv
<1> SUFFICES ASSUME Init PROVE IInv
  OBVIOUS
<1>1. 0 \in Versions
  BY PipelineAssumption DEF Versions
<1>2. dataset \in DatasetType /\ features \in FeaturesType /\ model \in ModelType
  BY <1>1 DEF Init, DatasetType, NoDataset, FeaturesType, NoFeatures, NoManifest, ModelType,
              NoModel, Nothing
<1>3. gen \in GenType /\ ext \in ExtType /\ trn \in TrnType
  BY <1>1, LeftsAreTyped, FailuresAreTyped DEF Init, GenType, TrnType
<1>4. Types
  BY <1>1, <1>2, <1>3 DEF Init, Types
<1>5. Ordered
  BY DEF Init, NoDataset, NoFeatures, IdleExtractor, Ordered, SeenEvents, AbsentOr
<1>6. Measured /\ Extracted /\ Publishing /\ FeaturesOfOneSource
  BY DEF Init, IdleExtractor, Measured, Extracted, Publishing, FeaturesOfOneSource, Ended
<1>7. Loading /\ Storing /\ TrainedOnPinned /\ ManifestVouches
  BY DEF Init, NoFeatures, NoModel, Nothing, Loading, Storing, TrainedOnPinned,
         ManifestVouches
<1> QED
  BY <1>4, <1>5, <1>6, <1>7 DEF IInv

-----------------------------------------------------------------------------
\* The inductive invariant: versions only grow, so a file found twice at one
\* version was not replaced between, and what was read in between is that version.
THEOREM PipelineInvariantHolds == Spec => []IInv
<1>1. IInv /\ [Next]_vars => IInv'
  BY TypesStep, OrderStep, MeasuredStep, ExtractorStepPreserves, TrainerStepPreserves,
     VouchesStep DEF IInv
<1> QED
  BY InitialInvariant, <1>1, PTL DEF Spec

\* extract_feature_dataset reports success only on features, report and manifest of
\* one source, for any number of replacements of the dataset meanwhile.
THEOREM FeaturesHaveOneSource == Spec => []FeaturesOfOneSource
BY PipelineInvariantHolds, PTL DEF IInv

\* publish_staged_artifacts and _publish: at every instant and after every
\* interruption a feature or model manifest lies beside the very files it vouches
\* for.
THEOREM ManifestsVouch == Spec => []ManifestVouches
BY PipelineInvariantHolds, PTL DEF IInv

\* load_training_data: a model comes from the pinned features and labels only,
\* for any pinned version and any number of versions before and after it.
THEOREM ModelsAreOfPinned == Spec => []TrainedOnPinned
BY PipelineInvariantHolds, PTL DEF IInv

\* The types of the state, and that a staged extraction always has events.
THEOREM PipelineTypes == Spec => []TypeOK
<1>1. IInv => TypeOK
  <2> SUFFICES ASSUME IInv PROVE TypeOK
    OBVIOUS
  <2>1. /\ dataset \in [{"events", "labels", "report", "manifest"} -> Versions]
        /\ model \in [{"model", "report", "manifest"} -> Versions \X Versions]
    BY DEF IInv, Types, DatasetType, ModelType
  <2> QED
    BY <2>1 DEF IInv, Types, FeaturesType, GenType, ExtType, TrnType, Extracted, TypeOK
<1> QED
  BY <1>1, PipelineInvariantHolds, PTL

=============================================================================
