-------------------------- MODULE MCArtifactPipeline --------------------------
\* Three versions of the dataset: an older, the pinned and a newer one.
EXTENDS ArtifactPipeline
=============================================================================
