-------------------------- MODULE MCRagDimensions --------------------------
EXTENDS RagDimensions, TLC

\* No definition tells two sources apart but by their rows.
SourceSymmetry == Permutations(Sources)
============================================================================
