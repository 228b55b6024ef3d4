--------------------------- MODULE MCRunLifecycle ---------------------------
EXTENDS RunLifecycle, TLC

\* Runs and workers are interchangeable in the safety runs.
Symmetry == Permutations(Workers) \cup Permutations(Runs)
=============================================================================
