------------------------ MODULE MCGeopoliticalResearch ------------------------
(* Small instances of GeopoliticalResearch for TLC.                           *)
EXTENDS GeopoliticalResearch, TLC

CONSTANTS r1, r2, x1, x2, i1, i2, o1, o2

\* Workflow runs, executions, remote ids and services are interchangeable.
ResearchSymmetry ==
  Permutations({r1, r2}) \cup Permutations({x1, x2})
    \cup Permutations({i1, i2}) \cup Permutations({o1, o2})
=============================================================================
