----------------------------- MODULE MCEventBatch -----------------------------
(* Small instances of EventBatch for TLC.                                    *)
EXTENDS EventBatchLedger, TLC

CONSTANTS r1, r2

\* Two overlapping runs are interchangeable.
RunSymmetry == Permutations({r1, r2})
=============================================================================
