---------------------------- MODULE MCArticleQueue ----------------------------
(* Small instances of ArticleQueue for TLC.                                   *)
EXTENDS ArticleQueue, TLC

CONSTANTS r1, r2, a1, a2

\* Overlapping runs are interchangeable.
RunSymmetry == Permutations({r1, r2})
=============================================================================
