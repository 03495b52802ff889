---------------------------- MODULE MCRedbStore -----------------------------
(* RedbStore for TLC.  Subscribers and subjects are interchangeable: no      *)
(* operation tells one from another.                                        *)
EXTENDS RedbStore, TLC

MCSymmetry == Permutations(Subscribers) \cup Permutations(Subjects)
=============================================================================
