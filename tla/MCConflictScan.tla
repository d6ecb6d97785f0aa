---------------------------- MODULE MCConflictScan ----------------------------
(* Two scans of three items, one of which is updated meanwhile.              *)
EXTENDS ConflictScan
CONSTANTS i1, i2, i3, s1, s2
ThreeItems == {i1, i2, i3}
TwoScans == {s1, s2}
=============================================================================
