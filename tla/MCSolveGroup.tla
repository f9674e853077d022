---------------------------- MODULE MCSolveGroup ----------------------------
(* The group solver for TLC, with groups of either kind.                   *)
EXTENDS SolveGroup, GroupBins

CascadeGroups == CascadeGroupOf(Hi, Lo)
CascadeBounds == CascadeBound(Hi, Lo)
EqualGroups == EqualGroupOf(Hi, Lo, NGroups)
EqualBounds == EqualBound(Hi, Lo, NGroups)
=============================================================================
