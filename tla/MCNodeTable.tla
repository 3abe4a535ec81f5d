---------------------------- MODULE MCNodeTable ----------------------------
(***************************************************************************)
(* NodeTable under every sequence of at most MaxAnnounced announcements.   *)
(***************************************************************************)
EXTENDS NodeTable

CONSTANT MaxAnnounced   \* bound on the number of announcements

MCNext == Len(announced) < MaxAnnounced /\ NodeNext

MCSpec == NodeInit /\ [][MCNext]_nodeVars
=============================================================================
