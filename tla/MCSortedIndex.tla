--------------------------- MODULE MCSortedIndex ---------------------------
(***************************************************************************)
(* A small instance of SortedIndex: two values with room between and        *)
(* around them, two ids, so that values tie and entries repeat.             *)
(***************************************************************************)
EXTENDS SortedIndex

MCKey   == {0, 2}
MCId    == {1, 2}
MCBound == {-1, 0, 1, 2}
=============================================================================
