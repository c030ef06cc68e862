--------------------------- MODULE MCHttpDatabase ---------------------------
(***************************************************************************)
(* One table that is dropped, created and synced; rows of two kinds, one of *)
(* which is listed twice, and pages of one row: of either kind by its term, *)
(* and of both by prefix and by range.                                      *)
(***************************************************************************)
EXTENDS HttpDatabase

CONSTANTS t1, once, twice

MCCopies == [k \in Kind |-> IF k = twice THEN 2 ELSE 1]
MCNumber == [k \in Kind |-> IF k = twice THEN 2 ELSE 1]
MCSearch == [by : {"terms"}, kinds : {{once}, {twice}}] \cup [by : {"prefix", "range"}, kinds : {Kind}]
MCSynced == [t \in Name |-> [width |-> 2, rows |-> <<[width |-> 2, kind |-> once],
                                                     [width |-> 2, kind |-> twice]>>]]
=============================================================================
