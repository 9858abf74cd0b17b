----------------------------- MODULE MCApiServer ----------------------------
(* ApiServer for TLC: pages of two; limits that are missing, negative, in  *)
(* range and above the maximum.                                            *)
EXTENDS ApiServer

MCAskedLimits == {-1, 1, 5}
=============================================================================
