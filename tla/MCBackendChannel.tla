---------------------------- MODULE MCBackendChannel ----------------------------
(* Two calls, one of them with a timeout: the smallest instance in which one *)
(* call's answer can release or lose what belongs to another.               *)
EXTENDS BackendChannel

CONSTANTS c1, c2

MCCalls == {c1, c2}
MCTimedCalls == {c1}
=============================================================================
