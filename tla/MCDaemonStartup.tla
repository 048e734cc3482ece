---------------------------- MODULE MCDaemonStartup ----------------------------
(* Two processes, each of which starts, attaches to, stops or restarts the   *)
(* daemon, of one executable or of an old and a new one.                     *)
EXTENDS DaemonStartup, TLC

CONSTANTS w1, w2, old, new

Everything == [w \in {w1, w2} |-> {"start", "connect", "stop", "restart"}]
TwoStarts == [w \in {w1, w2} |-> {"start"}]
OneVersion == {w1 :> new @@ w2 :> new}
OneOrTwo == OneVersion \cup {w1 :> old @@ w2 :> new}
=============================================================================
