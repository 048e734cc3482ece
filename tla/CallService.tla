------------------------------ MODULE CallService ------------------------------
(***************************************************************************)
(* What the wrapper promises for its pass-through calls, in the daemon and *)
(* in normal mode alike: one call at a time is served, every call it takes *)
(* ends once, and it ends with an answer somebody takes unless it has been *)
(* forfeited.                                                              *)
(***************************************************************************)
CONSTANTS
    Calls,
    None     \* nobody is served

VARIABLES
    stage,   \* what has become of each call
    served,  \* the call that is being served
    forfeit  \* calls that may end without an answer

ServiceInit ==
    /\ stage = [c \in Calls |-> "unsent"]
    /\ served = None
    /\ forfeit = {}

Becomes(c, next) == stage' = [stage EXCEPT ![c] = next]

Send(c) == stage[c] = "unsent" /\ Becomes(c, "pending") /\ UNCHANGED <<served, forfeit>>

\* A call under an id that is in use is answered at once.
Refuse(c) == stage[c] = "unsent" /\ Becomes(c, "answered") /\ UNCHANGED <<served, forfeit>>

Take(c) ==
    /\ stage[c] = "pending" /\ served = None
    /\ served' = c
    /\ UNCHANGED <<stage, forfeit>>

\* Calls are cancelled, their client is gone, or something has happened that
\* makes any of them end that way.
Forfeit ==
    /\ \E more \in SUBSET Calls : forfeit' = forfeit \cup more
    /\ UNCHANGED <<stage, served>>

Answer(c) ==
    /\ stage[c] = "pending" /\ served = c
    /\ Becomes(c, "answered")
    /\ served' \in {c, None}
    /\ UNCHANGED forfeit

\* A forfeited call ends in silence, before it is served or after.
Drop(c) ==
    /\ stage[c] = "pending" /\ c \in forfeit
    /\ Becomes(c, "dropped")
    /\ served' = IF served = c THEN None ELSE served
    /\ UNCHANGED forfeit

Release(c) ==
    /\ stage[c] = "answered" /\ served = c
    /\ served' = None
    /\ UNCHANGED <<stage, forfeit>>

ServiceNext ==
    \/ Forfeit
    \/ \E c \in Calls :
          Send(c) \/ Refuse(c) \/ Take(c) \/ Answer(c) \/ Drop(c) \/ Release(c)

ServiceSpec == ServiceInit /\ [][ServiceNext]_<<stage, served, forfeit>>
=============================================================================
