----------------------------- MODULE ChannelService -----------------------------
(***************************************************************************)
(* What the channel to one backend process promises its callers and those  *)
(* who cancel: every request ends once, it is completed only by an answer  *)
(* that was taken before anybody gave it up, and the id of a request that  *)
(* was given up is silenced until its late answer has come.                *)
(***************************************************************************)
CONSTANTS
    Calls,
    TimedCalls   \* the calls that may time out

VARIABLES
    outcome,    \* what has become of each request
    silenced,   \* requests whose answer would be discarded
    process     \* the process as the channel knows it

vars == <<outcome, silenced, process>>

ServiceInit ==
    /\ outcome = [c \in Calls |-> "unsent"]
    /\ silenced = {}
    /\ process = "running"

Becomes(c, next) == outcome' = [outcome EXCEPT ![c] = next]

Open(c) ==
    /\ outcome[c] = "unsent" /\ process # "closed"
    /\ Becomes(c, "open")
    /\ UNCHANGED <<silenced, process>>

Refuse(c) ==
    /\ outcome[c] = "unsent" /\ process = "closed"
    /\ Becomes(c, "broken")
    /\ UNCHANGED <<silenced, process>>

\* The request could not be written.
Break(c) ==
    /\ outcome[c] = "open" /\ process # "running"
    /\ Becomes(c, "broken")
    /\ UNCHANGED <<silenced, process>>

\* The answer has been read: nobody can cancel the request any more, only its
\* own deadline.
Take(c) ==
    /\ outcome[c] = "open" /\ c \notin silenced
    /\ Becomes(c, "taken")
    /\ UNCHANGED <<silenced, process>>

Answer(c) ==
    /\ outcome[c] = "taken" /\ c \notin silenced
    /\ Becomes(c, "answered")
    /\ UNCHANGED <<silenced, process>>

Silence(c) == silenced' = silenced \cup {c} /\ UNCHANGED process

Cancel(c) == outcome[c] = "open" /\ Becomes(c, "broken") /\ Silence(c)

Expire(c) ==
    /\ c \in TimedCalls /\ outcome[c] \in {"open", "taken"}
    /\ Becomes(c, "timedOut")
    /\ Silence(c)

\* The caller of a broken request tells one that was given up from one that
\* failed by its silence.
Judge(c) ==
    /\ outcome[c] = "broken"
    /\ Becomes(c, IF c \in silenced THEN "abandoned" ELSE "failed")
    /\ UNCHANGED <<silenced, process>>

\* The late answer has been discarded.
Absorb(c) ==
    /\ c \in silenced /\ outcome[c] \notin {"unsent", "open", "taken"}
    /\ silenced' = silenced \ {c}
    /\ UNCHANGED <<outcome, process>>

Exit ==
    /\ process = "running"
    /\ process' = "exited"
    /\ UNCHANGED <<outcome, silenced>>

\* The end of the process is known, from its pipe or because it was killed.
Close ==
    /\ process # "closed"
    /\ process' = "closed"
    /\ outcome' = [c \in Calls |-> IF outcome[c] = "open" THEN "broken" ELSE outcome[c]]
    /\ UNCHANGED silenced

ServiceNext ==
    \/ Exit \/ Close
    \/ \E c \in Calls :
          \/ Open(c) \/ Refuse(c) \/ Break(c)
          \/ Take(c) \/ Answer(c)
          \/ Cancel(c) \/ Expire(c) \/ Judge(c) \/ Absorb(c)

ServiceSpec == ServiceInit /\ [][ServiceNext]_vars
=============================================================================
