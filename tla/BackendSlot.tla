------------------------------ MODULE BackendSlot ------------------------------
(***************************************************************************)
(* The slot that holds the backend process, from BackendSlot in            *)
(* src/src/backend_manager.rs, under the broker's use of it: calls that    *)
(* ensure a live backend, restart and stop commands, and the failure of a  *)
(* call, which empties the slot.                                           *)
(*                                                                         *)
(* What one holder of the slot's lock does is one action; a process is     *)
(* started and shaken hands with outside that lock, so starts overlap.     *)
(* Processes are numbered in the order they are spawned.  What is only     *)
(* reported (the state label, restart_count, consecutive_spawn_failures,   *)
(* last_started_at_ms, last_spawn_error) is left out.                      *)
(***************************************************************************)
EXTENDS Naturals

CONSTANTS
    Callers,     \* the pass-through task: the pass-through lock admits one at a time
    Restarters,  \* sessions that send backend/restart
    Forced,      \* those that send it with force
    Attempts,    \* spawn attempts of one ensure: the length of backoff
    MaxSpawns,   \* bound: processes spawned
    Nil          \* no process

ASSUME SlotAssumption ==
    /\ Forced \subseteq Restarters
    /\ Callers \cap Restarters = {}
    /\ Attempts \in Nat \ {0}
    /\ MaxSpawns \in Nat \ {0}
    /\ Nil \notin Nat

VARIABLES
    slot,        \* BackendSlot.backend
    alive,       \* the processes whose alive flag is set
    spawned,     \* how many processes have been spawned
    generation,  \* BackendSlot.generation
    cooldown,    \* cooldown_until_ms lies in the future
    op           \* what each task is doing to the slot

procVars == <<slot, alive, spawned>>
slotVars == <<slot, alive, spawned, generation, cooldown, op>>

Procs == 1..MaxSpawns
Actors == Callers \cup Restarters

Idle == [pc |-> "idle", next |-> 0, tries |-> 0, replaces |-> "nothing", mine |-> Nil]

\* from_backend: the process the discovery cache was built from is kept.
SlotInit ==
    /\ slot = 1 /\ alive = {1} /\ spawned = 1
    /\ generation = 1 /\ cooldown = FALSE
    /\ op = [a \in Actors |-> Idle]

LiveSlot == slot \in alive
Goto(a, label) == op' = [op EXCEPT ![a].pc = label]
Enter(a, label) == op' = [op EXCEPT ![a] = [Idle EXCEPT !.pc = label]]
Finish(a) == op' = [op EXCEPT ![a] = Idle]

-----------------------------------------------------------------------------
(* Ensure: the broker looks at the slot first, then ensure does. *)

BrokerLook(a) ==
    /\ a \in Callers /\ op[a].pc = "idle"
    /\ IF LiveSlot THEN Enter(a, "served")
       ELSE op' = [op EXCEPT ![a].pc = "ensure",
                             ![a].replaces = IF slot = Nil THEN "nothing" ELSE "seen dead"]
    /\ UNCHANGED <<procVars, generation, cooldown>>

EnsureLook(a) ==
    /\ op[a].pc = "ensure"
    /\ IF LiveSlot THEN Enter(a, "served")
       ELSE op' = [op EXCEPT ![a].pc = "start",
                             ![a].replaces = IF slot # Nil /\ @ = "seen dead"
                                             THEN "dead backend" ELSE "nothing"]
    /\ UNCHANGED <<procVars, generation, cooldown>>

\* The number of the generation to come is read here and stored at the end.
Number(a) ==
    op' = [op EXCEPT ![a].pc = IF a \in Callers THEN "spawn" ELSE "take",
                     ![a].next = generation + 1]

EnsureStart(a) ==
    /\ op[a].pc = "start"
    /\ IF cooldown THEN Finish(a) ELSE Number(a)
    /\ UNCHANGED <<procVars, generation, cooldown>>

EnsureInstall(a) ==
    /\ a \in Callers /\ op[a].pc = "install"
    /\ alive' = alive \ {slot}
    /\ slot' = op[a].mine
    /\ generation' = op[a].next
    /\ cooldown' = FALSE
    /\ Enter(a, IF op[a].replaces = "dead backend" THEN "refresh" ELSE "served")
    /\ UNCHANGED spawned

EnsureGiveUp(a) ==
    /\ op[a].pc = "giveup"
    /\ alive' = alive \ {slot} /\ slot' = Nil
    /\ cooldown' = TRUE
    /\ Finish(a)
    /\ UNCHANGED <<spawned, generation>>

\* Slip: one attempt too many.
RetryOneMore(a) ==
    /\ op' = [op EXCEPT ![a].tries = @ + 1, ![a].mine = Nil,
                        ![a].pc = IF op[a].tries < Attempts THEN "spawn" ELSE "giveup"]
    /\ UNCHANGED cooldown

Retry(a) ==
    /\ op' = [op EXCEPT ![a].tries = @ + 1, ![a].mine = Nil,
                        ![a].pc = IF op[a].tries + 1 < Attempts THEN "spawn" ELSE "giveup"]
    /\ UNCHANGED cooldown

-----------------------------------------------------------------------------
(* Restart *)

RestartStart(a) ==
    /\ a \in Restarters /\ op[a].pc = "idle"
    /\ IF cooldown /\ a \notin Forced
       THEN UNCHANGED <<op, cooldown>>
       ELSE Number(a) /\ cooldown' = (cooldown /\ a \notin Forced)
    /\ UNCHANGED <<procVars, generation>>

RestartTake(a) ==
    /\ a \in Restarters /\ op[a].pc = "take"
    /\ alive' = alive \ {slot} /\ slot' = Nil
    /\ Goto(a, "spawn")
    /\ UNCHANGED <<spawned, generation, cooldown>>

\* Whatever an overlapping start put in the slot is overwritten, not killed.
RestartInstall(a) ==
    /\ a \in Restarters /\ op[a].pc = "install"
    /\ slot' = op[a].mine
    /\ generation' = op[a].next
    /\ cooldown' = FALSE
    /\ Enter(a, "refresh")
    /\ UNCHANGED <<alive, spawned>>

RestartFails(a) ==
    /\ cooldown' = TRUE
    /\ Finish(a)

-----------------------------------------------------------------------------
(* spawn_initialized *)

StartFails(a) == IF a \in Callers THEN Retry(a) ELSE RestartFails(a)

Spawn(a) ==
    /\ op[a].pc = "spawn" /\ spawned < MaxSpawns
    /\ spawned' = spawned + 1
    /\ alive' = alive \cup {spawned + 1}
    /\ op' = [op EXCEPT ![a].pc = "handshake", ![a].mine = spawned + 1]
    /\ UNCHANGED <<slot, generation, cooldown>>

SpawnError(a) ==
    /\ op[a].pc = "spawn"
    /\ StartFails(a)
    /\ UNCHANGED <<procVars, generation>>

Handshake(a) ==
    /\ op[a].pc = "handshake" /\ op[a].mine \in alive
    /\ Goto(a, "install")
    /\ UNCHANGED <<procVars, generation, cooldown>>

\* The process is dropped, not killed.
HandshakeError(a) ==
    /\ op[a].pc = "handshake"
    /\ StartFails(a)
    /\ UNCHANGED <<procVars, generation>>

-----------------------------------------------------------------------------
(* Stop, the end of a call, and what happens to a process by itself. *)

Stop ==
    /\ slot # Nil
    /\ alive' = alive \ {slot} /\ slot' = Nil
    /\ UNCHANGED <<spawned, generation, cooldown, op>>

CallSucceeds(a) ==
    /\ op[a].pc = "served"
    /\ Finish(a)
    /\ UNCHANGED <<procVars, generation, cooldown>>

\* The call's failure takes the process out of the slot, whichever it is.
CallFails(a) ==
    /\ op[a].pc = "served"
    /\ alive' = alive \ {slot} /\ slot' = Nil
    /\ Finish(a)
    /\ UNCHANGED <<spawned, generation, cooldown>>

Die(p) ==
    /\ p \in alive
    /\ alive' = alive \ {p}
    /\ UNCHANGED <<slot, spawned, generation, cooldown, op>>

CooldownEnds ==
    /\ cooldown
    /\ cooldown' = FALSE
    /\ UNCHANGED <<procVars, generation, op>>

SlotNext ==
    \/ \E a \in Actors :
          \/ BrokerLook(a) \/ EnsureLook(a) \/ EnsureStart(a) \/ EnsureInstall(a)
          \/ EnsureGiveUp(a) \/ RestartStart(a) \/ RestartTake(a) \/ RestartInstall(a)
          \/ Spawn(a) \/ SpawnError(a) \/ Handshake(a) \/ HandshakeError(a)
          \/ CallSucceeds(a) \/ CallFails(a)
    \/ Stop
    \/ \E p \in Procs : Die(p)
    \/ CooldownEnds

SlotSpec == SlotInit /\ [][SlotNext]_slotVars

-----------------------------------------------------------------------------
OpType ==
    [pc : {"idle", "ensure", "start", "take", "spawn", "handshake", "install", "giveup",
           "refresh", "served"},
     next : Nat, tries : 0..Attempts,
     replaces : {"nothing", "seen dead", "dead backend"},
     mine : Procs \cup {Nil}]

\* The variables have their types; a task never starts a backend more often
\* than ensure's backoff has entries, and numbers are only those of spawned
\* processes.
SlotTypeOK ==
    /\ slot \in Procs \cup {Nil} /\ alive \subseteq 1..spawned /\ spawned \in Procs
    /\ generation \in Nat
    /\ cooldown \in BOOLEAN
    /\ op \in [Actors -> OpType]
=============================================================================
