----------------------------- MODULE DaemonStartup -----------------------------
(***************************************************************************)
(* How wrappers find, start, replace and stop the broker process of one    *)
(* command: daemon_manager.rs on the wrappers' side, the start and the end *)
(* of broker_main on the broker's.  The processes share three files (the   *)
(* socket, the pid file and the metadata) and a flock.                     *)
(*                                                                         *)
(* Each system call that other processes can notice is one action, except  *)
(* that a check of the socket and the metadata is one look.  A file is the *)
(* broker that made it.  Reuse of process ids, unfinished writes and       *)
(* errors of the file system are left out, and a zombie, which kill(pid,   *)
(* 0) still finds, counts as gone: it only costs its finder a wait.        *)
(***************************************************************************)
EXTENDS Naturals, FiniteSets

CONSTANTS
    Wrappers,     \* wrapper and admin processes that target one command
    OpsOf,        \* what each may do, of "start", "connect", "stop" and "restart"
    Installs,     \* the executables the wrappers may run: one or several versions
    MaxBrokers,   \* bound: brokers spawned; a wrapper that starts spawns one at most
    MaxCrashes,   \* bound: brokers that end without cleaning up
    None

ASSUME StartupAssumption ==
    /\ OpsOf \in [Wrappers -> SUBSET {"start", "connect", "stop", "restart"}]
    /\ Installs # {} /\ \A runs \in Installs : DOMAIN runs = Wrappers
    /\ MaxBrokers \in Nat /\ MaxBrokers >= Cardinality({w \in Wrappers : OpsOf[w] \cap {"start", "restart"} # {}})
    /\ MaxCrashes \in Nat
    /\ None \notin Wrappers \cup Nat

VARIABLES
    file,      \* the socket, pid and meta file: the broker that made it
    flock,     \* who holds the lock on the lock file
    pc,        \* where each wrapper is
    after,     \* where it goes once it has removed the files
    mine,      \* the broker it has spawned, or is stopping
    phase,     \* where each broker is
    version,   \* the executable of each wrapper, and of the broker started from it
    crashes,   \* brokers that crashed so far
    smooth     \* history: no two starts overlapped, none was given up too
               \* early, and no broker was signalled

brokerVars == <<phase, version, crashes>>
wrapperVars == <<pc, after, mine>>
vars == <<file, flock, wrapperVars, brokerVars, smooth>>

Brokers == 1 .. MaxBrokers
Files == {"socket", "pid", "meta"}

\* Before it has bound its socket and installed its signal handlers, after.
Early == {"init", "writePid", "writeMeta", "unlink", "bind", "bound"}
Cleaning == {"killing", "rmSocket", "rmPid", "rmMeta"}
Ended == {"idle", "connected", "failed", "stopped"}

Alive(b) == phase[b] \in Early \cup {"serving"} \cup Cleaning
Listening(b) == phase[b] \in {"bound", "serving"} \cup Cleaning

Init ==
    /\ file = [f \in Files |-> None] /\ flock = None
    /\ pc = [w \in Wrappers |-> "idle"] /\ after = [w \in Wrappers |-> "idle"]
    /\ mine = [w \in Wrappers |-> None]
    /\ phase = [b \in Brokers |-> "unborn"]
    /\ \E runs \in Installs :
          version = [x \in Wrappers \cup Brokers |-> IF x \in Wrappers THEN runs[x] ELSE None]
    /\ crashes = 0 /\ smooth = TRUE

Goto(w, label) == pc' = [pc EXCEPT ![w] = label]
Remove(f) == file' = [file EXCEPT ![f] = None]
Rough(cond) == smooth' = (smooth /\ ~cond)

-----------------------------------------------------------------------------
(* What a wrapper can see. *)

PidAlive == file["pid"] # None /\ Alive(file["pid"])       \* read_alive_pid
MetaMatches(w) == file["meta"] # None /\ version[file["meta"]] = version[w]
Outdated(w) == file["socket"] # None /\ ~MetaMatches(w)
Connects == file["socket"] # None /\ Listening(file["socket"])

\* SIGTERM ends a broker at once until it has its handlers, and starts its
\* clean-up then; a broker that cleans up already takes no notice.
Terminate(b) ==
    phase' = [phase EXCEPT ![b] = IF @ = "serving" THEN "killing"
                                  ELSE IF @ \in Early THEN "gone" ELSE @]

-----------------------------------------------------------------------------
(* The wrappers. *)

\* restart_broker is stop_broker and then connect_or_start_broker.
FirstStep == [start |-> "check", connect |-> "status", stop |-> "stop", restart |-> "stop"]
AfterStop == [start |-> "idle", connect |-> "idle", stop |-> "stopped", restart |-> "check"]

Begin(w) ==
    /\ pc[w] = "idle"
    /\ \E op \in OpsOf[w] :
          Goto(w, FirstStep[op]) /\ after' = [after EXCEPT ![w] = AfterStop[op]]
    /\ Rough(\E v \in Wrappers : pc[v] \notin Ended)
    /\ UNCHANGED <<file, flock, mine, brokerVars>>

\* connect_existing_broker
Status(w) ==
    /\ pc[w] = "status"
    /\ Goto(w, IF PidAlive /\ file["socket"] # None /\ MetaMatches(w)
               THEN "attach" ELSE "failed")
    /\ UNCHANGED <<file, flock, after, mine, brokerVars, smooth>>

Attach(w) ==
    /\ pc[w] = "attach"
    /\ Goto(w, IF Connects THEN "connected" ELSE "failed")
    /\ UNCHANGED <<file, flock, after, mine, brokerVars, smooth>>

\* remove_stale_broker: a signal, half a second, and the files are removed
\* whether or not the broker has gone.
Replace(w, next) == Goto(w, "stale") /\ after' = [after EXCEPT ![w] = next]
RemoveFiles(w, next) == Goto(w, "rmPid") /\ after' = [after EXCEPT ![w] = next]

Stale(w) ==
    /\ pc[w] = "stale"
    /\ IF PidAlive THEN Terminate(file["pid"]) ELSE UNCHANGED phase
    /\ Rough(PidAlive)
    /\ Goto(w, "rmPid")
    /\ UNCHANGED <<file, flock, after, mine, version, crashes>>

RemovePid(w) ==
    /\ pc[w] = "rmPid" /\ Remove("pid")
    /\ Goto(w, "rmSocket")
    /\ UNCHANGED <<flock, after, mine, brokerVars, smooth>>

RemoveSocket(w) ==
    /\ pc[w] = "rmSocket" /\ Remove("socket")
    /\ Goto(w, "rmMeta")
    /\ UNCHANGED <<flock, after, mine, brokerVars, smooth>>

\* A wrapper that fails returns, and drops the lock if it held it.
Release(w) == flock' = IF flock = w THEN None ELSE flock

RemoveMeta(w) ==
    /\ pc[w] = "rmMeta" /\ Remove("meta")
    /\ Goto(w, after[w])
    /\ IF after[w] \in Ended THEN Release(w) ELSE UNCHANGED flock
    /\ UNCHANGED <<after, mine, brokerVars, smooth>>

\* connect_or_start_broker, before the lock ...
Check(w) ==
    /\ pc[w] = "check"
    /\ IF Outdated(w) THEN Replace(w, "connect") ELSE Goto(w, "connect") /\ UNCHANGED after
    /\ UNCHANGED <<file, flock, mine, brokerVars, smooth>>

Connect(w) ==
    /\ pc[w] = "connect"
    /\ Goto(w, IF Connects THEN "connected" ELSE "lock")
    /\ UNCHANGED <<file, flock, after, mine, brokerVars, smooth>>

\* ... the lock, which decides who spawns and is dropped at once, because the
\* guard try_write returns does not outlive its statement ...
TryLock(w) ==
    /\ pc[w] = "lock"
    /\ IF flock = None THEN flock' = w /\ Goto(w, "unlock")
                       ELSE Goto(w, "blocked") /\ UNCHANGED flock
    /\ UNCHANGED <<file, after, mine, brokerVars, smooth>>

Unlock(w) ==
    /\ pc[w] = "unlock"
    /\ Release(w) /\ Goto(w, "recheck")
    /\ UNCHANGED <<file, after, mine, brokerVars, smooth>>

\* ... the spawner ...
Recheck(w) ==
    /\ pc[w] = "recheck"
    /\ IF Outdated(w) THEN Replace(w, "checkPid")
                      ELSE Goto(w, "reconnect") /\ UNCHANGED after
    /\ UNCHANGED <<file, flock, mine, brokerVars, smooth>>

Reconnect(w) ==
    /\ pc[w] = "reconnect"
    /\ Goto(w, IF Connects THEN "connected" ELSE "checkPid")
    /\ UNCHANGED <<file, flock, after, mine, brokerVars, smooth>>

CheckPid(w) ==
    /\ pc[w] = "checkPid"
    /\ IF PidAlive THEN Replace(w, "clean") ELSE RemoveFiles(w, "spawn")
    /\ UNCHANGED <<file, flock, mine, brokerVars, smooth>>

Clean(w) ==
    /\ pc[w] = "clean"
    /\ RemoveFiles(w, "spawn")
    /\ UNCHANGED <<file, flock, mine, brokerVars, smooth>>

NewBroker(w, b) ==
    /\ phase[b] = "unborn" /\ \A c \in Brokers : c < b => phase[c] # "unborn"
    /\ phase' = [phase EXCEPT ![b] = "init"]
    /\ version' = [version EXCEPT ![b] = version[w]]
    /\ mine' = [mine EXCEPT ![w] = b]

\* Slip: the spawner leaves the waiting to whoever comes next.
SpawnWithoutWaiting(w) ==
    /\ pc[w] = "spawn"
    /\ \E b \in Brokers : NewBroker(w, b)
    /\ Goto(w, "failed")
    /\ UNCHANGED <<file, flock, after, crashes, smooth>>

Spawn(w) ==
    /\ pc[w] = "spawn"
    /\ \E b \in Brokers : NewBroker(w, b)
    /\ Goto(w, "poll")
    /\ UNCHANGED <<file, flock, after, crashes, smooth>>

Poll(w) ==
    /\ pc[w] = "poll" /\ Connects
    /\ Goto(w, "verify")
    /\ UNCHANGED <<file, flock, after, mine, brokerVars, smooth>>

\* Slip: the spawner polls for as long as its broker may still come.
PollOn(w) ==
    /\ pc[w] = "poll" /\ ~Alive(mine[w])
    /\ Goto(w, "failed")
    /\ Rough(Alive(mine[w]))
    /\ UNCHANGED <<file, flock, after, mine, brokerVars>>

\* The deadline: the initialize timeout and five seconds.  The broker's start
\* is not bounded by it, since the lists are read without a deadline.
PollTimeout(w) ==
    /\ pc[w] = "poll"
    /\ Goto(w, "failed")
    /\ Rough(Alive(mine[w]))
    /\ UNCHANGED <<file, flock, after, mine, brokerVars>>

\* ... and those who did not get the lock, who keep it while they try.
Blocked(w) ==
    /\ pc[w] = "blocked" /\ flock = None
    /\ flock' = w /\ Goto(w, "retry")
    /\ UNCHANGED <<file, after, mine, brokerVars, smooth>>

Retry(w) ==
    /\ pc[w] = "retry" /\ Connects
    /\ Goto(w, "verify")
    /\ UNCHANGED <<file, flock, after, mine, brokerVars, smooth>>

\* Slip: the lock outlives the attempt.
RetryFailsKeepingLock(w) ==
    /\ pc[w] = "retry"
    /\ Goto(w, "failed")
    /\ UNCHANGED <<file, flock, after, mine, brokerVars, smooth>>

RetryFails(w) ==
    /\ pc[w] = "retry"
    /\ Goto(w, "failed") /\ Release(w)
    /\ UNCHANGED <<file, after, mine, brokerVars, smooth>>

\* The metadata of a broker that was not there at first.
Verify(w) ==
    /\ pc[w] = "verify"
    /\ IF MetaMatches(w)
       THEN Goto(w, "connected") /\ Release(w) /\ UNCHANGED after
       ELSE Replace(w, "failed") /\ UNCHANGED flock
    /\ UNCHANGED <<file, mine, brokerVars, smooth>>

\* stop_broker
Stop(w) ==
    /\ pc[w] = "stop"
    /\ IF PidAlive
       THEN /\ Terminate(file["pid"]) /\ Goto(w, "stopping")
            /\ mine' = [mine EXCEPT ![w] = file["pid"]]
       ELSE Goto(w, "rmPid") /\ UNCHANGED <<phase, mine>>
    /\ Rough(PidAlive)
    /\ UNCHANGED <<file, flock, after, version, crashes>>

\* Within a second the pid file names no process that lives, or the broker that
\* was signalled is killed, whichever the file names by then.
Stopping(w) ==
    /\ pc[w] = "stopping"
    /\ phase' = IF PidAlive THEN [phase EXCEPT ![mine[w]] = "gone"] ELSE phase
    /\ Goto(w, "rmPid")
    /\ UNCHANGED <<file, flock, after, mine, version, crashes, smooth>>

-----------------------------------------------------------------------------
(* The brokers. *)

Turn(b, from, to) == phase[b] = from /\ phase' = [phase EXCEPT ![b] = to]
Make(f, b) == file' = [file EXCEPT ![f] = b]
OthersUnchanged == UNCHANGED <<flock, wrapperVars, version, crashes, smooth>>

\* init_cache_with_backend
Initialized(b) ==
    /\ Turn(b, "init", "writePid") \/ Turn(b, "init", "gone")
    /\ UNCHANGED file /\ OthersUnchanged

WritePid(b) == Turn(b, "writePid", "writeMeta") /\ Make("pid", b) /\ OthersUnchanged
WriteMeta(b) == Turn(b, "writeMeta", "unlink") /\ Make("meta", b) /\ OthersUnchanged
Unlink(b) == Turn(b, "unlink", "bind") /\ Remove("socket") /\ OthersUnchanged

Bind(b) ==
    /\ \/ file["socket"] = None /\ Turn(b, "bind", "bound") /\ Make("socket", b)
       \/ file["socket"] # None /\ Turn(b, "bind", "gone") /\ Remove("pid")
    /\ OthersUnchanged

Handle(b) == Turn(b, "bound", "serving") /\ UNCHANGED file /\ OthersUnchanged

\* Of whichever broker the files are by then.
KillBackend(b) == Turn(b, "killing", "rmSocket") /\ UNCHANGED file /\ OthersUnchanged
CleanSocket(b) == Turn(b, "rmSocket", "rmPid") /\ Remove("socket") /\ OthersUnchanged
CleanPid(b) == Turn(b, "rmPid", "rmMeta") /\ Remove("pid") /\ OthersUnchanged
CleanMeta(b) == Turn(b, "rmMeta", "gone") /\ Remove("meta") /\ OthersUnchanged

Crash(b) ==
    /\ Alive(b) /\ crashes < MaxCrashes
    /\ phase' = [phase EXCEPT ![b] = "gone"]
    /\ crashes' = crashes + 1
    /\ UNCHANGED <<file, flock, wrapperVars, version, smooth>>

-----------------------------------------------------------------------------
WrapperStep(w) ==
    \/ Status(w) \/ Attach(w) \/ Stale(w) \/ RemovePid(w) \/ RemoveSocket(w)
    \/ RemoveMeta(w) \/ Check(w) \/ Connect(w) \/ TryLock(w) \/ Unlock(w) \/ Recheck(w)
    \/ Reconnect(w) \/ CheckPid(w) \/ Clean(w) \/ Spawn(w) \/ Poll(w) \/ PollTimeout(w)
    \/ Blocked(w) \/ Retry(w) \/ RetryFails(w) \/ Verify(w) \/ Stop(w) \/ Stopping(w)

BrokerStep(b) ==
    \/ Initialized(b) \/ WritePid(b) \/ WriteMeta(b) \/ Unlink(b) \/ Bind(b) \/ Handle(b)
    \/ KillBackend(b) \/ CleanSocket(b) \/ CleanPid(b) \/ CleanMeta(b)

Next ==
    \/ \E w \in Wrappers : Begin(w) \/ WrapperStep(w)
    \/ \E b \in Brokers : BrokerStep(b) \/ Crash(b)

\* A wrapper that has begun runs on and its timers fire; a broker owes nothing:
\* it may hang in its start.
Fairness == \A w \in Wrappers : WF_vars(WrapperStep(w))

Spec == Init /\ [][Next]_vars
FairSpec == Spec /\ Fairness
-----------------------------------------------------------------------------
WrapperLabels == Ended \cup
    {"status", "attach", "stale", "rmPid", "rmSocket", "rmMeta", "check", "connect", "lock",
     "unlock", "recheck", "reconnect", "checkPid", "clean", "spawn", "poll", "blocked",
     "retry", "verify", "stop", "stopping"}

\* The variables have their types, and nobody who has returned holds the lock.
DaemonTypeOK ==
    /\ file \in [Files -> Brokers \cup {None}]
    /\ pc \in [Wrappers -> WrapperLabels] /\ after \in [Wrappers -> WrapperLabels]
    /\ mine \in [Wrappers -> Brokers \cup {None}]
    /\ phase \in [Brokers -> {"unborn", "serving", "gone"} \cup Early \cup Cleaning]
    /\ crashes \in 0 .. MaxCrashes /\ smooth \in BOOLEAN
    /\ flock # None => pc[flock] \in {"unlock", "retry", "verify", "stale", "rmPid",
                                      "rmSocket", "rmMeta"}

\* As long as starts do not overlap, wait for their broker and stop none, at
\* most one broker lives, and one that serves is the one the socket, the pid
\* file and the metadata lead to, whatever brokers crashed before and left
\* their files.
LoneStartOwnsDaemon ==
    smooth =>
        \A b \in Brokers : Alive(b) =>
            /\ \A c \in Brokers \ {b} : ~Alive(c)
            /\ phase[b] = "serving" => \A f \in Files : file[f] = b

\* Every start, stop or restart returns, whatever the brokers and the other
\* wrappers do: those who wait for the lock wait for someone who returns.
EveryStartEnds == \A w \in Wrappers : pc[w] \notin Ended ~> pc[w] \in Ended \ {"idle"}

\* One broker owns the backend of a command (README): no two brokers of one
\* executable serve at the same time.
OneBrokerServes ==
    \A b, c \in Brokers :
        phase[b] = "serving" /\ phase[c] = "serving" /\ version[b] = version[c] => b = c
=============================================================================
