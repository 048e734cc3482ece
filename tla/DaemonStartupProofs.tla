-------------------------- MODULE DaemonStartupProofs --------------------------
(***************************************************************************)
(* The start of the daemon for any number of wrappers, brokers, versions   *)
(* and crashes: nobody returns with the lock, and starts that do not       *)
(* overlap leave one broker, which its files lead to.                      *)
(***************************************************************************)
EXTENDS DaemonStartup, TLAPS

AfterLabels == {"idle", "stopped", "check", "connect", "checkPid", "clean", "spawn", "failed"}
LockLabels == {"unlock", "retry", "verify", "stale", "rmPid", "rmSocket", "rmMeta"}
RemovalLabels == {"stale", "rmPid", "rmSocket", "rmMeta"}

(* Only a wrapper that gives up removes files with the lock in its hands.  *)
LockInRemoval ==
    flock # None /\ pc[flock] \in RemovalLabels => after[flock] = "failed"

DaemonInv ==
    /\ DaemonTypeOK
    /\ flock \in Wrappers \cup {None}
    /\ after \in [Wrappers -> AfterLabels]
    /\ LockInRemoval

LEMMA DaemonInit == Init => DaemonInv
<1> SUFFICES ASSUME Init
             PROVE  DaemonInv
  OBVIOUS
<1>1. /\ file \in [Files -> Brokers \cup {None}]
      /\ mine \in [Wrappers -> Brokers \cup {None}]
  BY DEF Init
<1>2. /\ pc \in [Wrappers -> WrapperLabels] /\ after \in [Wrappers -> WrapperLabels]
      /\ after \in [Wrappers -> AfterLabels]
      /\ phase \in [Brokers -> {"unborn", "serving", "gone"} \cup Early \cup Cleaning]
  BY DEF Init, WrapperLabels, AfterLabels, Ended
<1>3. crashes \in 0 .. MaxCrashes /\ smooth \in BOOLEAN
  BY StartupAssumption DEF Init
<1>4. QED
  BY <1>1, <1>2, <1>3 DEF Init, DaemonInv, DaemonTypeOK, LockInRemoval

LEMMA WrapperKeepsInv ==
    ASSUME DaemonInv, NEW w \in Wrappers, Begin(w) \/ WrapperStep(w)
    PROVE  DaemonInv'
<1> USE StartupAssumption
        DEF DaemonInv, DaemonTypeOK, LockInRemoval, RemovalLabels, AfterLabels, WrapperLabels,
            Ended, Goto, Remove, Rough, Replace, RemoveFiles, Release, brokerVars, wrapperVars
<1>1. CASE Begin(w)
  BY <1>1 DEF Begin, FirstStep, AfterStop
<1>2. CASE Status(w)
  BY <1>2 DEF Status
<1>3. CASE Attach(w)
  BY <1>3 DEF Attach
<1>4. CASE Stale(w)
  BY <1>4 DEF Stale, Terminate, Early, Cleaning
<1>5. CASE RemovePid(w)
  BY <1>5 DEF RemovePid, Files
<1>6. CASE RemoveSocket(w)
  BY <1>6 DEF RemoveSocket, Files
<1>7. CASE RemoveMeta(w)
  BY <1>7 DEF RemoveMeta, Files
<1>8. CASE Check(w)
  BY <1>8 DEF Check
<1>9. CASE Connect(w)
  BY <1>9 DEF Connect
<1>10. CASE TryLock(w)
  BY <1>10 DEF TryLock
<1>11. CASE Unlock(w)
  BY <1>11 DEF Unlock
<1>12. CASE Recheck(w)
  BY <1>12 DEF Recheck
<1>13. CASE Reconnect(w)
  BY <1>13 DEF Reconnect
<1>14. CASE CheckPid(w)
  BY <1>14 DEF CheckPid
<1>15. CASE Clean(w)
  BY <1>15 DEF Clean
<1>16. CASE Spawn(w)
  BY <1>16 DEF Spawn, NewBroker, Early
<1>17. CASE Poll(w)
  BY <1>17 DEF Poll
<1>18. CASE PollTimeout(w)
  BY <1>18 DEF PollTimeout
<1>19. CASE Blocked(w)
  BY <1>19 DEF Blocked
<1>20. CASE Retry(w)
  BY <1>20 DEF Retry
<1>21. CASE RetryFails(w)
  BY <1>21 DEF RetryFails
<1>22. CASE Verify(w)
  BY <1>22 DEF Verify
<1>23. CASE Stop(w)
  <2>1. file["pid"] \in Brokers \cup {None} BY DEF Files
  <2>2. mine' \in [Wrappers -> Brokers \cup {None}] BY <1>23, <2>1 DEF Stop
  <2> QED BY <1>23, <2>2 DEF Stop, Terminate, Early, Cleaning
<1>24. CASE Stopping(w)
  BY <1>24 DEF Stopping
<1>25. QED
  BY <1>1, <1>2, <1>3, <1>4, <1>5, <1>6, <1>7, <1>8, <1>9, <1>10, <1>11, <1>12, <1>13,
     <1>14, <1>15, <1>16, <1>17, <1>18, <1>19, <1>20, <1>21, <1>22, <1>23, <1>24
     DEF WrapperStep

LEMMA BrokerKeepsInv ==
    ASSUME DaemonInv, NEW b \in Brokers, BrokerStep(b) \/ Crash(b)
    PROVE  DaemonInv'
<1> USE StartupAssumption
        DEF DaemonInv, DaemonTypeOK, LockInRemoval, Turn, Make, Remove, Files, Early, Cleaning,
            OthersUnchanged, wrapperVars
<1>1. CASE Initialized(b)
  BY <1>1 DEF Initialized
<1>2. CASE WritePid(b)
  BY <1>2 DEF WritePid
<1>3. CASE WriteMeta(b)
  BY <1>3 DEF WriteMeta
<1>4. CASE Unlink(b)
  BY <1>4 DEF Unlink
<1>5. CASE Bind(b)
  BY <1>5 DEF Bind
<1>6. CASE Handle(b) \/ KillBackend(b)
  BY <1>6 DEF Handle, KillBackend
<1>7. CASE CleanSocket(b)
  BY <1>7 DEF CleanSocket
<1>8. CASE CleanPid(b)
  BY <1>8 DEF CleanPid
<1>9. CASE CleanMeta(b)
  BY <1>9 DEF CleanMeta
<1>10. CASE Crash(b)
  BY <1>10 DEF Crash
<1>11. QED
  BY <1>1, <1>2, <1>3, <1>4, <1>5, <1>6, <1>7, <1>8, <1>9, <1>10 DEF BrokerStep

LEMMA DaemonStep == DaemonInv /\ [Next]_vars => DaemonInv'
<1> SUFFICES ASSUME DaemonInv, [Next]_vars
             PROVE  DaemonInv'
  OBVIOUS
<1>1. CASE UNCHANGED vars
  BY <1>1 DEF DaemonInv, DaemonTypeOK, LockInRemoval, vars, wrapperVars, brokerVars
<1>2. QED
  BY <1>1, WrapperKeepsInv, BrokerKeepsInv DEF Next

LEMMA DaemonInvariant == Spec => []DaemonInv
<1>1. QED
  BY DaemonInit, DaemonStep, PTL DEF Spec

(* Types, and no wrapper that has returned from connect_or_start_broker    *)
(* holds the lock, whichever way out it took.                              *)
THEOREM DaemonWellTyped == Spec => []DaemonTypeOK
<1>1. DaemonInv => DaemonTypeOK
  BY DEF DaemonInv
<1>2. QED
  BY <1>1, DaemonInvariant, PTL

-----------------------------------------------------------------------------
(* A lone start.                                                           *)

Active(w) == pc[w] \notin Ended
Coming(b) == phase[b] \in {"init", "writePid", "writeMeta", "unlink", "bind"}

(* One wrapper at a time and one broker, which nobody has told to end; a   *)
(* broker that has not bound its socket is waited for by its wrapper.      *)
OneAtATime ==
    /\ \A v, w \in Wrappers : Active(v) /\ Active(w) => v = w
    /\ \A b, c \in Brokers : Alive(b) /\ Alive(c) => b = c
    /\ \A b \in Brokers : phase[b] \notin Cleaning
    /\ \A b \in Brokers : Coming(b) => \E w \in Wrappers : pc[w] = "poll" /\ mine[w] = b
    /\ \A w \in Wrappers : pc[w] # "stopping"

(* The files of the broker, by how far it has come.                        *)
FilesFollow ==
    \A b \in Brokers :
        /\ Coming(b) =>
              /\ file["socket"] = None
              /\ file["pid"] = IF phase[b] \in {"init", "writePid"} THEN None ELSE b
              /\ file["meta"] = IF phase[b] \in {"unlink", "bind"} THEN b ELSE None
        /\ phase[b] \in {"bound", "serving"} => \A f \in Files : file[f] = b

(* Files are removed, and a broker is spawned, only when none lives.       *)
RemovalAlone ==
    \A w \in Wrappers :
        /\ pc[w] \in {"rmPid", "rmSocket", "rmMeta", "clean", "spawn"} =>
              \A b \in Brokers : ~Alive(b)
        /\ pc[w] \in {"rmSocket", "rmMeta", "spawn"} => file["pid"] = None
        /\ pc[w] \in {"rmMeta", "spawn"} => file["socket"] = None
        /\ pc[w] = "spawn" => file["meta"] = None

LoneInv == smooth => OneAtATime /\ FilesFollow /\ RemovalAlone

LEMMA LoneInit == Init => LoneInv
BY DEF Init, LoneInv, OneAtATime, FilesFollow, RemovalAlone, Active, Coming, Ended, Alive,
       Early, Cleaning

(* A wrapper that sees no process behind the pid file is right, unless it  *)
(* waits for the broker it has spawned.                                    *)
LEMMA NobodyLives ==
    ASSUME DaemonInv, LoneInv, smooth, NEW w \in Wrappers, Active(w), pc[w] # "poll", ~PidAlive
    PROVE  \A b \in Brokers : ~Alive(b)
BY StartupAssumption
   DEF LoneInv, OneAtATime, FilesFollow, Active, Coming, Ended, Alive, Early, Cleaning,
       PidAlive, Files, Brokers

(* Steps of a wrapper that change nothing but where it is, and do not lead *)
(* to the removal of files.                                                *)
LEMMA WrapperMoves ==
    ASSUME DaemonInv, LoneInv, NEW w \in Wrappers, NEW label, Active(w),
           label \notin {"rmPid", "rmSocket", "rmMeta", "clean", "spawn", "stopping"},
           pc' = [pc EXCEPT ![w] = label],
           pc[w] = "poll" => \A b \in Brokers : ~Coming(b),
           UNCHANGED <<file, phase, mine>>, smooth' => smooth
    PROVE  LoneInv'
BY DEF DaemonInv, DaemonTypeOK, LoneInv, OneAtATime, FilesFollow, RemovalAlone, Active,
       Coming, Ended, Alive, Early, Cleaning

LEMMA WrapperLone ==
    ASSUME DaemonInv, LoneInv, NEW w \in Wrappers, WrapperStep(w)
    PROVE  LoneInv'
<1> USE DEF Goto, Remove, Replace, RemoveFiles, brokerVars, wrapperVars
<1>0. pc \in [Wrappers -> WrapperLabels] /\ after \in [Wrappers -> AfterLabels]
  BY DEF DaemonInv, DaemonTypeOK
<1>1. ASSUME \/ Status(w) \/ Attach(w) \/ Check(w) \/ Connect(w) \/ TryLock(w) \/ Unlock(w)
             \/ Recheck(w) \/ Reconnect(w) \/ Blocked(w) \/ Retry(w) \/ RetryFails(w)
             \/ Verify(w)
      PROVE  LoneInv'
  <2>1. PICK label :
           /\ label \notin {"rmPid", "rmSocket", "rmMeta", "clean", "spawn", "stopping"}
           /\ pc' = [pc EXCEPT ![w] = label]
    BY <1>1 DEF Status, Attach, Check, Connect, TryLock, Unlock, Recheck, Reconnect, Blocked,
                Retry, RetryFails, Verify
  <2>2. Active(w) /\ pc[w] # "poll"
    BY <1>1 DEF Status, Attach, Check, Connect, TryLock, Unlock, Recheck, Reconnect, Blocked,
                Retry, RetryFails, Verify, Active, Ended
  <2>3. UNCHANGED <<file, phase, mine, smooth>>
    BY <1>1 DEF Status, Attach, Check, Connect, TryLock, Unlock, Recheck, Reconnect, Blocked,
                Retry, RetryFails, Verify
  <2>4. QED
    BY <2>1, <2>2, <2>3, WrapperMoves
<1>2. CASE Stale(w) \/ Stop(w)
  <2>1. Active(w) /\ pc[w] # "poll"
    BY <1>2 DEF Stale, Stop, Active, Ended
  <2>2. SUFFICES ASSUME smooth'
                 PROVE  LoneInv'
    BY DEF LoneInv
  <2>3. /\ smooth /\ ~PidAlive /\ pc' = [pc EXCEPT ![w] = "rmPid"]
        /\ UNCHANGED <<file, phase, mine>>
    BY <1>2, <2>2 DEF Stale, Stop, Rough
  <2>4. \A b \in Brokers : ~Alive(b)
    BY <2>1, <2>3, NobodyLives
  <2>5. QED
    BY <1>0, <2>1, <2>3, <2>4
       DEF LoneInv, OneAtATime, FilesFollow, RemovalAlone, Active, Coming, Ended, Alive, Early,
           Cleaning
<1>3. CASE CheckPid(w)
  <2>1. Active(w) /\ pc[w] # "poll" /\ UNCHANGED <<file, phase, mine, smooth>>
    BY <1>3 DEF CheckPid, Active, Ended
  <2>2. CASE PidAlive
    BY <1>3, <2>1, <2>2, WrapperMoves DEF CheckPid
  <2>3. CASE ~PidAlive /\ smooth
    <3>1. \A b \in Brokers : ~Alive(b)
      BY <2>1, <2>3, NobodyLives
    <3>2. pc' = [pc EXCEPT ![w] = "rmPid"]
      BY <1>3, <2>3 DEF CheckPid
    <3>3. QED
      BY <1>0, <2>1, <2>3, <3>1, <3>2
         DEF LoneInv, OneAtATime, FilesFollow, RemovalAlone, Active, Coming, Ended, Alive,
             Early, Cleaning
  <2>4. QED
    BY <2>1, <2>2, <2>3 DEF LoneInv
<1>4. CASE Clean(w)
  BY <1>0, <1>4
     DEF Clean, LoneInv, OneAtATime, FilesFollow, RemovalAlone, Active, Coming, Ended, Alive,
         Early, Cleaning
<1>5. ASSUME NEW from, NEW f, NEW to,
             <<from, f, to>> \in {<<"rmPid", "pid", "rmSocket">>,
                                  <<"rmSocket", "socket", "rmMeta">>},
             pc[w] = from, pc' = [pc EXCEPT ![w] = to], file' = [file EXCEPT ![f] = None],
             UNCHANGED <<phase, mine, smooth>>
      PROVE  LoneInv'
  <2>1. file \in [Files -> Brokers \cup {None}]
    BY DEF DaemonInv, DaemonTypeOK
  <2>2. SUFFICES ASSUME smooth
                 PROVE  OneAtATime' /\ FilesFollow' /\ RemovalAlone'
    BY <1>5 DEF LoneInv
  <2>3. OneAtATime /\ FilesFollow /\ RemovalAlone
    BY <2>2 DEF LoneInv
  <2>4. \A b \in Brokers : ~Alive(b) /\ ~Alive(b)'
    BY <1>5, <2>3 DEF RemovalAlone, Alive
  <2>5. OneAtATime' /\ FilesFollow'
    BY <1>0, <1>5, <2>3, <2>4
       DEF OneAtATime, FilesFollow, Active, Coming, Ended, Alive, Early, Cleaning
  <2>6. RemovalAlone'
    BY <1>0, <1>5, <2>1, <2>3, <2>4 DEF RemovalAlone, OneAtATime, Active, Ended, Files
  <2>7. QED
    BY <2>5, <2>6
<1>6. CASE RemoveMeta(w)
  <2>1. file \in [Files -> Brokers \cup {None}] /\ file' = [file EXCEPT !["meta"] = None]
        /\ pc[w] = "rmMeta" /\ pc' = [pc EXCEPT ![w] = after[w]]
        /\ UNCHANGED <<phase, mine, smooth>>
    BY <1>6 DEF DaemonInv, DaemonTypeOK, RemoveMeta
  <2>2. QED
    BY <1>0, <2>1
       DEF LoneInv, OneAtATime, FilesFollow, RemovalAlone, Active, Coming, Ended, Alive, Early,
           Cleaning, Files, AfterLabels
<1>7. CASE Spawn(w)
  <2>1. PICK b \in Brokers : NewBroker(w, b)
    BY <1>7 DEF Spawn
  <2>2. /\ pc[w] = "spawn" /\ pc' = [pc EXCEPT ![w] = "poll"]
        /\ phase[b] = "unborn" /\ phase' = [phase EXCEPT ![b] = "init"]
        /\ mine' = [mine EXCEPT ![w] = b] /\ UNCHANGED <<file, smooth>>
    BY <1>7, <2>1 DEF Spawn, NewBroker
  <2>3. /\ phase \in [Brokers -> {"unborn", "serving", "gone"} \cup Early \cup Cleaning]
        /\ mine \in [Wrappers -> Brokers \cup {None}]
    BY DEF DaemonInv, DaemonTypeOK
  <2>4. QED
    BY <1>0, <2>2, <2>3
       DEF LoneInv, OneAtATime, FilesFollow, RemovalAlone, Active, Coming, Ended, Alive, Early,
           Cleaning
<1>8. CASE Poll(w)
  <2>1. Active(w) /\ pc' = [pc EXCEPT ![w] = "verify"] /\ file["socket"] # None
        /\ UNCHANGED <<file, phase, mine, smooth>>
    BY <1>8 DEF Poll, Connects, Active, Ended
  <2>2. smooth => \A b \in Brokers : ~Coming(b)
    BY <2>1 DEF LoneInv, FilesFollow
  <2>3. QED
    BY <2>1, <2>2, WrapperMoves DEF LoneInv
<1>9. CASE PollTimeout(w)
  <2>1. SUFFICES ASSUME smooth'
                 PROVE  LoneInv'
    BY DEF LoneInv
  <2>2. /\ pc[w] = "poll" /\ pc' = [pc EXCEPT ![w] = "failed"] /\ smooth /\ ~Alive(mine[w])
        /\ UNCHANGED <<file, phase, mine>>
    BY <1>9, <2>1 DEF PollTimeout, Rough
  <2>3. Active(w) /\ \A v \in Wrappers : pc[v] = "poll" => v = w
    BY <2>2 DEF LoneInv, OneAtATime, Active, Ended
  <2>4. \A b \in Brokers : ~Coming(b)
    BY <2>2, <2>3 DEF LoneInv, OneAtATime, Coming, Alive, Early
  <2>5. QED
    BY <2>2, <2>3, <2>4, WrapperMoves
<1>10. CASE Stopping(w)
  BY <1>10 DEF Stopping, LoneInv, OneAtATime
<1>11. CASE RemovePid(w) \/ RemoveSocket(w)
  BY <1>5, <1>11 DEF RemovePid, RemoveSocket
<1>12. QED
  BY <1>1, <1>2, <1>3, <1>4, <1>6, <1>7, <1>8, <1>9, <1>10, <1>11 DEF WrapperStep

LEMMA BeginLone ==
    ASSUME DaemonInv, LoneInv, NEW w \in Wrappers, Begin(w)
    PROVE  LoneInv'
<1>1. SUFFICES ASSUME smooth'
               PROVE  LoneInv'
  BY DEF LoneInv
<1>2. /\ smooth /\ \A v \in Wrappers : ~Active(v)
      /\ UNCHANGED <<file, phase, mine>>
  BY <1>1 DEF Begin, Rough, Active, brokerVars
<1>3. PICK label \in {"check", "status", "stop"} : pc' = [pc EXCEPT ![w] = label]
  <2>1. PICK op \in OpsOf[w] : pc' = [pc EXCEPT ![w] = FirstStep[op]]
    BY DEF Begin, Goto
  <2>2. op \in {"start", "connect", "stop", "restart"}
    BY StartupAssumption
  <2>3. FirstStep[op] \in {"check", "status", "stop"}
    BY <2>2 DEF FirstStep
  <2>4. QED
    BY <2>1, <2>3
<1>4. pc \in [Wrappers -> WrapperLabels]
  BY DEF DaemonInv, DaemonTypeOK
<1>5. QED
  BY <1>2, <1>3, <1>4
     DEF LoneInv, OneAtATime, FilesFollow, RemovalAlone, Active, Coming, Ended, Alive, Early,
         Cleaning

LEMMA BrokerLone ==
    ASSUME DaemonInv, LoneInv, NEW b \in Brokers, BrokerStep(b) \/ Crash(b)
    PROVE  LoneInv'
<1> USE DEF Turn, Make, Remove, OthersUnchanged, wrapperVars, LoneInv, OneAtATime, Active,
            Coming, Alive, Early, Cleaning, FilesFollow, RemovalAlone, Files
<1>0. /\ file \in [Files -> Brokers \cup {None}]
      /\ phase \in [Brokers -> {"unborn", "serving", "gone"} \cup Early \cup Cleaning]
      /\ None \notin Brokers
  BY StartupAssumption DEF DaemonInv, DaemonTypeOK, Brokers
<1>1. CASE Initialized(b)
  BY <1>0, <1>1 DEF Initialized
<1>2. CASE WritePid(b)
  BY <1>0, <1>2 DEF WritePid
<1>3. CASE WriteMeta(b)
  BY <1>0, <1>3 DEF WriteMeta
<1>4. CASE Unlink(b)
  BY <1>0, <1>4 DEF Unlink
<1>5. CASE Bind(b)
  BY <1>0, <1>5 DEF Bind
<1>6. CASE Handle(b)
  BY <1>0, <1>6 DEF Handle
<1>7. CASE KillBackend(b) \/ CleanSocket(b) \/ CleanPid(b) \/ CleanMeta(b)
  BY <1>0, <1>7 DEF KillBackend, CleanSocket, CleanPid, CleanMeta
<1>8. CASE Crash(b)
  BY <1>0, <1>8 DEF Crash
<1>9. QED
  BY <1>1, <1>2, <1>3, <1>4, <1>5, <1>6, <1>7, <1>8 DEF BrokerStep

LEMMA LoneStep == DaemonInv /\ LoneInv /\ [Next]_vars => LoneInv'
<1> SUFFICES ASSUME DaemonInv, LoneInv, [Next]_vars
             PROVE  LoneInv'
  OBVIOUS
<1>1. CASE UNCHANGED vars
  BY <1>1 DEF vars, wrapperVars, brokerVars, LoneInv, OneAtATime, FilesFollow, RemovalAlone,
              Active, Coming, Alive
<1>2. QED
  BY <1>1, BeginLone, WrapperLone, BrokerLone DEF Next

(* Starts that follow each other, wait for their broker and stop none      *)
(* leave at most one broker, and one that serves is the one its files lead *)
(* to, whatever crashes left behind and however many wrappers come.        *)
THEOREM LoneStartOwns == Spec => []LoneStartOwnsDaemon
<1>1. LoneInv => LoneStartOwnsDaemon
  BY DEF LoneInv, OneAtATime, FilesFollow, LoneStartOwnsDaemon
<1>2. Spec => []LoneInv
  BY LoneInit, LoneStep, DaemonInvariant, PTL DEF Spec
<1>3. QED
  BY <1>1, <1>2, PTL

=============================================================================
