----------------------------- MODULE DiscoveryCache -----------------------------
(***************************************************************************)
(* The discovery cache over the backend slot: refresh_keys of              *)
(* src/src/mcp_manager.rs with the tasks that call it -- a call whose      *)
(* backend had died, a restart command, a refresh command, and the task    *)
(* the broker spawns for each list_changed notification.                   *)
(*                                                                         *)
(* A row is the process it came from and its content.  The hash of a       *)
(* snapshot is the content of its rows, taken to be free of collisions;    *)
(* the server info, which is read from the process without a query, and    *)
(* the views derived from the rows are left out.  The pages of one list    *)
(* are one query, whose failure stands for an error on any of them: the    *)
(* process is gone, the deadline has passed, the answer is an error or     *)
(* malformed, there are too many pages.                                    *)
(***************************************************************************)
EXTENDS BackendSlot, FiniteSets

CONSTANTS
    Keys,        \* the discovery lists
    Supported,   \* those the backend's capabilities announce
    Announced,   \* the lists each list_changed notification is about
    Refreshers,  \* tasks of refresh commands and list_changed notifications
    MaxContent   \* bound: changes to one list, whichever process makes them

ASSUME CacheAssumption ==
    /\ Keys # {} /\ Supported \subseteq Keys
    /\ Announced \subseteq (SUBSET Keys) \ {{}}
    /\ Refreshers \cap Actors = {}
    /\ MaxContent \in Nat
    /\ Nil \notin Callers \cup Restarters \cup Refreshers

VARIABLES
    cache,     \* Cache.data: rows, backend_generation, cache_epoch
    holder,    \* who holds Cache.refresh_lock
    job,       \* the refresh each task is in
    serves,    \* the content each process has for each list
    notices,   \* list_changed notifications not taken up
    tagOf,       \* history: the generation each process was installed under
    overwritten  \* history: processes a start put another one over while they ran

cacheVars == <<cache, holder, job, serves, notices>>
history == <<tagOf, overwritten>>
vars == <<slotVars, cacheVars, history>>

Tasks == Callers \cup Restarters \cup Refreshers
Empty == MaxContent + 1   \* empty_result_for
Offers == [k \in Keys |-> IF k \in Supported THEN 0..MaxContent ELSE {Empty}]

Row(p, c) == [from |-> p, content |-> c]
NoJob == [pc |-> "idle", proc |-> Nil, generation |-> 0, base |-> Nil, todo |-> {},
          rows |-> Nil]

\* A list that cannot be read when the cache is built counts as empty.
Init ==
    /\ SlotInit
    /\ serves = [p \in Procs |-> [k \in Keys |-> 0]]
    /\ \E read \in SUBSET Supported :
          cache = [rows |-> [k \in Keys |-> Row(1, IF k \in read THEN 0 ELSE Empty)],
                   generation |-> 1, epoch |-> 1]
    /\ holder = Nil /\ job = [t \in Tasks |-> NoJob] /\ notices = {}
    /\ tagOf = [p \in Procs |-> IF p = 1 THEN 1 ELSE 0]
    /\ overwritten = {}

-----------------------------------------------------------------------------
(* Who refreshes. *)

Want(t, keys) == job' = [job EXCEPT ![t].pc = "lock", ![t].todo = keys]

\* The task of a list_changed notification: nothing to do without a live backend.
TakeNotice(t) ==
    /\ t \in Refreshers /\ job[t].pc = "idle"
    /\ \E keys \in notices :
          /\ notices' = notices \ {keys}
          /\ IF LiveSlot THEN Want(t, keys) ELSE UNCHANGED job
    /\ UNCHANGED <<slotVars, cache, holder, serves, history>>

RefreshCommand(t) ==
    /\ t \in Refreshers /\ job[t].pc = "idle"
    /\ LiveSlot
    /\ Want(t, Keys)
    /\ UNCHANGED <<slotVars, cache, holder, serves, notices, history>>

\* A call that replaced a dead backend, or a restart, before it answers.
RefreshAfterStart(t) ==
    /\ t \in Callers \cup Restarters /\ job[t].pc = "idle" /\ op[t].pc = "refresh"
    /\ IF t \in Callers \/ LiveSlot
       THEN Want(t, Keys) /\ UNCHANGED op
       ELSE Finish(t) /\ UNCHANGED job
    /\ UNCHANGED <<procVars, generation, cooldown, cache, holder, serves, notices,
                   history>>

-----------------------------------------------------------------------------
(* refresh_keys *)

Lock(t) ==
    /\ job[t].pc = "lock" /\ holder = Nil
    /\ holder' = t
    /\ job' = [job EXCEPT ![t].pc = "live"]
    /\ UNCHANGED <<slotVars, cache, serves, notices, history>>

\* The end of a refresh, with or without a commit: its task goes on.
Done(t) ==
    /\ holder' = Nil
    /\ job' = [job EXCEPT ![t] = NoJob]
    /\ IF t \in Callers THEN Enter(t, "served")
       ELSE IF t \in Restarters THEN Finish(t) ELSE UNCHANGED op
    /\ UNCHANGED <<procVars, generation, cooldown, serves, notices, history>>

Live(t) ==
    /\ job[t].pc = "live" /\ LiveSlot
    /\ job' = [job EXCEPT ![t].pc = "base", ![t].proc = slot]
    /\ UNCHANGED <<slotVars, cache, holder, serves, notices, history>>

NotLive(t) ==
    /\ job[t].pc = "live" /\ ~LiveSlot
    /\ Done(t) /\ UNCHANGED cache

\* The generation is read after the slot's lock is gone.  The lists that the
\* capabilities leave out need no query.
Base(t) ==
    /\ job[t].pc = "base"
    /\ job' = [job EXCEPT ![t].pc = "query", ![t].generation = generation,
                          ![t].base = cache, ![t].todo = @ \cap Supported,
                          ![t].rows = [k \in Keys |-> IF k \in job[t].todo \ Supported
                                                      THEN Row(job[t].proc, Empty)
                                                      ELSE cache.rows[k]]]
    /\ UNCHANGED <<slotVars, cache, holder, serves, notices, history>>

Gather(t, k, content) ==
    /\ job' = [job EXCEPT ![t].todo = @ \ {k}, ![t].rows[k] = Row(job[t].proc, content)]
    /\ UNCHANGED <<slotVars, cache, holder, serves, notices, history>>

Query(t, k) ==
    /\ job[t].pc = "query" /\ k \in job[t].todo /\ job[t].proc \in alive
    /\ Gather(t, k, serves[job[t].proc][k])

\* Slip: a list that cannot be read is taken to be empty, as when the cache
\* is built.
DrainOrEmpty(t) ==
    /\ job[t].pc = "query"
    /\ \E k \in job[t].todo : Gather(t, k, Empty)

QueryFails(t) ==
    /\ job[t].pc = "query" /\ job[t].todo # {}
    /\ Done(t) /\ UNCHANGED cache

ContentOf(rows) == [k \in Keys |-> rows[k].content]

Changed(t) ==
    \/ ContentOf(job[t].rows) # ContentOf(job[t].base.rows)
    \/ job[t].generation # job[t].base.generation

NextEpoch(t) == IF Changed(t) THEN job[t].base.epoch + 1 ELSE job[t].base.epoch

Candidate(t) ==
    [rows |-> job[t].rows, generation |-> job[t].generation, epoch |-> NextEpoch(t)]

BaseUnmoved(t) ==
    cache.epoch = job[t].base.epoch /\ cache.generation = job[t].base.generation

\* Slip: the generation is not looked at again.
CheckBaseOnly(t) ==
    /\ job[t].pc = "query" /\ job[t].todo = {}
    /\ IF BaseUnmoved(t)
       THEN /\ job' = [job EXCEPT ![t].pc = "commit"]
            /\ UNCHANGED <<slotVars, holder, serves, notices, history>>
       ELSE Done(t)
    /\ UNCHANGED cache

\* The generation is looked at again, then the rows are written.  The cache is
\* locked from the one to the other; the slot is not.
CheckCurrent(t) ==
    /\ job[t].pc = "query" /\ job[t].todo = {}
    /\ IF generation = job[t].generation /\ BaseUnmoved(t)
       THEN /\ job' = [job EXCEPT ![t].pc = "commit"]
            /\ UNCHANGED <<slotVars, holder, serves, notices, history>>
       ELSE Done(t)
    /\ UNCHANGED cache

Commit(t) ==
    /\ job[t].pc = "commit"
    /\ cache' = Candidate(t)
    /\ Done(t)

-----------------------------------------------------------------------------
(* The backend's side, and the slot's. *)

ListChanges(p, k) ==
    /\ p \in alive /\ k \in Supported
    /\ \A q \in Procs : serves[q][k] < MaxContent
    /\ serves' = [serves EXCEPT ![p][k] = @ + 1]
    /\ \E keys \in Announced : k \in keys /\ notices' = notices \cup {keys}
    /\ UNCHANGED <<slotVars, cache, holder, job, history>>

Slot ==
    /\ SlotNext
    /\ tagOf' = IF slot' # slot /\ slot' # Nil
                THEN [tagOf EXCEPT ![slot'] = generation'] ELSE tagOf
    /\ overwritten' = overwritten \cup
                         {p \in alive' : p = slot /\ slot' \notin {slot, Nil}}
    /\ UNCHANGED cacheVars

Refresh ==
    \E t \in Tasks :
       \/ TakeNotice(t) \/ RefreshCommand(t) \/ RefreshAfterStart(t)
       \/ Lock(t) \/ Live(t) \/ NotLive(t) \/ Base(t)
       \/ \E k \in Keys : Query(t, k)
       \/ QueryFails(t) \/ CheckCurrent(t) \/ Commit(t)

Next ==
    \/ Slot
    \/ Refresh
    \/ \E p \in Procs, k \in Keys : ListChanges(p, k)

Spec == Init /\ [][Next]_vars

-----------------------------------------------------------------------------
(* Properties *)

Snapshot == INSTANCE DiscoverySnapshot
    WITH Sources <- Procs, Selections <- Announced \cup {Keys}, Unread <- Empty

\* The cache implements the snapshot its readers are promised: whatever
\* refreshes, restarts, deaths and changes overlap, the rows are replaced
\* together, by rows of one process, and an epoch seen twice means the same
\* content.
SnapshotSpec == Snapshot!SnapshotSpec

\* A candidate is found current only if the process it was read from was put in
\* the slot under the number the slot has at that moment, and its rows are
\* committed under the number of that process: a refresh that a restart or a
\* respawn with another number crosses leaves the cache alone, if it crosses it
\* before that look.  The limit is a process that a restart found in the slot
\* after it had emptied it: it is overwritten and goes on running, and a refresh
\* that had taken it before that and reads the number after it commits its rows.
CommitsCurrentGeneration ==
    [][/\ \A t \in Tasks :
             job[t].pc = "query" /\ job'[t].pc = "commit" =>
                \/ tagOf[job[t].proc] = generation
                \/ job[t].proc \in overwritten
       /\ cache' # cache =>
             \/ tagOf[job[holder].proc] = cache'.generation
             \/ job[holder].proc \in overwritten]_vars

\* The cache's rows all come from the process whose generation the snapshot
\* is scoped by, as the handbook describes the committed snapshot.
SnapshotOfItsGeneration == \A k \in Keys : tagOf[cache.rows[k].from] = cache.generation
=============================================================================
