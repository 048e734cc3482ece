--------------------------- MODULE DiscoverySnapshot ---------------------------
(***************************************************************************)
(* What the discovery cache promises its readers: one committed snapshot,  *)
(* replaced in one step by rows one process gave, under an epoch that      *)
(* names its content.                                                      *)
(***************************************************************************)
EXTENDS Naturals

CONSTANTS
    Keys,        \* the discovery lists
    Sources,     \* the processes that may serve them
    Offers,      \* what each list may contain
    Unread,      \* what stands for a list that could not be read at the start
    Selections   \* the sets of lists that are refreshed together

VARIABLE cache   \* rows (with the process each came from), generation and epoch

SnapshotInit ==
    /\ DOMAIN cache.rows = Keys
    /\ \E p \in Sources : \A k \in Keys :
          cache.rows[k].from = p /\ cache.rows[k].content \in Offers[k] \cup {Unread}
    /\ cache.epoch = 1

\* The rows of the lists K are replaced together by what one process gave for
\* them, and the others stay.
ReplaceRows(K, p) ==
    /\ DOMAIN cache'.rows = Keys
    /\ \A k \in Keys :
          IF k \in K THEN cache'.rows[k].from = p /\ cache'.rows[k].content \in Offers[k]
                     ELSE cache'.rows[k] = cache.rows[k]

SameTruth ==
    /\ cache'.generation = cache.generation
    /\ \A k \in Keys : cache'.rows[k].content = cache.rows[k].content

\* A reader that sees an epoch it has seen before sees the content it saw then.
Commit(K, p) ==
    /\ ReplaceRows(K, p)
    /\ IF SameTruth THEN cache'.epoch = cache.epoch ELSE cache'.epoch = cache.epoch + 1

\* A refresh that finds nothing new leaves no trace.
SnapshotNext ==
    /\ cache' # cache
    /\ \E K \in Selections, p \in Sources : Commit(K, p)

SnapshotSpec == SnapshotInit /\ [][SnapshotNext]_cache
=============================================================================
