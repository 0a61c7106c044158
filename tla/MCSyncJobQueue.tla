--------------------------- MODULE MCSyncJobQueue ---------------------------
(* Small instances of SyncJobQueue for TLC.                                 *)
EXTENDS SyncJobQueue, TLC

CONSTANTS a1, w1, w2, global

\* sync_lock_scope = "global": one named lock for every target.  The
\* theorems hold for any LockOf, so for "account" too.
GlobalLock == {global}
GlobalLockOf == [t \in Target |-> global]

WorkerSymmetry == Permutations(Worker)
=============================================================================
