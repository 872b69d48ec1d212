--------------------------- MODULE ManagedRelease ---------------------------
(***************************************************************************)
(* Manager releases on Unix (src/internal/managedrelease/release.go,       *)
(* leases.go, dispatch.go, src/internal/filelock/filelock.go) and the      *)
(* uninstall that removes them (src/cli/manager/internal/self/self.go).    *)
(*                                                                         *)
(* Updaters prepare a release directory, select it with one atomic record  *)
(* and prune releases that are neither current nor previous.  Launchers    *)
(* run the selected release without any lock but a shared lease on its     *)
(* lease file.  Uninstall removes everything and retires the publication   *)
(* lock.  Any process may die at any step.                                 *)
(*                                                                         *)
(* A step under the publication lock is one action when only processes     *)
(* with that lock can disturb it; a launcher's system calls are one action *)
(* each.  What a bootstrap does to the launcher binary is not modelled,    *)
(* only that it may fail, and neither is the run of the staged binary with *)
(* which Prepare verifies it.                                              *)
(***************************************************************************)
EXTENDS Integers, FiniteSets

CONSTANTS Updaters,     \* processes that update or uninstall
          Launchers,    \* processes started through the launcher or directly
          Nobody,       \* the holder of a free lock
          MaxReleases,  \* bound on the number of releases
          MaxUninstalls \* bound on the retired publication locks

ASSUME BoundsAssumption ==
  /\ MaxReleases \in Nat \ {0} /\ MaxUninstalls \in Nat
  /\ Nobody \notin Updaters \cup Launchers /\ Updaters \cap Launchers = {}

Procs    == Updaters \cup Launchers
Releases == 1..MaxReleases
Inodes   == 1..(MaxUninstalls + 1)
NoRecord == [release |-> 0, previous |-> 0]

VARIABLES
  dir,      \* dir[r]: what is left of the directory of release r
  record,   \* .wago-release.json; 0 stands for an absent name
  path,     \* the inode that .wago-release.lock names, 0 for none
  inodes,   \* lock files created so far
  owner,    \* owner[i]: the process with the exclusive lock on inode i
  shared,   \* shared[r]: the processes with the shared lock on r's lease file
  excl,     \* excl[r]: the process with the exclusive lock on r's lease file
  pc,
  job,      \* "prepare", "publish" or "uninstall"
  fd,       \* the lock file an updater has opened
  mine,     \* the release an updater publishes, or a launcher runs
  old,      \* the record Publish read
  todo,     \* the directory entries pruneReleases has still to visit
  victim,   \* the release it is retiring
  direct,   \* the launcher process was started from a release directory
  \* What the checks remember; the program has no such state.
  wiped,    \* releases that an uninstall has begun to remove
  since     \* how often the record changed since a launcher read it, up to 2

files  == <<dir, record, path, inodes>>
locks  == <<owner, shared, excl>>
locals == <<job, fd, mine, old, todo, victim, direct>>
ghosts == <<wiped, since>>
vars   == <<files, locks, pc, locals, ghosts>>

(* A release whose binary, source and receipt are in place; a legacy one   *)
(* has neither lease nor marker.  Of a torn release, and of the scraps of  *)
(* a retired one, any of the names may be left.                            *)
Whole == {"staged", "published", "legacy"}

(* A directory whose name starts with .retired-. *)
Retired(r) == dir[r] \in {"retired", "scraps"}

(* A directory with the name .lease in it. *)
HasLease(r) == dir[r] \in {"partial", "staged", "published"}

Init ==
  /\ \/ dir = [r \in Releases |-> "none"] /\ record = NoRecord
     \/ /\ dir = [r \in Releases |-> IF r = 1 THEN "legacy" ELSE "none"]
        /\ record = [release |-> 1, previous |-> 0]
  /\ path = 0 /\ inodes = 0
  /\ owner = [i \in Inodes |-> Nobody]
  /\ shared = [r \in Releases |-> {}] /\ excl = [r \in Releases |-> Nobody]
  /\ pc = [p \in Procs |-> "idle"] /\ job = [p \in Procs |-> "none"]
  /\ fd = [p \in Procs |-> 0] /\ mine = [p \in Procs |-> 0]
  /\ old = [p \in Procs |-> NoRecord] /\ todo = [p \in Procs |-> {}]
  /\ victim = [p \in Procs |-> 0]
  /\ direct = [p \in Procs |-> FALSE]
  /\ wiped = {} /\ since = [p \in Launchers |-> 0]

Go(p, label) == pc' = [pc EXCEPT ![p] = label]

(* Every lock p holds, given up by Close or by the operating system. *)
Unlock(p) ==
  /\ owner' = [i \in Inodes |-> IF owner[i] = p THEN Nobody ELSE owner[i]]
  /\ shared' = [r \in Releases |-> shared[r] \ {p}]
  /\ excl' = [r \in Releases |-> IF excl[r] = p THEN Nobody ELSE excl[r]]

(* The call is over: its deferred closes run and its state is gone. *)
Return(p) ==
  /\ Unlock(p) /\ Go(p, "idle")
  /\ job' = [job EXCEPT ![p] = "none"] /\ fd' = [fd EXCEPT ![p] = 0]
  /\ mine' = [mine EXCEPT ![p] = 0] /\ old' = [old EXCEPT ![p] = NoRecord]
  /\ todo' = [todo EXCEPT ![p] = {}] /\ victim' = [victim EXCEPT ![p] = 0]
  /\ direct' = [direct EXCEPT ![p] = FALSE]
  /\ since' = [l \in Launchers |-> IF l = p THEN 0 ELSE since[l]]

(* Publish or an uninstall changes the record under the launchers. *)
Changed == since' = [l \in Launchers |-> IF pc[l] \in {"idle", "running"} THEN 0
                                        ELSE IF since[l] = 2 THEN 2 ELSE since[l] + 1]

-----------------------------------------------------------------------------
(* The publication lock. *)

(* Prepare, or an uninstall, starts. *)
Begin(p, what) ==
  /\ pc[p] = "idle"
  /\ what = "prepare" => \E r \in Releases : dir[r] = "none"
  /\ job' = [job EXCEPT ![p] = what] /\ Go(p, "open")
  /\ UNCHANGED <<files, locks, fd, mine, old, todo, victim, direct, ghosts>>

(* Acquire opens or creates the lock file. *)
OpenLock(p) ==
  /\ pc[p] = "open"
  /\ IF path = 0 THEN path' = inodes + 1 /\ inodes' = inodes + 1
     ELSE UNCHANGED <<path, inodes>>
  /\ fd' = [fd EXCEPT ![p] = path'] /\ Go(p, "lock")
  /\ UNCHANGED <<dir, record, locks, job, mine, old, todo, victim, direct, ghosts>>

Work(what) == CASE what = "prepare"   -> "mkdir"
                [] what = "publish"   -> "pin"
                [] what = "uninstall" -> "wipeRecord"

(* Fault: the lock is kept on a file that has lost its name. *)
TakeLockUnvalidated(p) ==
  /\ pc[p] = "lock" /\ owner[fd[p]] = Nobody
  /\ job[p] = "uninstall" => inodes <= MaxUninstalls
  /\ owner' = [owner EXCEPT ![fd[p]] = p] /\ Go(p, Work(job[p]))
  /\ UNCHANGED <<files, shared, excl, locals, ghosts>>

(* acquireOpened: the lock is taken, and kept only on the file that still  *)
(* has the name.  MaxUninstalls bounds the locks an uninstall may retire.  *)
TakeLock(p) ==
  /\ pc[p] = "lock" /\ owner[fd[p]] = Nobody
  /\ fd[p] = path
  /\ job[p] = "uninstall" => inodes <= MaxUninstalls
  /\ owner' = [owner EXCEPT ![fd[p]] = p] /\ Go(p, Work(job[p]))
  /\ UNCHANGED <<files, shared, excl, locals, ghosts>>

LockRetired(p) ==
  /\ pc[p] = "lock" /\ owner[fd[p]] = Nobody
  /\ fd[p] # path
  /\ Return(p)
  /\ UNCHANGED <<files, wiped>>

-----------------------------------------------------------------------------
(* Prepare. *)

MakeDirectory(p) ==
  /\ pc[p] = "mkdir"
  /\ \E r \in Releases :
       /\ dir[r] = "none" /\ \A s \in 1..(r - 1) : dir[s] # "none"
       /\ dir' = [dir EXCEPT ![r] = "partial"] /\ mine' = [mine EXCEPT ![p] = r]
  /\ Go(p, "write")
  /\ UNCHANGED <<record, path, inodes, locks, job, fd, old, todo, victim, direct, ghosts>>

(* Written, verified and synced; Prepare returns and Publish starts. *)
Stage(p) ==
  /\ pc[p] = "write"
  /\ dir' = [dir EXCEPT ![mine[p]] = "staged"]
  /\ Unlock(p)
  /\ job' = [job EXCEPT ![p] = "publish"] /\ Go(p, "open")
  /\ UNCHANGED <<record, path, inodes, fd, mine, old, todo, victim, direct, ghosts>>

PrepareFails(p) ==
  /\ pc[p] = "write"
  /\ dir' = [dir EXCEPT ![mine[p]] = "gone"]
  /\ Return(p)
  /\ UNCHANGED <<record, path, inodes, wiped>>

-----------------------------------------------------------------------------
(* Publish. *)

(* The shared lease on the release to publish.  An uninstall that died may *)
(* have left the lease file of a release it was removing.                  *)
Pin(p) ==
  /\ pc[p] = "pin"
  /\ HasLease(mine[p]) \/ dir[mine[p]] = "torn"
  /\ excl[mine[p]] = Nobody
  /\ shared' = [shared EXCEPT ![mine[p]] = @ \cup {p}] /\ Go(p, "select")
  /\ UNCHANGED <<files, owner, excl, locals, ghosts>>

PinFails(p) ==
  /\ pc[p] = "pin"
  /\ ~HasLease(mine[p])
  /\ Return(p)
  /\ UNCHANGED <<files, wiped>>

(* Fault: the release that was selected is not recorded as the previous one. *)
RecordForgets(r, o) == [release |-> r, previous |-> o.previous]

(* The record Publish writes for release r when it read o. *)
Record(r, o) ==
  [release |-> r, previous |-> IF o.release = r THEN o.previous ELSE o.release]

(* The record is read and replaced. *)
Select(p) ==
  /\ pc[p] = "select"
  /\ old' = [old EXCEPT ![p] = record]
  /\ record' = Record(mine[p], record)
  /\ Changed /\ Go(p, "commit")
  /\ UNCHANGED <<dir, path, inodes, locks, job, fd, mine, todo, victim, direct, wiped>>

(* Fault: the previous release is pruned too. *)
KeptCurrent(p) == {mine[p]}

(* The releases the record Publish wrote names. *)
Kept(p) == {mine[p], Record(mine[p], old[p]).previous}

(* Unpublished and legacy releases have no marker. *)
Eligible(p, r) == r \notin Kept(p) /\ dir[r] \in {"published", "retiring", "torn"}

(* The bootstrap, the sync of the root and the marker succeed; then        *)
(* pruneReleases lists what is not kept.                                   *)
Commit(p) ==
  /\ pc[p] = "commit"
  /\ dir' = [dir EXCEPT ![mine[p]] = IF @ = "staged" THEN "published" ELSE @]
  /\ todo' = [todo EXCEPT ![p] = {r \in Releases : Eligible(p, r) \/ Retired(r)}]
  /\ Go(p, "prune")
  /\ UNCHANGED <<record, path, inodes, locks, job, fd, mine, old, victim, direct, ghosts>>

(* One of them fails: rollbackSelection, which may itself fail. *)
Rollback(p) ==
  /\ pc[p] = "commit"
  /\ record' \in {old[p], record}
  /\ Return(p)
  /\ UNCHANGED <<dir, path, inodes, wiped>>

-----------------------------------------------------------------------------
(* pruneReleases. *)

Visit(p, r) == todo' = [todo EXCEPT ![p] = @ \ {r}]

(* A running payload has the lease. *)
PruneSkip(p) ==
  /\ pc[p] = "prune"
  /\ \E r \in todo[p] :
       /\ ~Retired(r) /\ (shared[r] # {} \/ dir[r] = "torn")
       /\ Visit(p, r)
  /\ UNCHANGED <<files, locks, pc, job, fd, mine, old, victim, direct, ghosts>>

(* TryAcquireExisting on .lease, or on the lease a pruner that died had    *)
(* already retired.                                                        *)
PruneLock(p) ==
  /\ pc[p] = "prune"
  /\ \E r \in todo[p] :
       /\ ~Retired(r) /\ shared[r] = {} /\ excl[r] = Nobody
       /\ excl' = [excl EXCEPT ![r] = p] /\ victim' = [victim EXCEPT ![p] = r]
  /\ Go(p, "retireLease")
  /\ UNCHANGED <<files, owner, shared, job, fd, mine, old, todo, direct, ghosts>>

(* The lease loses its name, and then its lock. *)
RetireLease(p) ==
  /\ pc[p] = "retireLease"
  /\ dir' = [dir EXCEPT ![victim[p]] = "retiring"]
  /\ excl' = [excl EXCEPT ![victim[p]] = Nobody]
  /\ Go(p, "renameDir")
  /\ UNCHANGED <<record, path, inodes, owner, shared, locals, ghosts>>

RenameDirectory(p) ==
  /\ pc[p] = "renameDir"
  /\ dir' = [dir EXCEPT ![victim[p]] = "retired"]
  /\ Go(p, "removeDir")
  /\ UNCHANGED <<record, path, inodes, locks, locals, ghosts>>

(* The entries of a retired directory that p may remove, the one p has     *)
(* just renamed first.                                                     *)
Removable(p) == {r \in todo[p] : victim[p] \in {0, r}}

(* RemoveAll begins to remove what is in the directory, in any order; also *)
(* in one that an earlier pruner had retired.                              *)
RemoveEntries(p) ==
  /\ pc[p] \in {"prune", "removeDir"}
  /\ \E r \in Removable(p) :
       /\ dir[r] = "retired"
       /\ dir' = [dir EXCEPT ![r] = "scraps"] /\ victim' = [victim EXCEPT ![p] = r]
  /\ Go(p, "removeDir")
  /\ UNCHANGED <<record, path, inodes, locks, job, fd, mine, old, todo, direct, ghosts>>

(* The last of it is gone. *)
RemoveDirectory(p) ==
  /\ pc[p] \in {"prune", "removeDir"}
  /\ \E r \in Removable(p) :
       /\ dir[r] = "scraps"
       /\ dir' = [dir EXCEPT ![r] = "gone"] /\ Visit(p, r)
  /\ victim' = [victim EXCEPT ![p] = 0] /\ Go(p, "prune")
  /\ UNCHANGED <<record, path, inodes, locks, job, fd, mine, old, direct, ghosts>>

PruneEnds(p) ==
  /\ pc[p] = "prune" /\ todo[p] = {}
  /\ Return(p)
  /\ UNCHANGED <<files, wiped>>

-----------------------------------------------------------------------------
(* selfUninstall: the record, the releases, then the lock's name. *)

RemoveRecord(p) ==
  /\ pc[p] = "wipeRecord"
  /\ record' = NoRecord /\ Go(p, "wipe")
  /\ Changed
  /\ UNCHANGED <<dir, path, inodes, locks, locals, wiped>>

(* RemoveAll again, of all the releases. *)
Wipe(p) ==
  /\ pc[p] = "wipe"
  /\ \E r \in Releases :
       /\ dir[r] \notin {"none", "gone", "torn", "scraps"}
       /\ dir' = [dir EXCEPT ![r] = IF @ = "retired" THEN "scraps" ELSE "torn"]
       /\ wiped' = wiped \cup {r}
  /\ UNCHANGED <<record, path, inodes, locks, pc, locals, since>>

WipeEnds(p) ==
  /\ pc[p] = "wipe" /\ \A r \in Releases : dir[r] \in {"none", "gone", "torn", "scraps"}
  /\ dir' = [r \in Releases |-> IF dir[r] \in {"torn", "scraps"} THEN "gone" ELSE dir[r]]
  /\ Go(p, "retireLock")
  /\ UNCHANGED <<record, path, inodes, locks, locals, ghosts>>

(* Retire: the name goes first, the lock is given up by CloseLock. *)
RetireLock(p) ==
  /\ pc[p] = "retireLock"
  /\ path' = 0 /\ Go(p, "close")
  /\ UNCHANGED <<dir, record, inodes, locks, locals, ghosts>>

CloseLock(p) ==
  /\ pc[p] = "close"
  /\ Return(p)
  /\ UNCHANGED <<files, wiped>>

-----------------------------------------------------------------------------
(* Dispatch: the launcher, or a payload started from its own directory. *)

(* selectedLease reads the record, the first time or again. *)
ReadRecord(p) ==
  /\ pc[p] \in {"idle", "retry"} /\ record.release # 0
  /\ mine' = [mine EXCEPT ![p] = record.release]
  /\ since' = [since EXCEPT ![p] = 0] /\ Go(p, "openLease")
  /\ UNCHANGED <<files, locks, job, fd, old, todo, victim, direct, wiped>>

(* os.Executable names the file the process was started from as it is      *)
(* called now: in the directory of the release, or, when a pruner has      *)
(* renamed that since the start, in the retired one.                       *)
StartDirectly(p) ==
  /\ pc[p] = "idle"
  /\ \E r \in Releases :
       /\ dir[r] \in Whole \cup {"retiring", "torn", "retired", "scraps"}
       /\ mine' = [mine EXCEPT ![p] = r]
       /\ Go(p, IF Retired(r) THEN "openRetired" ELSE "openLease")
  /\ direct' = [direct EXCEPT ![p] = TRUE]
  /\ UNCHANGED <<files, locks, job, fd, old, todo, victim, ghosts>>

OpenLease(p) ==
  /\ pc[p] = "openLease" /\ (HasLease(mine[p]) \/ dir[mine[p]] = "torn")
  /\ Go(p, "lockLease")
  /\ UNCHANGED <<files, locks, locals, ghosts>>

(* The payload runs, with the locks p has. *)
Enter(p) ==
  /\ Go(p, "running")
  /\ since' = [since EXCEPT ![p] = 0]
  /\ UNCHANGED <<files, locks, locals, wiped>>

(* legacyRelease: no lease, no marker, but a receipt. *)
RunLegacy(p) ==
  /\ pc[p] = "openLease" /\ dir[mine[p]] \in {"legacy", "torn"}
  /\ Enter(p)

(* legacyRelease again: in a retired directory the marker may go before    *)
(* the receipt.                                                            *)
RunRetired(p) ==
  /\ pc[p] = "openRetired" /\ dir[mine[p]] = "scraps"
  /\ Enter(p)

(* The lock is free of an exclusive owner, whatever became of the name. *)
LockLease(p) ==
  /\ pc[p] = "lockLease" /\ excl[mine[p]] = Nobody
  /\ shared' = [shared EXCEPT ![mine[p]] = @ \cup {p}] /\ Go(p, "validateLease")
  /\ UNCHANGED <<files, owner, excl, locals, ghosts>>

(* Fault: the second look at the name is missing. *)
RunUnvalidated(p) ==
  /\ pc[p] = "validateLease"
  /\ Enter(p)

(* The name is still there: the payload runs and keeps the lock. *)
Run(p) ==
  /\ pc[p] = "validateLease" /\ (HasLease(mine[p]) \/ dir[mine[p]] = "torn")
  /\ Enter(p)

(* No lease, an exclusive owner, or a lease that lost its name: the        *)
(* launcher tries again, a payload fails.  A retired directory has no      *)
(* lease.                                                                  *)
MissLease(p) ==
  /\ CASE pc[p] = "openLease"     -> ~HasLease(mine[p]) /\ dir[mine[p]] # "legacy"
       [] pc[p] = "openRetired"   -> TRUE
       [] pc[p] = "lockLease"     -> excl[mine[p]] # Nobody
       [] pc[p] = "validateLease" -> ~HasLease(mine[p])
       [] OTHER                    -> FALSE
  /\ IF direct[p] THEN Return(p)
     ELSE Unlock(p) /\ Go(p, "retry") /\ UNCHANGED <<locals, since>>
  /\ UNCHANGED <<files, wiped>>

-----------------------------------------------------------------------------
(* A process ends at any step: it is killed, it exits, it has made its     *)
(* sixteenth attempt, the record is gone when it looks again, or a call    *)
(* fails with nothing to undo.                                             *)
Stop(p) ==
  /\ pc[p] # "idle"
  /\ Return(p)
  /\ UNCHANGED <<files, wiped>>

Prepare(p) == MakeDirectory(p) \/ Stage(p) \/ PrepareFails(p)
Publish(p) == Pin(p) \/ PinFails(p) \/ Select(p) \/ Commit(p) \/ Rollback(p)
Prune(p)   == \/ PruneSkip(p) \/ PruneLock(p) \/ RetireLease(p)
              \/ RenameDirectory(p) \/ RemoveEntries(p) \/ RemoveDirectory(p) \/ PruneEnds(p)
Uninstall(p) == \/ RemoveRecord(p) \/ Wipe(p) \/ WipeEnds(p)
                \/ RetireLock(p) \/ CloseLock(p)
Dispatch(p) == \/ ReadRecord(p) \/ StartDirectly(p) \/ OpenLease(p) \/ RunLegacy(p)
               \/ RunRetired(p) \/ LockLease(p) \/ Run(p) \/ MissLease(p)

Next ==
  \/ \E p \in Updaters : \/ Begin(p, "prepare") \/ Begin(p, "uninstall")
                         \/ OpenLock(p) \/ TakeLock(p) \/ LockRetired(p)
                         \/ Prepare(p) \/ Publish(p) \/ Prune(p) \/ Uninstall(p)
  \/ \E p \in Launchers : Dispatch(p)
  \/ \E p \in Procs : Stop(p)

Spec == Init /\ [][Next]_vars

-----------------------------------------------------------------------------
(* Properties. *)

(* A directly started payload that runs in a retired directory, unpinned. *)
Stray(p) == direct[p] /\ p \notin shared[mine[p]] /\ dir[mine[p]] \in {"scraps", "gone"}

(* A payload that runs, from the launcher, with its lease or as a legacy   *)
(* one, has its whole release under its feet: no pruner retires it         *)
(* (leases.go, pruneReleases against selectedLease and pinProcess).  Only  *)
(* an uninstall removes it.  The exception is a payload that was started   *)
(* directly and took a directory being removed for a legacy release.       *)
RunningIsWhole ==
  \A p \in Launchers : pc[p] = "running" =>
      dir[mine[p]] \in Whole \/ mine[p] \in wiped \/ Stray(p)

(* What the comment of pinProcess says: a directly launched current-format *)
(* payload pins its own source for its process lifetime.                   *)
DirectIsPinned ==
  \A p \in Launchers : pc[p] = "running" /\ direct[p] =>
      p \in shared[mine[p]] \/ dir[mine[p]] = "legacy" \/ mine[p] \in wiped

(* The record never names, as current or as previous, a release that is    *)
(* incomplete or pruned, whatever step a publisher or a pruner died at     *)
(* (release.go, Publish and rollbackSelection).                            *)
SelectedIsWhole ==
  \A r \in {record.release, record.previous} \ {0} : dir[r] \in Whole \/ r \in wiped

Protected == {"mkdir", "write", "pin", "select", "commit", "prune", "retireLease",
              "renameDir", "removeDir", "wipeRecord", "wipe", "retireLock"}

(* The publication lock excludes although an uninstall may take its file   *)
(* away under the processes that wait for it: at most one process is at    *)
(* protected work (filelock.go, acquireOpened and Retire).                 *)
PublicationIsExclusive ==
  \A p, q \in Updaters : pc[p] \in Protected /\ pc[q] \in Protected => p = q

(* A launcher misses the release it has just read in the record only when  *)
(* the record has changed twice since, or an uninstall is removing that    *)
(* release: one publication keeps it as the previous one (leases.go,       *)
(* selectedLease against pruneReleases).                                   *)
LaunchIsPatient ==
  \A p \in Launchers : pc[p] = "retry" => since[p] = 2 \/ mine[p] \in wiped
=============================================================================
