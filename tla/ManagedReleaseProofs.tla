------------------------ MODULE ManagedReleaseProofs ------------------------
(***************************************************************************)
(* The four safety properties of ManagedRelease, for every number of       *)
(* processes, releases and uninstalls.                                     *)
(*                                                                         *)
(* The argument: a process at protected work holds the lock on the file    *)
(* that has the lock's name (Locked), so what it read under the lock stays *)
(* true until it gives it up (Publishing, Pruning).  A pruner holds the    *)
(* exclusive lease of its victim, which is none of the releases of the     *)
(* record; a launcher that has the shared lease keeps pruners out, and one *)
(* that has not yet is covered by the record it read (Reading).            *)
(***************************************************************************)
EXTENDS ManagedRelease, TLAPS

Dirs == {"none", "partial", "staged", "published", "legacy", "retiring", "retired", "scraps",
         "gone", "torn"}
Prunable == {"published", "retiring", "torn", "retired", "scraps"}
Pruners == {"prune", "retireLease", "renameDir", "removeDir"}
Reads == {"openLease", "lockLease", "validateLease"}
UpdaterLabels == Protected \cup {"idle", "open", "lock", "close"}
LauncherLabels == Reads \cup {"idle", "openRetired", "retry", "running"}
Records == [release : Releases \cup {0}, previous : Releases \cup {0}]

FileTypes ==
  /\ dir \in [Releases -> Dirs] /\ record \in Records /\ wiped \in SUBSET Releases
  /\ path \in Inodes \cup {0} /\ inodes \in 0..(MaxUninstalls + 1)

LockTypes ==
  /\ owner \in [Inodes -> Procs \cup {Nobody}]
  /\ shared \in [Releases -> SUBSET Procs]
  /\ excl \in [Releases -> Procs \cup {Nobody}]

LocalTypes ==
  /\ pc \in [Procs -> UpdaterLabels \cup LauncherLabels]
  /\ job \in [Procs -> {"none", "prepare", "publish", "uninstall"}]
  /\ fd \in [Procs -> Inodes \cup {0}]
  /\ mine \in [Procs -> Releases \cup {0}]
  /\ old \in [Procs -> Records] /\ todo \in [Procs -> SUBSET Releases]
  /\ victim \in [Procs -> Releases \cup {0}] /\ direct \in [Procs -> BOOLEAN]
  /\ since \in [Launchers -> 0..2]

Types == FileTypes /\ LockTypes /\ LocalTypes

(* What belongs to one process. *)
Own(p) == <<pc[p], job[p], fd[p], mine[p], old[p], todo[p], victim[p], direct[p]>>

(* What a process is at, and the lock that goes with it. *)
Locked ==
  /\ path = 0 => inodes <= MaxUninstalls
  /\ path <= inodes
  /\ \A p \in Updaters :
       /\ pc[p] \in UpdaterLabels
       /\ pc[p] = "lock" => fd[p] # 0
       /\ pc[p] \in {"open", "lock"} => job[p] # "none"
       /\ pc[p] \in Protected => path # 0 /\ fd[p] = path /\ owner[path] = p
       /\ pc[p] \in {"wipeRecord", "wipe", "retireLock"} => inodes <= MaxUninstalls
  /\ \A p \in Launchers : pc[p] \in LauncherLabels

(* The names in a record. *)
Names(r) == {r.release, r.previous} \ {0}

(* A release that no pruner may take: whole, or being removed by an uninstall. *)
Good(r) == dir[r] \in Whole \/ r \in wiped

Directories ==
  /\ \A r \in Releases : dir[r] = "torn" => r \in wiped
  /\ \A r \in wiped : dir[r] \notin {"none", "partial"}
  /\ \A r \in Names(record) : Good(r)
  /\ \A p \in Updaters : mine[p] # 0 => dir[mine[p]] # "none"
  /\ \A p, q \in Updaters : mine[p] # 0 /\ mine[p] = mine[q] => p = q

Leases ==
  /\ \A r \in Releases : excl[r] # Nobody =>
       /\ shared[r] = {}
       /\ excl[r] \in Updaters /\ pc[excl[r]] = "retireLease" /\ victim[excl[r]] = r

(* An updater between Stage and Commit, under the lock or not. *)
Unpublished(p) ==
  \/ pc[p] \in {"open", "lock"} /\ job[p] = "publish"
  \/ pc[p] \in {"pin", "select", "commit"}

Publishing(p) ==
  /\ pc[p] = "write" => mine[p] # 0 /\ dir[mine[p]] = "partial"
  /\ Unpublished(p) => mine[p] # 0 /\ (dir[mine[p]] = "staged" \/ mine[p] \in wiped)
  /\ pc[p] = "commit" => record = Record(mine[p], old[p]) /\ \A r \in Names(old[p]) : Good(r)

Pruning(p) ==
  pc[p] \in Pruners =>
    /\ record.release # 0
    /\ \A r \in todo[p] : /\ dir[r] \in Prunable
                          /\ r \in Names(record) => r \in wiped
    /\ pc[p] # "prune" => victim[p] \in todo[p]
    /\ pc[p] = "retireLease" => excl[victim[p]] = p /\ ~Retired(victim[p])
    /\ pc[p] = "renameDir" => dir[victim[p]] = "retiring"

(* What protects the release a launcher has read in the record. *)
Covered(p) ==
  \/ mine[p] \in wiped \/ since[p] = 2
  \/ dir[mine[p]] \in {"staged", "legacy"}
  \/ /\ dir[mine[p]] = "published"
     /\ since[p] = 0 => record.release = mine[p]
     /\ since[p] = 1 => mine[p] \in Names(record) \/ record.release = 0

Reading(p) ==
  /\ pc[p] # "idle" => mine[p] # 0 /\ dir[mine[p]] \notin {"none", "partial"}
  /\ pc[p] \in {"lockLease", "validateLease"} => dir[mine[p]] # "legacy"
  /\ pc[p] = "validateLease" => p \in shared[mine[p]]
  /\ \A r \in Releases : p \in shared[r] => pc[p] \in {"validateLease", "running"}
  /\ pc[p] = "openRetired" => direct[p]
  /\ pc[p] = "running" => \/ mine[p] \in wiped \/ dir[mine[p]] = "legacy"
                          \/ p \in shared[mine[p]] /\ dir[mine[p]] \in {"staged", "published"}
                          \/ Stray(p)
  /\ pc[p] = "retry" => since[p] = 2 \/ mine[p] \in wiped
  /\ pc[p] \in Reads /\ ~direct[p] => Covered(p)

IInv ==
  /\ Types /\ Locked /\ Directories /\ Leases
  /\ \A p \in Updaters : Publishing(p) /\ Pruning(p)
  /\ \A p \in Launchers : Reading(p)

-----------------------------------------------------------------------------
LEMMA Sorts == 0 \notin Releases /\ 0 \notin Inodes /\ Nobody \notin Procs
  BY BoundsAssumption DEF Releases, Inodes, Procs

(* At most one process is at protected work. *)
LEMMA Alone ==
  ASSUME IInv, NEW p \in Updaters, NEW q \in Updaters,
         pc[p] \in Protected, pc[q] \in Protected
  PROVE  p = q
  BY ZenonT(40) DEF IInv, Locked

(* The other updaters, while p takes a step: either p has the lock, or p   *)
(* touches nothing the others look at.                                     *)
LEMMA UpdaterFrame ==
  ASSUME IInv, NEW p \in Updaters, NEW q \in Updaters, q # p, Own(q)' = Own(q),
         wiped \subseteq wiped',
         \A r \in Releases : dir[r] = "staged" /\ r # mine[p] => dir'[r] = "staged" \/ r \in wiped',
         \/ pc[p] \in Protected
         \/ UNCHANGED <<dir, record>> /\ \A r \in Releases : excl[r] = q => excl'[r] = q
  PROVE  Publishing(q)' /\ Pruning(q)'
<1>1. /\ pc'[q] = pc[q] /\ job'[q] = job[q] /\ mine'[q] = mine[q]
      /\ old'[q] = old[q] /\ todo'[q] = todo[q] /\ victim'[q] = victim[q]
  BY ZenonT(40) DEF Own
<1>2. mine[q] \in Releases \cup {0} /\ todo[q] \in SUBSET Releases
  BY ZenonT(40) DEF IInv, Types, LocalTypes, Procs
<1>3. mine[q] # 0 => mine[q] # mine[p]
  BY ZenonT(40) DEF IInv, Directories
<1>4. Publishing(q) /\ Pruning(q)
  BY ZenonT(40) DEF IInv
<1>5. CASE pc[p] \in Protected
  <2>1. pc[q] \notin Protected
    BY ZenonT(40), <1>5, Alone
  <2>2. Publishing(q)'
    BY ZenonT(40), <1>1, <1>2, <1>3, <1>4, <2>1 DEF Publishing, Unpublished, Protected
  <2>3. Pruning(q)'
    BY ZenonT(40), <1>1, <2>1 DEF Pruning, Pruners, Protected
  <2> QED BY ZenonT(40), <2>2, <2>3
<1>6. CASE UNCHANGED <<dir, record>> /\ \A r \in Releases : excl[r] = q => excl'[r] = q
  <2>1. Unpublished(q)' <=> Unpublished(q)
    BY ZenonT(40), <1>1 DEF Unpublished
  <2>2. Publishing(q)'
    BY ZenonT(40), <1>1, <1>4, <1>6, <2>1 DEF Publishing, Good, Names
  <2>3. Pruning(q)'
    BY ZenonT(40), <1>1, <1>2, <1>4, <1>6 DEF Pruning, Retired, Names
  <2> QED BY ZenonT(40), <2>2, <2>3
<1> QED BY ZenonT(40), <1>5, <1>6

(* A launcher, while another process takes a step that leaves its release  *)
(* alone or wipes it.                                                      *)
LEMMA ReadingFrame ==
  ASSUME IInv, NEW q \in Launchers, Own(q)' = Own(q), since'[q] = since[q],
         wiped \subseteq wiped', record' = record,
         \A r \in Releases : q \in shared'[r] <=> q \in shared[r],
         mine[q] # 0 /\ dir[mine[q]] \notin {"none", "partial"} =>
            \/ dir'[mine[q]] = dir[mine[q]]
            \/ dir[mine[q]] = "scraps" /\ dir'[mine[q]] = "gone"
            \/ mine[q] \in wiped' /\ dir'[mine[q]] \notin {"none", "partial", "legacy"}
  PROVE  Reading(q)'
<1>1. pc'[q] = pc[q] /\ mine'[q] = mine[q] /\ direct'[q] = direct[q]
  BY ZenonT(40) DEF Own
<1>2. mine[q] \in Releases \cup {0} /\ Reading(q)
  BY ZenonT(40) DEF IInv, Types, LocalTypes, Procs
<1>3. CASE mine[q] # 0 => dir'[mine[q]] = dir[mine[q]]
  BY ZenonT(40), <1>1, <1>2, <1>3 DEF Reading, Stray, Covered, Names, Reads
<1>4. CASE mine[q] # 0 /\ dir[mine[q]] = "scraps" /\ dir'[mine[q]] = "gone"
  BY ZenonT(40), <1>1, <1>2, <1>4 DEF Reading, Stray, Covered, Names, Reads
<1>5. CASE mine[q] # 0 /\ mine[q] \in wiped' /\ dir'[mine[q]] \notin {"none", "partial", "legacy"}
  BY ZenonT(40), <1>1, <1>2, <1>5 DEF Reading, Covered, Reads
<1>6. CASE mine[q] # 0 /\ dir[mine[q]] \in {"none", "partial"}
  <2>1. pc[q] = "idle"
    BY ZenonT(40), <1>2, <1>6 DEF Reading
  <2> QED BY ZenonT(40), <1>1, <1>2, <2>1 DEF Reading, Reads
<1> QED BY ZenonT(40), <1>3, <1>4, <1>5, <1>6

(* The updaters, while a launcher takes a step. *)
LEMMA LauncherFrame ==
  ASSUME IInv, NEW p \in Launchers, \A q \in Procs : q # p => Own(q)' = Own(q),
         pc'[p] \in LauncherLabels, UNCHANGED <<files, wiped>>,
         \A i \in Inodes : owner[i] # p => owner'[i] = owner[i],
         \A r \in Releases : excl[r] # p => excl'[r] = excl[r]
  PROVE  /\ Locked' /\ Directories'
         /\ \A q \in Updaters : Publishing(q)' /\ Pruning(q)'
<1>0. p \notin Updaters
  BY ZenonT(40), BoundsAssumption
<1>1. \A q \in Updaters :
        /\ pc'[q] = pc[q] /\ job'[q] = job[q] /\ fd'[q] = fd[q] /\ mine'[q] = mine[q]
        /\ old'[q] = old[q] /\ todo'[q] = todo[q] /\ victim'[q] = victim[q]
  BY ZenonT(40), <1>0 DEF Own, Procs
<1>2. \A q \in Launchers : q # p => pc'[q] = pc[q]
  BY ZenonT(40) DEF Own, Procs
<1>3. Locked'
  BY <1>0, <1>1, <1>2 DEF IInv, Types, FileTypes, Locked, files
<1>4. Directories'
  BY <1>1 DEF IInv, Directories, Good, Names, files
<1>5. ASSUME NEW q \in Updaters PROVE Publishing(q)' /\ Pruning(q)'
  <2>1. Publishing(q) /\ Pruning(q) /\ todo[q] \in SUBSET Releases
    BY ZenonT(40) DEF IInv, Types, LocalTypes, Procs
  <2>2. Publishing(q)'
    BY ZenonT(40), <1>1, <2>1 DEF Publishing, Unpublished, Good, Names, files
  <2>3. Pruning(q)'
    BY <1>0, <1>1, <2>1 DEF Pruning, Retired, Names, files
  <2> QED BY ZenonT(40), <2>2, <2>3
<1> QED BY ZenonT(40), <1>3, <1>4, <1>5

(* The lock, while its holder works on. *)
LEMMA LockKept ==
  ASSUME IInv, NEW p \in Updaters, \A q \in Procs : q # p => Own(q)' = Own(q),
         UNCHANGED <<path, inodes, owner>>, fd'[p] = fd[p],
         pc[p] \in Protected, pc'[p] \in Protected,
         pc'[p] \in {"wipeRecord", "wipe", "retireLock"} => pc[p] \in {"wipeRecord", "wipe", "retireLock"}
  PROVE  Locked'
<1>0. p \notin Launchers
  BY ZenonT(40), BoundsAssumption
<1>1. \A q \in Procs : q # p => pc'[q] = pc[q] /\ fd'[q] = fd[q] /\ job'[q] = job[q]
  BY ZenonT(40) DEF Own
<1>2. ASSUME NEW q \in Updaters
      PROVE  /\ pc'[q] \in UpdaterLabels
             /\ pc'[q] = "lock" => fd'[q] # 0
             /\ pc'[q] \in {"open", "lock"} => job'[q] # "none"
             /\ pc'[q] \in Protected => path # 0 /\ fd'[q] = path /\ owner[path] = q
             /\ pc'[q] \in {"wipeRecord", "wipe", "retireLock"} => inodes <= MaxUninstalls
  <2>1. CASE q = p
    BY ZenonT(40), <2>1 DEF IInv, Locked, Protected, UpdaterLabels
  <2>2. CASE q # p
    BY ZenonT(40), <1>1, <2>2 DEF IInv, Locked, Procs
  <2> QED BY ZenonT(40), <2>1, <2>2
<1>3. \A q \in Launchers : pc'[q] \in LauncherLabels
  BY ZenonT(40), <1>0, <1>1 DEF IInv, Locked, Procs
<1> QED BY ZenonT(40), <1>2, <1>3 DEF IInv, Locked

(* The lock, when a process gives up what it has or starts with nothing. *)
LEMMA LockLeft ==
  ASSUME IInv, NEW p \in Procs, \A q \in Procs : q # p => Own(q)' = Own(q),
         UNCHANGED <<path, inodes>>,
         \A i \in Inodes : owner[i] # p => owner'[i] = owner[i],
         pc'[p] = "idle" \/ (p \in Updaters /\ pc'[p] = "open" /\ job'[p] # "none")
  PROVE  Locked'
<1>1. \A q \in Procs : q # p => pc'[q] = pc[q] /\ fd'[q] = fd[q] /\ job'[q] = job[q]
  BY ZenonT(40) DEF Own
<1>2. ASSUME NEW q \in Updaters
      PROVE  /\ pc'[q] \in UpdaterLabels
             /\ pc'[q] = "lock" => fd'[q] # 0
             /\ pc'[q] \in {"open", "lock"} => job'[q] # "none"
             /\ pc'[q] \in Protected => path # 0 /\ fd'[q] = path /\ owner'[path] = q
             /\ pc'[q] \in {"wipeRecord", "wipe", "retireLock"} => inodes <= MaxUninstalls
  <2>1. CASE q = p
    BY ZenonT(40), <2>1, BoundsAssumption DEF Protected, UpdaterLabels
  <2>2. CASE q # p
    <3>1. path \in Inodes \cup {0}
      BY ZenonT(40) DEF IInv, Types, FileTypes
    <3> QED BY ZenonT(40), <1>1, <2>2, <3>1 DEF IInv, Locked, Procs
  <2> QED BY ZenonT(40), <2>1, <2>2
<1>3. ASSUME NEW q \in Launchers PROVE pc'[q] \in LauncherLabels
  <2>1. CASE q = p
    BY ZenonT(40), <2>1, BoundsAssumption DEF LauncherLabels
  <2>2. CASE q # p
    BY ZenonT(40), <1>1, <2>2 DEF IInv, Locked, Procs
  <2> QED BY ZenonT(40), <2>1, <2>2
<1> QED BY ZenonT(40), <1>2, <1>3 DEF IInv, Locked

(* The leases, when no exclusive one is taken and none is shared against it. *)
LEMMA LeasesKept ==
  ASSUME IInv, NEW p \in Procs, \A q \in Procs : q # p => Own(q)' = Own(q),
         \A r \in Releases : excl'[r] # Nobody =>
            excl'[r] = excl[r] /\ excl[r] # p /\ shared'[r] \subseteq shared[r]
  PROVE  Leases'
<1>1. \A q \in Procs : q # p => pc'[q] = pc[q] /\ victim'[q] = victim[q]
  BY ZenonT(40) DEF Own
<1> QED BY <1>1 DEF IInv, Leases, Procs

(* A process that is not retiring a lease has no exclusive one. *)
LEMMA NoExclusive ==
  ASSUME IInv, NEW p \in Procs, pc[p] # "retireLease", NEW r \in Releases
  PROVE  excl[r] # p
  BY Sorts DEF IInv, Leases

(* The directories, while the record stays: none is forgotten, and those   *)
(* of the record stay whole unless they are wiped.                         *)
LEMMA DirectoriesKept ==
  ASSUME IInv, NEW p \in Procs, \A q \in Procs : q # p => Own(q)' = Own(q),
         mine'[p] \in {mine[p], 0}, record' = record, wiped \subseteq wiped', wiped' \subseteq Releases,
         \A r \in Releases : \/ dir'[r] = dir[r] /\ (r \in wiped' => r \in wiped)
                             \/ /\ dir'[r] \notin {"none", "partial"}
                                /\ \/ r \in wiped'
                                   \/ /\ dir'[r] # "torn"
                                      /\ dir'[r] \in Whole \/ r \notin Names(record)
  PROVE  Directories'
<1>1. \A q \in Procs : q # p => mine'[q] = mine[q]
  BY ZenonT(40) DEF Own
<1>2. \A q \in Procs : mine[q] \in Releases \cup {0}
  BY ZenonT(40) DEF IInv, Types, LocalTypes
<1>3. \A r \in Names(record) : r \in Releases
  BY ZenonT(40) DEF IInv, Types, FileTypes, Records, Names
<1>4. \A r \in Releases : dir'[r] = "torn" => r \in wiped'
  BY ZenonT(40) DEF IInv, Directories
<1>5. ASSUME NEW r \in Names(record') PROVE Good(r)'
  BY ZenonT(40), <1>3, <1>5 DEF IInv, Directories, Good
<1>6. \A q \in Updaters : mine'[q] # 0 => dir'[mine'[q]] # "none"
  BY ZenonT(40), <1>1, <1>2 DEF IInv, Directories, Procs
<1>7. \A q, s \in Updaters : mine'[q] # 0 /\ mine'[q] = mine'[s] => q = s
  BY ZenonT(40), <1>1 DEF IInv, Directories, Procs
<1>8. \A r \in wiped' : dir'[r] \notin {"none", "partial"}
  <2>1. wiped' \subseteq Releases
    BY ZenonT(40)
  <2> QED BY ZenonT(40), <2>1 DEF IInv, Directories
<1> QED BY ZenonT(40), <1>4, <1>5, <1>6, <1>7, <1>8 DEF Directories

(* What the invariant says of one updater. *)
LEMMA Facts ==
  ASSUME IInv, NEW p \in Updaters
  PROVE  /\ p \in Procs /\ p \notin Launchers /\ Publishing(p) /\ Pruning(p)
         /\ mine[p] \in Releases \cup {0} /\ victim[p] \in Releases \cup {0}
         /\ todo[p] \in SUBSET Releases /\ old[p] \in Records
         /\ mine[p] # 0 => dir[mine[p]] # "none"
  BY ZenonT(40), BoundsAssumption DEF IInv, Types, LocalTypes, Directories, Procs

(* A launcher, while the record changes: what it named stays in it for one *)
(* change.                                                                 *)
LEMMA ReadingChanged ==
  ASSUME IInv, NEW q \in Launchers, Own(q)' = Own(q), UNCHANGED <<dir, shared, wiped>>, Changed,
         record.release # 0 => record.release \in Names(record') \/ record'.release = 0
  PROVE  Reading(q)'
<1>1. pc'[q] = pc[q] /\ mine'[q] = mine[q] /\ direct'[q] = direct[q]
  BY ZenonT(40) DEF Own
<1>2. mine[q] \in Releases \cup {0} /\ since[q] \in 0..2 /\ Reading(q)
  BY ZenonT(40) DEF IInv, Types, LocalTypes, Procs
<1>3. pc[q] \notin {"idle", "running"} => since'[q] = IF since[q] = 2 THEN 2 ELSE since[q] + 1
  BY ZenonT(40) DEF Changed
<1>4. pc[q] \notin {"idle", "running"} => \/ since'[q] = 2
                                          \/ since[q] = 0 /\ since'[q] = 1
  BY <1>2, <1>3
<1>5. pc[q] = "retry" => since'[q] = 2 \/ mine[q] \in wiped
  BY ZenonT(40), <1>2, <1>3 DEF Reading
<1>6. pc[q] \in Reads /\ ~direct[q] => Covered(q)'
  <2> SUFFICES ASSUME pc[q] \in Reads, ~direct[q] PROVE Covered(q)'
    BY ZenonT(40)
  <2>1. mine[q] # 0 /\ Covered(q)
    BY ZenonT(40), <1>2 DEF Reading, Reads
  <2>2. CASE since'[q] = 2
    BY ZenonT(40), <2>2 DEF Covered
  <2>3. CASE since[q] = 0 /\ since'[q] = 1
    BY <1>1, <2>1, <2>3 DEF Covered
  <2> QED BY ZenonT(40), <1>4, <2>2, <2>3 DEF Reads
<1>7. Stray(q)' <=> Stray(q)
  BY ZenonT(40), <1>1 DEF Stray
<1> QED BY ZenonT(40), <1>1, <1>2, <1>5, <1>6, <1>7 DEF Reading

(* A launcher, while a pruner takes a release that nobody runs and the     *)
(* record does not name.                                                   *)
LEMMA ReadingPruned ==
  ASSUME IInv, NEW q \in Launchers, Own(q)' = Own(q), since'[q] = since[q],
         UNCHANGED <<record, shared, wiped>>, NEW v \in Releases,
         \A r \in Releases : r # v => dir'[r] = dir[r],
         dir'[v] \in {"retiring", "retired", "scraps", "gone"}, dir[v] \in Prunable,
         dir[v] = "scraps" => dir'[v] = "gone",
         dir[v] = "published" => shared[v] = {},
         record.release # 0, v \in Names(record) => v \in wiped
  PROVE  Reading(q)'
<1>1. pc'[q] = pc[q] /\ mine'[q] = mine[q] /\ direct'[q] = direct[q]
  BY ZenonT(40) DEF Own
<1>2. mine[q] \in Releases \cup {0} /\ since[q] \in 0..2 /\ Reading(q)
  BY ZenonT(40) DEF IInv, Types, LocalTypes, Procs
<1>3. CASE mine[q] # v
  <2>1. mine[q] # 0 => dir'[mine[q]] = dir[mine[q]]
    BY ZenonT(40), <1>2, <1>3
  <2> QED BY ZenonT(40), <2>1, ReadingFrame
<1>4. CASE mine[q] = v
  <2>1. v # 0 /\ (dir[v] = "torn" => v \in wiped)
    BY ZenonT(40), Sorts DEF IInv, Directories
  <2>2. pc[q] = "validateLease" => q \in shared[v]
    BY ZenonT(40), <1>2, <1>4 DEF Reading
  <2>3. pc[q] = "running" => v \in wiped \/ Stray(q)'
    <3>1. pc[q] = "running" => v \in wiped \/ (Stray(q) /\ dir[v] = "scraps")
      BY ZenonT(40), <1>2, <1>4, <2>1 DEF Reading, Stray, Prunable
    <3> QED BY ZenonT(40), <1>1, <1>4, <3>1 DEF Stray
  <2>4. pc[q] = "retry" => since[q] = 2 \/ v \in wiped
    BY ZenonT(40), <1>2, <1>4 DEF Reading
  <2>5. pc[q] \in Reads /\ ~direct[q] => Covered(q)
    BY ZenonT(40), <1>2 DEF Reading
  <2>6. Covered(q) => v \in wiped \/ since[q] = 2
    <3>1. Covered(q) /\ v \notin wiped /\ since[q] # 2 => since[q] \in {0, 1} /\ dir[v] = "published"
      BY <1>2, <1>4, <2>1 DEF Covered, Prunable
    <3> QED BY ZenonT(40), <1>4, <2>1, <3>1 DEF Covered, Names
  <2>7. Covered(q)' <=> (v \in wiped \/ since[q] = 2)
    BY ZenonT(40), <1>1, <1>4 DEF Covered
  <2>8. /\ \A r \in Releases : q \in shared[r] => pc[q] \in {"validateLease", "running"}
        /\ pc[q] = "openRetired" => direct[q]
    BY ZenonT(40), <1>2 DEF Reading
  <2> QED BY ZenonT(40), <1>1, <1>4, <2>1, <2>2, <2>3, <2>4, <2>5, <2>6, <2>7, <2>8 DEF Reading
<1> QED BY ZenonT(40), <1>3, <1>4

(* Prepare or an uninstall starts. *)
LEMMA BeginKeeps ==
  ASSUME IInv, NEW p \in Updaters, NEW what \in {"prepare", "uninstall"}, Begin(p, what)
  PROVE  IInv'
<1>0. /\ p \in Procs /\ p \notin Launchers /\ Publishing(p) /\ Pruning(p)
      /\ mine[p] \in Releases \cup {0} /\ victim[p] \in Releases \cup {0}
      /\ todo[p] \in SUBSET Releases /\ old[p] \in Records
      /\ mine[p] # 0 => dir[mine[p]] # "none"
  BY ZenonT(40), Facts
<1>1. /\ pc[p] = "idle" /\ pc'[p] = "open" /\ job'[p] = what /\ mine'[p] = mine[p]
      /\ UNCHANGED <<dir, record, path, inodes, owner, shared, excl, wiped, since>>
  BY ZenonT(40), <1>0, Sorts DEF IInv, Types, FileTypes, LockTypes, LocalTypes, Begin, Go,
     files, locks, ghosts
<1>2. \A q \in Procs : q # p => Own(q)' = Own(q)
  BY ZenonT(40), <1>0 DEF IInv, Types, LocalTypes, Own, Begin, Go, files, locks, ghosts, locals
<1>3. Types'
  <2>1. FileTypes'
    BY ZenonT(40), <1>0, Sorts DEF IInv, Types, FileTypes, LocalTypes, Dirs, Begin, Go, files,
       locks, ghosts
  <2>2. LockTypes'
    BY ZenonT(40), <1>0 DEF IInv, Types, LockTypes, LocalTypes, Begin, Go, files, locks, ghosts
  <2>3. LocalTypes'
    BY ZenonT(40), <1>0, Sorts DEF IInv, Types, LocalTypes, FileTypes, UpdaterLabels,
       LauncherLabels, Protected, Records, NoRecord, Begin, Go, files, locks, ghosts
  <2> QED BY ZenonT(40), <2>1, <2>2, <2>3 DEF Types
<1>4. Locked'
  BY ZenonT(40), <1>0, <1>1, <1>2, LockLeft
<1>5. Directories'
  <2>1. wiped' \subseteq Releases
    BY ZenonT(40), <1>3 DEF Types, FileTypes
  <2> QED BY ZenonT(40), <1>0, <1>1, <1>2, <2>1, DirectoriesKept DEF Whole
<1>6. Leases'
  <2>1. \A r \in Releases : excl[r] # p
    BY ZenonT(40), <1>0, <1>1, NoExclusive
  <2> QED BY ZenonT(40), <1>0, <1>1, <1>2, <2>1, LeasesKept
<1>7. Publishing(p)' /\ Pruning(p)'
  BY ZenonT(40), <1>1 DEF Publishing, Unpublished, Pruning, Pruners
<1>8. ASSUME NEW q \in Updaters, q # p PROVE Publishing(q)' /\ Pruning(q)'
  BY ZenonT(40), <1>0, <1>1, <1>2, <1>8, UpdaterFrame DEF Protected, Procs
<1>9. ASSUME NEW q \in Launchers PROVE Reading(q)'
  BY ZenonT(40), <1>0, <1>1, <1>2, ReadingFrame DEF Procs
<1> QED BY ZenonT(40), <1>3, <1>4, <1>5, <1>6, <1>7, <1>8, <1>9 DEF IInv

(* The lock file is opened, or created. *)
LEMMA OpenLockKeeps ==
  ASSUME IInv, NEW p \in Updaters, OpenLock(p)
  PROVE  IInv'
<1>0. /\ p \in Procs /\ p \notin Launchers /\ Publishing(p) /\ Pruning(p)
      /\ mine[p] \in Releases \cup {0} /\ victim[p] \in Releases \cup {0}
      /\ todo[p] \in SUBSET Releases /\ old[p] \in Records
      /\ mine[p] # 0 => dir[mine[p]] # "none"
  BY ZenonT(40), Facts
<1>1. /\ pc[p] = "open" /\ pc'[p] = "lock" /\ job'[p] = job[p] /\ mine'[p] = mine[p]
      /\ fd'[p] = path'
      /\ IF path = 0 THEN path' = inodes + 1 /\ inodes' = inodes + 1 ELSE path' = path /\ inodes' = inodes
      /\ UNCHANGED <<dir, record, owner, shared, excl, wiped, since>>
  BY ZenonT(40), <1>0, Sorts DEF IInv, Types, FileTypes, LockTypes, LocalTypes, OpenLock, Go,
     locks, ghosts
<1>2. \A q \in Procs : q # p => Own(q)' = Own(q)
  BY ZenonT(40), <1>0 DEF IInv, Types, LocalTypes, Own, OpenLock, Go, locks, ghosts, locals
<1>3. Types'
  <2>1. FileTypes'
    <3>1. path' \in Inodes \cup {0} /\ inodes' \in 0..(MaxUninstalls + 1)
      BY <1>1, BoundsAssumption DEF IInv, Types, FileTypes, Locked, Inodes
    <3> QED BY ZenonT(40), <1>1, <3>1 DEF IInv, Types, FileTypes
  <2>2. LockTypes'
    BY ZenonT(40), <1>0 DEF IInv, Types, LockTypes, LocalTypes, OpenLock, Go, locks, ghosts
  <2>3. LocalTypes'
    <3>1. path' \in Inodes \cup {0}
      BY ZenonT(40), <2>1 DEF FileTypes
    <3>2. fd' \in [Procs -> Inodes \cup {0}]
      BY ZenonT(40), <1>0, <3>1 DEF IInv, Types, LocalTypes, OpenLock
    <3>3. pc' \in [Procs -> UpdaterLabels \cup LauncherLabels]
      BY ZenonT(40), <1>0 DEF IInv, Types, LocalTypes, OpenLock, Go, UpdaterLabels
    <3> QED BY ZenonT(40), <3>2, <3>3 DEF IInv, Types, LocalTypes, OpenLock, ghosts
  <2> QED BY ZenonT(40), <2>1, <2>2, <2>3 DEF Types
<1>4. Locked'
  <2>1. /\ path' # 0 /\ path' <= inodes' /\ (path # 0 => path' = path /\ inodes' = inodes)
    BY <1>1 DEF IInv, Types, FileTypes, Locked
  <2>2. \A q \in Procs : q # p => pc'[q] = pc[q] /\ fd'[q] = fd[q] /\ job'[q] = job[q]
    BY ZenonT(40), <1>2 DEF Own
  <2>3. job[p] # "none"
    BY ZenonT(40), <1>1 DEF IInv, Locked
  <2> QED BY <1>0, <1>1, <2>1, <2>2, <2>3 DEF IInv, Locked, Procs, UpdaterLabels, Protected
<1>5. Directories'
  <2>1. wiped' \subseteq Releases
    BY ZenonT(40), <1>3 DEF Types, FileTypes
  <2> QED BY ZenonT(40), <1>0, <1>1, <1>2, <2>1, DirectoriesKept DEF Whole
<1>6. Leases'
  <2>1. \A r \in Releases : excl[r] # p
    BY ZenonT(40), <1>0, <1>1, NoExclusive
  <2> QED BY ZenonT(40), <1>0, <1>1, <1>2, <2>1, LeasesKept
<1>7. Publishing(p)' /\ Pruning(p)'
  BY ZenonT(40), <1>0, <1>1 DEF Publishing, Unpublished, Pruning, Pruners
<1>8. ASSUME NEW q \in Updaters, q # p PROVE Publishing(q)' /\ Pruning(q)'
  BY ZenonT(40), <1>0, <1>1, <1>2, <1>8, UpdaterFrame DEF Protected, Procs
<1>9. ASSUME NEW q \in Launchers PROVE Reading(q)'
  BY ZenonT(40), <1>0, <1>1, <1>2, ReadingFrame DEF Procs
<1> QED BY ZenonT(40), <1>3, <1>4, <1>5, <1>6, <1>7, <1>8, <1>9 DEF IInv

(* The lock is taken on the file that has the name. *)
LEMMA TakeLockKeeps ==
  ASSUME IInv, NEW p \in Updaters, TakeLock(p)
  PROVE  IInv'
<1>0. /\ p \in Procs /\ p \notin Launchers /\ Publishing(p) /\ Pruning(p)
      /\ mine[p] \in Releases \cup {0} /\ victim[p] \in Releases \cup {0}
      /\ todo[p] \in SUBSET Releases /\ old[p] \in Records
      /\ mine[p] # 0 => dir[mine[p]] # "none"
  BY ZenonT(40), Facts
<1>1. /\ pc[p] = "lock" /\ fd[p] = path /\ fd'[p] = path /\ job'[p] = job[p] /\ mine'[p] = mine[p]
      /\ \/ pc'[p] = "mkdir"
         \/ pc'[p] = "pin" /\ job[p] = "publish"
         \/ pc'[p] = "wipeRecord" /\ inodes <= MaxUninstalls
      /\ path # 0 /\ owner'[path] = p /\ owner[path] = Nobody
      /\ UNCHANGED <<dir, record, path, inodes, shared, excl, wiped, since>>
  BY ZenonT(40), <1>0, Sorts DEF IInv, Types, FileTypes, LockTypes, LocalTypes, Locked,
     TakeLock, Go, Work, files, locals, ghosts
<1>2. \A q \in Procs : q # p => Own(q)' = Own(q)
  BY ZenonT(40), <1>0 DEF IInv, Types, LocalTypes, Own, TakeLock, Go, Work, files, locals,
     ghosts
<1>3. Types'
  <2>1. FileTypes'
    BY ZenonT(40), <1>0, Sorts DEF IInv, Types, FileTypes, LocalTypes, Dirs, TakeLock, Go, Work,
       files, locals, ghosts
  <2>2. LockTypes'
    BY ZenonT(40), <1>0 DEF IInv, Types, LockTypes, LocalTypes, TakeLock, Go, Work, files,
       locals, ghosts, locks
  <2>3. LocalTypes'
    <3>1. pc'[p] \in UpdaterLabels /\ pc' = [pc EXCEPT ![p] = pc'[p]]
      BY ZenonT(40), <1>0, <1>1 DEF IInv, Types, LocalTypes, TakeLock, Go, UpdaterLabels,
         Protected
    <3>2. pc' \in [Procs -> UpdaterLabels \cup LauncherLabels]
      BY ZenonT(40), <1>0, <3>1 DEF IInv, Types, LocalTypes
    <3> QED BY ZenonT(40), <3>2 DEF IInv, Types, LocalTypes, TakeLock, locals, ghosts
  <2> QED BY ZenonT(40), <2>1, <2>2, <2>3 DEF Types
<1>4. Locked'
  <2>1. \A q \in Updaters : pc[q] \notin Protected
    BY ZenonT(40), <1>1, Sorts DEF IInv, Locked, Procs
  <2>2. \A q \in Procs : q # p => pc'[q] = pc[q] /\ fd'[q] = fd[q] /\ job'[q] = job[q]
    BY ZenonT(40), <1>2 DEF Own
  <2> QED BY <1>0, <1>1, <2>1, <2>2 DEF IInv, Locked, Procs, UpdaterLabels, Protected
<1>5. Directories'
  <2>1. wiped' \subseteq Releases
    BY ZenonT(40), <1>3 DEF Types, FileTypes
  <2> QED BY ZenonT(40), <1>0, <1>1, <1>2, <2>1, DirectoriesKept DEF Whole
<1>6. Leases'
  <2>1. \A r \in Releases : excl[r] # p
    BY ZenonT(40), <1>0, <1>1, NoExclusive
  <2> QED BY ZenonT(40), <1>0, <1>1, <1>2, <2>1, LeasesKept
<1>7. Publishing(p)' /\ Pruning(p)'
  BY ZenonT(40), <1>0, <1>1 DEF Publishing, Unpublished, Pruning, Pruners
<1>8. ASSUME NEW q \in Updaters, q # p PROVE Publishing(q)' /\ Pruning(q)'
  BY ZenonT(40), <1>0, <1>1, <1>2, <1>8, UpdaterFrame DEF Protected, Procs
<1>9. ASSUME NEW q \in Launchers PROVE Reading(q)'
  BY ZenonT(40), <1>0, <1>1, <1>2, ReadingFrame DEF Procs
<1> QED BY ZenonT(40), <1>3, <1>4, <1>5, <1>6, <1>7, <1>8, <1>9 DEF IInv

(* A directory nobody had. *)
LEMMA MakeDirectoryKeeps ==
  ASSUME IInv, NEW p \in Updaters, MakeDirectory(p)
  PROVE  IInv'
<1>0. /\ p \in Procs /\ p \notin Launchers /\ Publishing(p) /\ Pruning(p)
      /\ mine[p] \in Releases \cup {0} /\ victim[p] \in Releases \cup {0}
      /\ todo[p] \in SUBSET Releases /\ old[p] \in Records
      /\ mine[p] # 0 => dir[mine[p]] # "none"
  BY ZenonT(40), Facts
<1>p. PICK v \in Releases : dir[v] = "none" /\ dir' = [dir EXCEPT ![v] = "partial"] /\ mine' = [mine EXCEPT ![p] = v]
  BY ZenonT(40) DEF MakeDirectory
<1>1. /\ pc[p] = "mkdir" /\ pc'[p] = "write" /\ fd'[p] = fd[p] /\ mine'[p] = v /\ dir[v] = "none"
      /\ \A r \in Releases : dir'[r] = IF r = v THEN "partial" ELSE dir[r]
      /\ UNCHANGED <<record, path, inodes, owner, shared, excl, wiped, since>>
  BY ZenonT(40), <1>0, <1>p, Sorts DEF IInv, Types, FileTypes, LockTypes, LocalTypes,
     MakeDirectory, Go, locks, ghosts
<1>2. \A q \in Procs : q # p => Own(q)' = Own(q)
  BY ZenonT(40), <1>0, <1>p DEF IInv, Types, LocalTypes, Own, MakeDirectory, Go, locks, ghosts,
     locals
<1>3. Types'
  <2>1. FileTypes'
    BY ZenonT(40), <1>0, <1>p, Sorts DEF IInv, Types, FileTypes, LocalTypes, Dirs,
       MakeDirectory, Go, locks, ghosts
  <2>2. LockTypes'
    BY ZenonT(40), <1>0, <1>p DEF IInv, Types, LockTypes, LocalTypes, MakeDirectory, Go, locks,
       ghosts
  <2>3. LocalTypes'
    BY ZenonT(40), <1>0, <1>p, Sorts DEF IInv, Types, LocalTypes, FileTypes, UpdaterLabels,
       LauncherLabels, Protected, Records, NoRecord, MakeDirectory, Go, locks, ghosts
  <2> QED BY ZenonT(40), <2>1, <2>2, <2>3 DEF Types
<1>4. Locked'
  BY ZenonT(40), <1>0, <1>1, <1>2, LockKept DEF Protected
<1>5. Directories'
  <2>1. \A q \in Procs : q # p => mine'[q] = mine[q]
    BY ZenonT(40), <1>2 DEF Own
  <2>2. \A q \in Updaters : mine[q] \in Releases \cup {0} /\ mine[q] # v
    BY ZenonT(40), <1>1, Sorts DEF IInv, Types, LocalTypes, Directories, Procs
  <2>3. \A r \in Names(record) : r \in Releases /\ Good(r)'
    BY ZenonT(40), <1>1 DEF IInv, Types, FileTypes, Records, Names, Directories, Good, Whole
  <2>4. \A q \in Updaters : mine'[q] # 0 => dir'[mine'[q]] # "none"
    BY <1>1, <2>1, <2>2 DEF IInv, Directories, Procs
  <2>5. \A q, s \in Updaters : mine'[q] # 0 /\ mine'[q] = mine'[s] => q = s
    BY <1>1, <2>1, <2>2 DEF IInv, Directories, Procs
  <2>6. wiped \subseteq Releases /\ \A r \in wiped : dir'[r] \notin {"none", "partial"}
    BY ZenonT(40), <1>1 DEF IInv, Types, FileTypes, Directories
  <2> QED BY ZenonT(40), <1>1, <2>3, <2>4, <2>5, <2>6 DEF IInv, Directories
<1>6. Leases'
  <2>1. \A r \in Releases : excl[r] # p
    BY ZenonT(40), <1>0, <1>1, NoExclusive
  <2> QED BY ZenonT(40), <1>0, <1>1, <1>2, <2>1, LeasesKept
<1>7. Publishing(p)' /\ Pruning(p)'
  BY ZenonT(40), <1>0, <1>1, Sorts DEF Publishing, Unpublished, Pruning, Pruners
<1>8. ASSUME NEW q \in Updaters, q # p PROVE Publishing(q)' /\ Pruning(q)'
  BY ZenonT(40), <1>0, <1>1, <1>2, <1>8, UpdaterFrame DEF Protected, Procs
<1>9. ASSUME NEW q \in Launchers PROVE Reading(q)'
  <2>1. q # p /\ Own(q)' = Own(q) /\ mine[q] \in Releases \cup {0}
    BY ZenonT(40), <1>0, <1>2 DEF IInv, Types, LocalTypes, Procs
  <2>2. mine[q] # 0 /\ dir[mine[q]] \notin {"none", "partial"} =>
           \/ dir'[mine[q]] = dir[mine[q]]
           \/ mine[q] \in wiped' /\ dir'[mine[q]] \notin {"none", "partial", "legacy"}
    BY ZenonT(40), <1>1, <2>1
  <2>3. \A r \in Releases : q \in shared'[r] <=> q \in shared[r]
    BY ZenonT(40), <1>1, <2>1
  <2> QED BY ZenonT(40), <1>1, <2>1, <2>2, <2>3, ReadingFrame
<1> QED BY ZenonT(40), <1>3, <1>4, <1>5, <1>6, <1>7, <1>8, <1>9 DEF IInv

(* The release is complete; the lock is given up. *)
LEMMA StageKeeps ==
  ASSUME IInv, NEW p \in Updaters, Stage(p)
  PROVE  IInv'
<1>0. /\ p \in Procs /\ p \notin Launchers /\ Publishing(p) /\ Pruning(p)
      /\ mine[p] \in Releases \cup {0} /\ victim[p] \in Releases \cup {0}
      /\ todo[p] \in SUBSET Releases /\ old[p] \in Records
      /\ mine[p] # 0 => dir[mine[p]] # "none"
  BY ZenonT(40), Facts
<1>1. /\ pc[p] = "write" /\ pc'[p] = "open" /\ job'[p] = "publish" /\ mine'[p] = mine[p]
      /\ mine[p] # 0 /\ mine[p] \in Releases /\ dir[mine[p]] = "partial"
      /\ \A r \in Releases : dir'[r] = IF r = mine[p] THEN "staged" ELSE dir[r]
      /\ \A i \in Inodes : owner'[i] = IF owner[i] = p THEN Nobody ELSE owner[i]
      /\ \A r \in Releases : /\ shared'[r] = shared[r] \ {p}
                             /\ excl'[r] = IF excl[r] = p THEN Nobody ELSE excl[r]
      /\ UNCHANGED <<record, path, inodes, wiped, since>>
  BY ZenonT(40), <1>0, Sorts DEF IInv, Types, FileTypes, LockTypes, LocalTypes, Publishing,
     Unpublished, Stage, Go, Unlock, ghosts
<1>2. \A q \in Procs : q # p => Own(q)' = Own(q)
  BY ZenonT(40), <1>0 DEF IInv, Types, LocalTypes, Own, Stage, Go, Unlock, ghosts, locals
<1>3. Types'
  <2>1. FileTypes'
    BY ZenonT(40), <1>0, Sorts DEF IInv, Types, FileTypes, LocalTypes, Dirs, Stage, Go, Unlock,
       ghosts
  <2>2. LockTypes'
    BY ZenonT(40), <1>0 DEF IInv, Types, LockTypes, LocalTypes, Stage, Go, Unlock, ghosts, locks
  <2>3. LocalTypes'
    BY ZenonT(40), <1>0, Sorts DEF IInv, Types, LocalTypes, FileTypes, UpdaterLabels,
       LauncherLabels, Protected, Records, NoRecord, Stage, Go, Unlock, ghosts
  <2> QED BY ZenonT(40), <2>1, <2>2, <2>3 DEF Types
<1>4. Locked'
  BY ZenonT(40), <1>0, <1>1, <1>2, LockLeft
<1>5. Directories'
  <2>1. wiped' \subseteq Releases
    BY ZenonT(40), <1>3 DEF Types, FileTypes
  <2> QED BY ZenonT(40), <1>0, <1>1, <1>2, <2>1, DirectoriesKept DEF Whole
<1>6. Leases'
  <2>1. \A r \in Releases : excl[r] # p
    BY ZenonT(40), <1>0, <1>1, NoExclusive
  <2> QED BY <1>0, <1>1, <1>2, <2>1, LeasesKept
<1>7. Publishing(p)' /\ Pruning(p)'
  BY ZenonT(40), <1>0, <1>1 DEF Publishing, Unpublished, Pruning, Pruners
<1>8. ASSUME NEW q \in Updaters, q # p PROVE Publishing(q)' /\ Pruning(q)'
  BY ZenonT(40), <1>0, <1>1, <1>2, <1>8, UpdaterFrame DEF Protected, Procs
<1>9. ASSUME NEW q \in Launchers PROVE Reading(q)'
  <2>1. q # p /\ Own(q)' = Own(q) /\ mine[q] \in Releases \cup {0}
    BY ZenonT(40), <1>0, <1>2 DEF IInv, Types, LocalTypes, Procs
  <2>2. mine[q] # 0 /\ dir[mine[q]] \notin {"none", "partial"} =>
           \/ dir'[mine[q]] = dir[mine[q]]
           \/ mine[q] \in wiped' /\ dir'[mine[q]] \notin {"none", "partial", "legacy"}
    BY ZenonT(40), <1>1, <2>1
  <2>3. \A r \in Releases : q \in shared'[r] <=> q \in shared[r]
    BY ZenonT(40), <1>1, <2>1
  <2> QED BY ZenonT(40), <1>1, <2>1, <2>2, <2>3, ReadingFrame
<1> QED BY ZenonT(40), <1>3, <1>4, <1>5, <1>6, <1>7, <1>8, <1>9 DEF IInv

(* A directory that nobody has heard of is removed. *)
LEMMA PrepareFailsKeeps ==
  ASSUME IInv, NEW p \in Updaters, PrepareFails(p)
  PROVE  IInv'
<1>0. /\ p \in Procs /\ p \notin Launchers /\ Publishing(p) /\ Pruning(p)
      /\ mine[p] \in Releases \cup {0} /\ victim[p] \in Releases \cup {0}
      /\ todo[p] \in SUBSET Releases /\ old[p] \in Records
      /\ mine[p] # 0 => dir[mine[p]] # "none"
  BY ZenonT(40), Facts
<1>1. /\ pc[p] = "write" /\ pc'[p] = "idle" /\ mine'[p] = 0
      /\ mine[p] # 0 /\ mine[p] \in Releases /\ dir[mine[p]] = "partial"
      /\ \A r \in Releases : dir'[r] = IF r = mine[p] THEN "gone" ELSE dir[r]
      /\ \A i \in Inodes : owner'[i] = IF owner[i] = p THEN Nobody ELSE owner[i]
      /\ \A r \in Releases : /\ shared'[r] = shared[r] \ {p}
                             /\ excl'[r] = IF excl[r] = p THEN Nobody ELSE excl[r]
      /\ \A q \in Launchers : since'[q] = since[q]
      /\ UNCHANGED <<record, path, inodes, wiped>>
  BY ZenonT(40), <1>0, Sorts DEF IInv, Types, FileTypes, LockTypes, LocalTypes, Publishing,
     Unpublished, PrepareFails, Go, Return, Unlock
<1>2. \A q \in Procs : q # p => Own(q)' = Own(q)
  BY ZenonT(40), <1>0 DEF IInv, Types, LocalTypes, Own, PrepareFails, Go, Return, Unlock, locals
<1>3. Types'
  <2>1. FileTypes'
    BY ZenonT(40), <1>0, Sorts DEF IInv, Types, FileTypes, LocalTypes, Dirs, PrepareFails, Go,
       Return, Unlock
  <2>2. LockTypes'
    BY ZenonT(40), <1>0 DEF IInv, Types, LockTypes, LocalTypes, PrepareFails, Go, Return,
       Unlock, locks
  <2>3. LocalTypes'
    BY ZenonT(40), <1>0, Sorts DEF IInv, Types, LocalTypes, FileTypes, UpdaterLabels,
       LauncherLabels, Protected, Records, NoRecord, PrepareFails, Go, Return, Unlock
  <2> QED BY ZenonT(40), <2>1, <2>2, <2>3 DEF Types
<1>4. Locked'
  BY ZenonT(40), <1>0, <1>1, <1>2, LockLeft
<1>5. Directories'
  <2>1. mine[p] \in Names(record) => mine[p] \in wiped
    BY ZenonT(40), <1>1 DEF IInv, Directories, Good, Whole
  <2>2. wiped' \subseteq Releases
    BY ZenonT(40), <1>3 DEF Types, FileTypes
  <2> QED BY ZenonT(40), <1>0, <1>1, <1>2, <2>1, <2>2, DirectoriesKept
<1>6. Leases'
  <2>1. \A r \in Releases : excl[r] # p
    BY ZenonT(40), <1>0, <1>1, NoExclusive
  <2> QED BY <1>0, <1>1, <1>2, <2>1, LeasesKept
<1>7. Publishing(p)' /\ Pruning(p)'
  BY ZenonT(40), <1>1 DEF Publishing, Unpublished, Pruning, Pruners
<1>8. ASSUME NEW q \in Updaters, q # p PROVE Publishing(q)' /\ Pruning(q)'
  BY <1>0, <1>1, <1>2, <1>8, UpdaterFrame DEF Protected, Procs
<1>9. ASSUME NEW q \in Launchers PROVE Reading(q)'
  <2>1. q # p /\ Own(q)' = Own(q) /\ mine[q] \in Releases \cup {0}
    BY ZenonT(40), <1>0, <1>2 DEF IInv, Types, LocalTypes, Procs
  <2>2. mine[q] # 0 /\ dir[mine[q]] \notin {"none", "partial"} =>
           \/ dir'[mine[q]] = dir[mine[q]]
           \/ mine[q] \in wiped' /\ dir'[mine[q]] \notin {"none", "partial", "legacy"}
    BY ZenonT(40), <1>1, <2>1
  <2>3. \A r \in Releases : q \in shared'[r] <=> q \in shared[r]
    BY ZenonT(40), <1>1, <2>1
  <2> QED BY ZenonT(40), <1>1, <2>1, <2>2, <2>3, ReadingFrame
<1> QED BY ZenonT(40), <1>3, <1>4, <1>5, <1>6, <1>7, <1>8, <1>9 DEF IInv

(* The publisher takes the shared lease. *)
LEMMA PinKeeps ==
  ASSUME IInv, NEW p \in Updaters, Pin(p)
  PROVE  IInv'
<1>0. /\ p \in Procs /\ p \notin Launchers /\ Publishing(p) /\ Pruning(p)
      /\ mine[p] \in Releases \cup {0} /\ victim[p] \in Releases \cup {0}
      /\ todo[p] \in SUBSET Releases /\ old[p] \in Records
      /\ mine[p] # 0 => dir[mine[p]] # "none"
  BY ZenonT(40), Facts
<1>1. /\ pc[p] = "pin" /\ pc'[p] = "select" /\ fd'[p] = fd[p] /\ job'[p] = job[p] /\ mine'[p] = mine[p]
      /\ excl[mine[p]] = Nobody
      /\ \A r \in Releases : shared[r] \subseteq shared'[r] /\ (r # mine[p] => shared'[r] = shared[r])
      /\ \A r \in Releases : \A q \in Procs : q # p => (q \in shared'[r] <=> q \in shared[r])
      /\ UNCHANGED <<dir, record, path, inodes, owner, excl, wiped, since>>
  BY ZenonT(40), <1>0, Sorts DEF IInv, Types, FileTypes, LockTypes, LocalTypes, Pin, Go, files,
     locals, ghosts
<1>2. \A q \in Procs : q # p => Own(q)' = Own(q)
  BY ZenonT(40), <1>0 DEF IInv, Types, LocalTypes, Own, Pin, Go, files, locals, ghosts
<1>3. Types'
  <2>1. FileTypes'
    BY ZenonT(40), <1>0, Sorts DEF IInv, Types, FileTypes, LocalTypes, Dirs, Pin, Go, files,
       locals, ghosts
  <2>2. LockTypes'
    BY ZenonT(40), <1>0 DEF IInv, Types, LockTypes, LocalTypes, Pin, Go, files, locals, ghosts,
       locks
  <2>3. LocalTypes'
    BY ZenonT(40), <1>0, Sorts DEF IInv, Types, LocalTypes, FileTypes, UpdaterLabels,
       LauncherLabels, Protected, Records, NoRecord, Pin, Go, files, locals, ghosts
  <2> QED BY ZenonT(40), <2>1, <2>2, <2>3 DEF Types
<1>4. Locked'
  BY ZenonT(40), <1>0, <1>1, <1>2, LockKept DEF Protected
<1>5. Directories'
  <2>1. wiped' \subseteq Releases
    BY ZenonT(40), <1>3 DEF Types, FileTypes
  <2> QED BY ZenonT(40), <1>0, <1>1, <1>2, <2>1, DirectoriesKept DEF Whole
<1>6. Leases'
  <2>1. \A r \in Releases : excl[r] # p
    BY ZenonT(40), <1>0, <1>1, NoExclusive
  <2> QED BY ZenonT(40), <1>0, <1>1, <1>2, <2>1, LeasesKept
<1>7. Publishing(p)' /\ Pruning(p)'
  BY ZenonT(40), <1>0, <1>1 DEF Publishing, Unpublished, Pruning, Pruners
<1>8. ASSUME NEW q \in Updaters, q # p PROVE Publishing(q)' /\ Pruning(q)'
  BY ZenonT(40), <1>0, <1>1, <1>2, <1>8, UpdaterFrame DEF Protected, Procs
<1>9. ASSUME NEW q \in Launchers PROVE Reading(q)'
  <2>1. q \in Procs /\ q # p
    BY ZenonT(40), <1>0 DEF Procs
  <2>2. \A r \in Releases : q \in shared'[r] <=> q \in shared[r]
    BY ZenonT(40), <1>1, <2>1
  <2> QED BY ZenonT(40), <1>1, <1>2, <2>1, <2>2, ReadingFrame
<1> QED BY ZenonT(40), <1>3, <1>4, <1>5, <1>6, <1>7, <1>8, <1>9 DEF IInv

(* The record changes: the release it named becomes the previous one. *)
LEMMA SelectKeeps ==
  ASSUME IInv, NEW p \in Updaters, Select(p)
  PROVE  IInv'
<1>0. /\ p \in Procs /\ p \notin Launchers /\ Publishing(p) /\ Pruning(p)
      /\ mine[p] \in Releases \cup {0} /\ victim[p] \in Releases \cup {0}
      /\ todo[p] \in SUBSET Releases /\ old[p] \in Records
      /\ mine[p] # 0 => dir[mine[p]] # "none"
  BY ZenonT(40), Facts
<1>1. /\ pc[p] = "select" /\ pc'[p] = "commit" /\ fd'[p] = fd[p] /\ mine'[p] = mine[p]
      /\ old'[p] = record /\ record' = Record(mine[p], record) /\ Changed
      /\ mine[p] # 0 /\ (dir[mine[p]] = "staged" \/ mine[p] \in wiped)
      /\ UNCHANGED <<dir, path, inodes, owner, shared, excl, wiped>>
  BY ZenonT(40), <1>0, Sorts DEF IInv, Types, FileTypes, LockTypes, LocalTypes, Publishing,
     Unpublished, Select, Go, locks
<1>2. \A q \in Procs : q # p => Own(q)' = Own(q)
  BY ZenonT(40), <1>0 DEF IInv, Types, LocalTypes, Own, Select, Go, locks, locals
<1>3. Types'
  <2>1. FileTypes'
    BY ZenonT(40), <1>0, <1>1 DEF IInv, Types, FileTypes, Record, Records
  <2>2. LockTypes'
    BY ZenonT(40), <1>0 DEF IInv, Types, LockTypes, LocalTypes, Select, Go, locks
  <2>3. LocalTypes'
    <3>1. since' \in [Launchers -> 0..2]
      BY <1>1 DEF IInv, Types, LocalTypes, Changed
    <3> QED BY ZenonT(40), <1>0, <3>1 DEF IInv, Types, LocalTypes, FileTypes, UpdaterLabels,
               Protected, Select, Go
  <2> QED BY ZenonT(40), <2>1, <2>2, <2>3 DEF Types
<1>4. Locked'
  BY ZenonT(40), <1>0, <1>1, <1>2, LockKept DEF Protected
<1>5. Directories'
  <2>1. \A q \in Procs : mine'[q] = mine[q]
    BY ZenonT(40), <1>1, <1>2 DEF Own
  <2>2. Names(record') \subseteq Names(record) \cup {mine[p]}
    BY ZenonT(40), <1>1 DEF Names, Record
  <2> QED BY ZenonT(40), <1>1, <2>1, <2>2 DEF IInv, Directories, Good, Whole, Procs
<1>6. Leases'
  <2>1. \A r \in Releases : excl[r] # p
    BY ZenonT(40), <1>0, <1>1, NoExclusive
  <2> QED BY ZenonT(40), <1>0, <1>1, <1>2, <2>1, LeasesKept
<1>7. Publishing(p)' /\ Pruning(p)'
  <2>1. \A r \in Names(record) : Good(r)'
    BY ZenonT(40), <1>1 DEF IInv, Directories, Good
  <2>2. Publishing(p)'
    BY ZenonT(40), <1>1, <2>1 DEF Publishing, Unpublished
  <2> QED BY ZenonT(40), <1>1, <2>2 DEF Pruning, Pruners
<1>8. ASSUME NEW q \in Updaters, q # p PROVE Publishing(q)' /\ Pruning(q)'
  <2>1. pc[q] \notin Protected
    BY ZenonT(40), <1>1, <1>8, Alone DEF Protected
  <2>2. Own(q)' = Own(q)
    BY ZenonT(40), <1>2, <1>8 DEF Procs
  <2> QED BY ZenonT(40), <1>1, <1>8, <2>1, <2>2, UpdaterFrame DEF Protected
<1>9. ASSUME NEW q \in Launchers PROVE Reading(q)'
  <2>1. record.release # 0 => record.release \in Names(record')
    BY ZenonT(40), <1>0, <1>1 DEF Names, Record
  <2> QED BY ZenonT(40), <1>0, <1>1, <1>2, <2>1, ReadingChanged DEF Procs
<1> QED BY ZenonT(40), <1>3, <1>4, <1>5, <1>6, <1>7, <1>8, <1>9 DEF IInv

(* The releases to prune are none of those the record names. *)
LEMMA CommitKeeps ==
  ASSUME IInv, NEW p \in Updaters, Commit(p)
  PROVE  IInv'
<1>0. /\ p \in Procs /\ p \notin Launchers /\ Publishing(p) /\ Pruning(p)
      /\ mine[p] \in Releases \cup {0} /\ victim[p] \in Releases \cup {0}
      /\ todo[p] \in SUBSET Releases /\ old[p] \in Records
      /\ mine[p] # 0 => dir[mine[p]] # "none"
  BY ZenonT(40), Facts
<1>1. /\ pc[p] = "commit" /\ pc'[p] = "prune" /\ fd'[p] = fd[p] /\ mine'[p] = mine[p]
      /\ mine[p] # 0 /\ mine[p] \in Releases /\ (dir[mine[p]] = "staged" \/ mine[p] \in wiped)
      /\ record = Record(mine[p], old[p])
      /\ \A r \in Releases : dir'[r] = IF r = mine[p] /\ dir[r] = "staged" THEN "published" ELSE dir[r]
      /\ todo'[p] = {r \in Releases : Eligible(p, r) \/ Retired(r)}
      /\ UNCHANGED <<record, path, inodes, owner, shared, excl, wiped, since>>
  BY ZenonT(40), <1>0, Sorts DEF IInv, Types, FileTypes, LockTypes, LocalTypes, Publishing,
     Unpublished, Commit, Go, locks, ghosts
<1>2. \A q \in Procs : q # p => Own(q)' = Own(q)
  BY ZenonT(40), <1>0 DEF IInv, Types, LocalTypes, Own, Commit, Go, locks, ghosts, locals
<1>3. Types'
  <2>1. FileTypes'
    BY ZenonT(40), <1>0, Sorts DEF IInv, Types, FileTypes, LocalTypes, Dirs, Commit, Go, locks,
       ghosts
  <2>2. LockTypes'
    BY ZenonT(40), <1>0 DEF IInv, Types, LockTypes, LocalTypes, Commit, Go, locks, ghosts
  <2>3. LocalTypes'
    BY ZenonT(40), <1>0, Sorts DEF IInv, Types, LocalTypes, FileTypes, UpdaterLabels,
       LauncherLabels, Protected, Records, NoRecord, Commit, Go, locks, ghosts
  <2> QED BY ZenonT(40), <2>1, <2>2, <2>3 DEF Types
<1>4. Locked'
  BY ZenonT(40), <1>0, <1>1, <1>2, LockKept DEF Protected
<1>5. Directories'
  <2>1. \A r \in Releases : dir'[r] = dir[r] \/ dir'[r] = "published"
    BY ZenonT(40), <1>1
  <2>2. wiped' \subseteq Releases
    BY ZenonT(40), <1>3 DEF Types, FileTypes
  <2> QED BY ZenonT(40), <1>0, <1>1, <1>2, <2>1, <2>2, DirectoriesKept DEF Whole
<1>6. Leases'
  <2>1. \A r \in Releases : excl[r] # p
    BY ZenonT(40), <1>0, <1>1, NoExclusive
  <2> QED BY ZenonT(40), <1>0, <1>1, <1>2, <2>1, LeasesKept
<1>7. Publishing(p)' /\ Pruning(p)'
  <2>1. record.release = mine[p] /\ Names(record) \subseteq Kept(p)
    BY ZenonT(40), <1>1 DEF Record, Names, Kept
  <2>2. ASSUME NEW r \in todo'[p]
        PROVE  /\ r \in Releases /\ dir'[r] = dir[r]
               /\ dir[r] \in Prunable
               /\ r \in Names(record) => r \in wiped
    <3>1. r \in Releases /\ (Eligible(p, r) \/ Retired(r))
      BY ZenonT(40), <1>1, <2>2
    <3>2. dir[r] \in Prunable /\ dir'[r] = dir[r]
      BY ZenonT(40), <1>1, <3>1 DEF Eligible, Retired, Prunable
    <3>3. CASE Eligible(p, r)
      BY ZenonT(40), <2>1, <3>1, <3>2, <3>3 DEF Eligible
    <3>4. CASE Retired(r)
      BY ZenonT(40), <3>1, <3>2, <3>4 DEF IInv, Directories, Good, Whole, Retired
    <3> QED BY ZenonT(40), <3>1, <3>3, <3>4
  <2> QED BY ZenonT(40), <1>1, <2>1, <2>2 DEF Publishing, Unpublished, Pruning, Pruners
<1>8. ASSUME NEW q \in Updaters, q # p PROVE Publishing(q)' /\ Pruning(q)'
  BY ZenonT(40), <1>0, <1>1, <1>2, <1>8, UpdaterFrame DEF Protected, Procs
<1>9. ASSUME NEW q \in Launchers PROVE Reading(q)'
  <2>1. pc'[q] = pc[q] /\ mine'[q] = mine[q] /\ direct'[q] = direct[q]
    BY ZenonT(40), <1>0, <1>2 DEF Own, Procs
  <2>2. mine[q] \in Releases \cup {0} /\ Reading(q) /\ Own(q)' = Own(q)
    BY ZenonT(40), <1>0, <1>2 DEF IInv, Types, LocalTypes, Procs
  <2>3. CASE mine[q] = mine[p] /\ dir[mine[p]] = "staged"
    <3>1. dir'[mine[q]] = "published" /\ record.release = mine[q]
      BY ZenonT(40), <1>1, <2>3 DEF Record
    <3>2. Covered(q)'
      BY ZenonT(40), <1>1, <2>1, <3>1 DEF Covered, Names
    <3> QED BY ZenonT(40), <1>1, <2>1, <2>2, <2>3, <3>1, <3>2 DEF Reading, Stray
  <2>4. CASE ~(mine[q] = mine[p] /\ dir[mine[p]] = "staged")
    <3>1. mine[q] # 0 => dir'[mine[q]] = dir[mine[q]]
      BY ZenonT(40), <1>1, <2>2, <2>4
    <3> QED BY ZenonT(40), <1>1, <2>2, <3>1, ReadingFrame
  <2> QED BY ZenonT(40), <2>3, <2>4
<1> QED BY ZenonT(40), <1>3, <1>4, <1>5, <1>6, <1>7, <1>8, <1>9 DEF IInv

(* The record is put back, or is not. *)
LEMMA RollbackKeeps ==
  ASSUME IInv, NEW p \in Updaters, Rollback(p)
  PROVE  IInv'
<1>0. /\ p \in Procs /\ p \notin Launchers /\ Publishing(p) /\ Pruning(p)
      /\ mine[p] \in Releases \cup {0} /\ victim[p] \in Releases \cup {0}
      /\ todo[p] \in SUBSET Releases /\ old[p] \in Records
      /\ mine[p] # 0 => dir[mine[p]] # "none"
  BY ZenonT(40), Facts
<1>1. /\ pc[p] = "commit" /\ pc'[p] = "idle" /\ mine'[p] = 0
      /\ mine[p] # 0 /\ mine[p] \in Releases /\ (dir[mine[p]] = "staged" \/ mine[p] \in wiped)
      /\ record = Record(mine[p], old[p]) /\ record' \in {old[p], record}
      /\ \A r \in Names(old[p]) : Good(r)
      /\ \A i \in Inodes : owner'[i] = IF owner[i] = p THEN Nobody ELSE owner[i]
      /\ \A r \in Releases : /\ shared'[r] = shared[r] \ {p}
                             /\ excl'[r] = IF excl[r] = p THEN Nobody ELSE excl[r]
      /\ \A q \in Launchers : since'[q] = since[q]
      /\ UNCHANGED <<dir, path, inodes, wiped>>
  BY ZenonT(40), <1>0, Sorts DEF IInv, Types, FileTypes, LockTypes, LocalTypes, Publishing,
     Unpublished, Rollback, Go, Return, Unlock
<1>2. \A q \in Procs : q # p => Own(q)' = Own(q)
  BY ZenonT(40), <1>0 DEF IInv, Types, LocalTypes, Own, Rollback, Go, Return, Unlock, locals
<1>3. Types'
  <2>1. FileTypes'
    BY ZenonT(40), <1>0, <1>1 DEF IInv, Types, FileTypes
  <2>2. LockTypes'
    BY ZenonT(40), <1>0 DEF IInv, Types, LockTypes, LocalTypes, Rollback, Go, Return, Unlock,
       locks
  <2>3. LocalTypes'
    BY ZenonT(40), <1>0, Sorts DEF IInv, Types, LocalTypes, FileTypes, UpdaterLabels,
       LauncherLabels, Protected, Records, NoRecord, Rollback, Go, Return, Unlock
  <2> QED BY ZenonT(40), <2>1, <2>2, <2>3 DEF Types
<1>4. Locked'
  BY ZenonT(40), <1>0, <1>1, <1>2, LockLeft
<1>5. Directories'
  <2>1. \A q \in Procs : q # p => mine'[q] = mine[q]
    BY ZenonT(40), <1>2 DEF Own
  <2>2. \A r \in Names(record') : Good(r)'
    BY ZenonT(40), <1>1 DEF IInv, Directories, Good
  <2>3. \A q \in Updaters : mine'[q] # 0 => mine'[q] = mine[q]
    BY ZenonT(40), <1>1, <2>1 DEF Procs
  <2> QED BY <1>1, <2>2, <2>3 DEF IInv, Directories
<1>6. Leases'
  <2>1. \A r \in Releases : excl[r] # p
    BY ZenonT(40), <1>0, <1>1, NoExclusive
  <2> QED BY <1>0, <1>1, <1>2, <2>1, LeasesKept
<1>7. Publishing(p)' /\ Pruning(p)'
  BY ZenonT(40), <1>1 DEF Publishing, Unpublished, Pruning, Pruners
<1>8. ASSUME NEW q \in Updaters, q # p PROVE Publishing(q)' /\ Pruning(q)'
  <2>1. pc[q] \notin Protected
    BY ZenonT(40), <1>1, <1>8, Alone DEF Protected
  <2>2. Own(q)' = Own(q)
    BY ZenonT(40), <1>2, <1>8 DEF Procs
  <2> QED BY ZenonT(40), <1>1, <1>8, <2>1, <2>2, UpdaterFrame DEF Protected
<1>9. ASSUME NEW q \in Launchers PROVE Reading(q)'
  <2>1. pc'[q] = pc[q] /\ mine'[q] = mine[q] /\ direct'[q] = direct[q]
    BY ZenonT(40), <1>0, <1>2 DEF Own, Procs
  <2>2. mine[q] \in Releases \cup {0} /\ Reading(q) /\ q # p
    BY ZenonT(40), <1>0 DEF IInv, Types, LocalTypes, Procs
  <2>3. record.release = mine[p] /\ Names(record) \subseteq Names(old[p]) \cup {mine[p]}
    BY ZenonT(40), <1>1 DEF Record, Names
  <2>4. mine[q] # 0 /\ Covered(q) => Covered(q)'
    <3>1. CASE mine[q] = mine[p]
      BY ZenonT(40), <1>1, <2>1, <3>1 DEF Covered
    <3>2. CASE mine[q] # mine[p]
      BY ZenonT(40), <1>1, <2>1, <2>2, <2>3, <3>2 DEF Covered
    <3> QED BY ZenonT(40), <3>1, <3>2
  <2>5. \A r \in Releases : q \in shared'[r] <=> q \in shared[r]
    BY ZenonT(40), <1>1, <2>2
  <2>6. mine[q] # 0 => (Stray(q)' <=> Stray(q))
    BY ZenonT(40), <1>1, <2>1, <2>2, <2>5 DEF Stray
  <2> QED BY ZenonT(40), <1>1, <2>1, <2>2, <2>4, <2>5, <2>6 DEF Reading, Reads
<1> QED BY ZenonT(40), <1>3, <1>4, <1>5, <1>6, <1>7, <1>8, <1>9 DEF IInv

(* A leased release is left alone. *)
LEMMA PruneSkipKeeps ==
  ASSUME IInv, NEW p \in Updaters, PruneSkip(p)
  PROVE  IInv'
<1>0. /\ p \in Procs /\ p \notin Launchers /\ Publishing(p) /\ Pruning(p)
      /\ mine[p] \in Releases \cup {0} /\ victim[p] \in Releases \cup {0}
      /\ todo[p] \in SUBSET Releases /\ old[p] \in Records
      /\ mine[p] # 0 => dir[mine[p]] # "none"
  BY ZenonT(40), Facts
<1>1. /\ pc[p] = "prune" /\ pc'[p] = "prune" /\ fd'[p] = fd[p] /\ mine'[p] = mine[p]
      /\ todo'[p] \subseteq todo[p]
      /\ UNCHANGED <<dir, record, path, inodes, owner, shared, excl, wiped, since>>
  BY <1>0, Sorts DEF IInv, Types, FileTypes, LockTypes, LocalTypes, PruneSkip, Visit, files,
     locks, ghosts
<1>2. \A q \in Procs : q # p => Own(q)' = Own(q)
  BY ZenonT(40), <1>0 DEF IInv, Types, LocalTypes, Own, PruneSkip, Visit, files, locks, ghosts,
     locals
<1>3. Types'
  <2>1. FileTypes'
    BY ZenonT(40), <1>0, Sorts DEF IInv, Types, FileTypes, LocalTypes, Dirs, PruneSkip, Visit,
       files, locks, ghosts
  <2>2. LockTypes'
    BY ZenonT(40), <1>0 DEF IInv, Types, LockTypes, LocalTypes, PruneSkip, Visit, files, locks,
       ghosts
  <2>3. LocalTypes'
    <3>1. todo' \in [Procs -> SUBSET Releases]
      BY ZenonT(40), <1>0 DEF IInv, Types, LocalTypes, PruneSkip, Visit
    <3> QED BY ZenonT(40), <3>1 DEF IInv, Types, LocalTypes, PruneSkip, ghosts
  <2> QED BY ZenonT(40), <2>1, <2>2, <2>3 DEF Types
<1>4. Locked'
  BY ZenonT(40), <1>0, <1>1, <1>2, LockKept DEF Protected
<1>5. Directories'
  <2>1. wiped' \subseteq Releases
    BY ZenonT(40), <1>3 DEF Types, FileTypes
  <2> QED BY ZenonT(40), <1>0, <1>1, <1>2, <2>1, DirectoriesKept DEF Whole
<1>6. Leases'
  <2>1. \A r \in Releases : excl[r] # p
    BY ZenonT(40), <1>0, <1>1, NoExclusive
  <2> QED BY ZenonT(40), <1>0, <1>1, <1>2, <2>1, LeasesKept
<1>7. Publishing(p)' /\ Pruning(p)'
  BY ZenonT(40), <1>0, <1>1 DEF Publishing, Unpublished, Pruning, Pruners
<1>8. ASSUME NEW q \in Updaters, q # p PROVE Publishing(q)' /\ Pruning(q)'
  BY ZenonT(40), <1>0, <1>1, <1>2, <1>8, UpdaterFrame DEF Protected, Procs
<1>9. ASSUME NEW q \in Launchers PROVE Reading(q)'
  BY ZenonT(40), <1>0, <1>1, <1>2, ReadingFrame DEF Procs
<1> QED BY ZenonT(40), <1>3, <1>4, <1>5, <1>6, <1>7, <1>8, <1>9 DEF IInv

(* The exclusive lease of a release that nobody runs. *)
LEMMA PruneLockKeeps ==
  ASSUME IInv, NEW p \in Updaters, PruneLock(p)
  PROVE  IInv'
<1>0. /\ p \in Procs /\ p \notin Launchers /\ Publishing(p) /\ Pruning(p)
      /\ mine[p] \in Releases \cup {0} /\ victim[p] \in Releases \cup {0}
      /\ todo[p] \in SUBSET Releases /\ old[p] \in Records
      /\ mine[p] # 0 => dir[mine[p]] # "none"
  BY ZenonT(40), Facts
<1>p. PICK v \in todo[p] : ~Retired(v) /\ shared[v] = {} /\ excl[v] = Nobody /\ excl' = [excl EXCEPT ![v] = p] /\ victim' = [victim EXCEPT ![p] = v]
  BY ZenonT(40) DEF PruneLock
<1>1. /\ pc[p] = "prune" /\ pc'[p] = "retireLease" /\ fd'[p] = fd[p] /\ mine'[p] = mine[p]
      /\ v \in Releases /\ v \in todo[p] /\ ~Retired(v) /\ shared[v] = {} /\ excl[v] = Nobody
      /\ victim'[p] = v /\ todo'[p] = todo[p]
      /\ \A r \in Releases : excl'[r] = IF r = v THEN p ELSE excl[r]
      /\ UNCHANGED <<dir, record, path, inodes, owner, shared, wiped, since>>
  BY <1>0, <1>p, Sorts DEF IInv, Types, FileTypes, LockTypes, LocalTypes, PruneLock, Go, files,
     ghosts
<1>2. \A q \in Procs : q # p => Own(q)' = Own(q)
  BY ZenonT(40), <1>0, <1>p DEF IInv, Types, LocalTypes, Own, PruneLock, Go, files, ghosts,
     locals
<1>3. Types'
  <2>1. FileTypes'
    BY ZenonT(40), <1>0, <1>p, Sorts DEF IInv, Types, FileTypes, LocalTypes, Dirs, PruneLock,
       Go, files, ghosts
  <2>2. LockTypes'
    BY ZenonT(40), <1>0, <1>p DEF IInv, Types, LockTypes, LocalTypes, PruneLock, Go, files,
       ghosts, locks
  <2>3. LocalTypes'
    BY ZenonT(40), <1>0, <1>p, Sorts DEF IInv, Types, LocalTypes, FileTypes, UpdaterLabels,
       LauncherLabels, Protected, Records, NoRecord, PruneLock, Go, files, ghosts
  <2> QED BY ZenonT(40), <2>1, <2>2, <2>3 DEF Types
<1>4. Locked'
  BY ZenonT(40), <1>0, <1>1, <1>2, LockKept DEF Protected
<1>5. Directories'
  <2>1. wiped' \subseteq Releases
    BY ZenonT(40), <1>3 DEF Types, FileTypes
  <2> QED BY ZenonT(40), <1>0, <1>1, <1>2, <2>1, DirectoriesKept DEF Whole
<1>6. Leases'
  <2>1. \A q \in Procs : q # p => pc'[q] = pc[q] /\ victim'[q] = victim[q]
    BY ZenonT(40), <1>2 DEF Own
  <2>2. \A r \in Releases : excl[r] # p
    BY ZenonT(40), <1>0, <1>1, NoExclusive
  <2>3. ASSUME NEW r \in Releases, excl'[r] # Nobody
        PROVE  /\ shared'[r] = {} /\ excl'[r] \in Updaters
               /\ pc'[excl'[r]] = "retireLease" /\ victim'[excl'[r]] = r
    <3>1. CASE r = v
      BY ZenonT(40), <1>1, <3>1
    <3>2. CASE r # v
      <4>1. excl'[r] = excl[r] /\ excl[r] # p /\ shared'[r] = shared[r]
        BY ZenonT(40), <1>1, <2>2, <3>2
      <4> QED BY <2>1, <2>3, <4>1 DEF IInv, Leases, Procs
    <3> QED BY ZenonT(40), <3>1, <3>2
  <2> QED BY ZenonT(40), <2>3 DEF Leases
<1>7. Publishing(p)' /\ Pruning(p)'
  BY ZenonT(40), <1>0, <1>1 DEF Publishing, Unpublished, Pruning, Pruners, Retired
<1>8. ASSUME NEW q \in Updaters, q # p PROVE Publishing(q)' /\ Pruning(q)'
  BY ZenonT(40), <1>0, <1>1, <1>2, <1>8, UpdaterFrame DEF Protected, Procs
<1>9. ASSUME NEW q \in Launchers PROVE Reading(q)'
  BY ZenonT(40), <1>0, <1>1, <1>2, ReadingFrame DEF Procs
<1> QED BY ZenonT(40), <1>3, <1>4, <1>5, <1>6, <1>7, <1>8, <1>9 DEF IInv

(* The lease loses its name while no launcher has it. *)
LEMMA RetireLeaseKeeps ==
  ASSUME IInv, NEW p \in Updaters, RetireLease(p)
  PROVE  IInv'
<1>0. /\ p \in Procs /\ p \notin Launchers /\ Publishing(p) /\ Pruning(p)
      /\ mine[p] \in Releases \cup {0} /\ victim[p] \in Releases \cup {0}
      /\ todo[p] \in SUBSET Releases /\ old[p] \in Records
      /\ mine[p] # 0 => dir[mine[p]] # "none"
  BY ZenonT(40), Facts
<1>1. /\ pc[p] = "retireLease" /\ pc'[p] = "renameDir" /\ fd'[p] = fd[p] /\ mine'[p] = mine[p]
      /\ victim[p] \in Releases /\ victim[p] \in todo[p] /\ record.release # 0
      /\ dir[victim[p]] \in Prunable
      /\ victim[p] \in Names(record) => victim[p] \in wiped
      /\ \A r \in todo[p] : /\ dir[r] \in Prunable
                            /\ r \in Names(record) => r \in wiped
      /\ excl[victim[p]] = p /\ shared[victim[p]] = {} /\ dir[victim[p]] # "scraps"
      /\ todo'[p] = todo[p] /\ victim'[p] = victim[p]
      /\ \A r \in Releases : /\ dir'[r] = IF r = victim[p] THEN "retiring" ELSE dir[r]
                             /\ excl'[r] = IF r = victim[p] THEN Nobody ELSE excl[r]
      /\ UNCHANGED <<record, path, inodes, owner, shared, wiped, since>>
  BY <1>0, Sorts DEF IInv, Types, FileTypes, LockTypes, LocalTypes, Pruning, Pruners, Leases,
     Retired, RetireLease, Go, locals, ghosts
<1>2. \A q \in Procs : q # p => Own(q)' = Own(q)
  BY ZenonT(40), <1>0 DEF IInv, Types, LocalTypes, Own, RetireLease, Go, locals, ghosts
<1>3. Types'
  <2>1. FileTypes'
    BY ZenonT(40), <1>0, Sorts DEF IInv, Types, FileTypes, LocalTypes, Dirs, RetireLease, Go,
       locals, ghosts
  <2>2. LockTypes'
    BY ZenonT(40), <1>0 DEF IInv, Types, LockTypes, LocalTypes, RetireLease, Go, locals, ghosts,
       locks
  <2>3. LocalTypes'
    BY ZenonT(40), <1>0, Sorts DEF IInv, Types, LocalTypes, FileTypes, UpdaterLabels,
       LauncherLabels, Protected, Records, NoRecord, RetireLease, Go, locals, ghosts
  <2> QED BY ZenonT(40), <2>1, <2>2, <2>3 DEF Types
<1>4. Locked'
  BY ZenonT(40), <1>0, <1>1, <1>2, LockKept DEF Protected
<1>5. Directories'
  <2>1. wiped' \subseteq Releases
    BY ZenonT(40), <1>3 DEF Types, FileTypes
  <2> QED BY ZenonT(40), <1>0, <1>1, <1>2, <2>1, DirectoriesKept DEF Whole
<1>6. Leases'
  <2>1. \A r \in Releases : excl[r] = p => r = victim[p]
    BY ZenonT(40), <1>0, Sorts DEF IInv, Leases
  <2> QED BY ZenonT(40), <1>0, <1>1, <1>2, <2>1, LeasesKept
<1>7. Publishing(p)' /\ Pruning(p)'
  BY ZenonT(40), <1>0, <1>1 DEF Publishing, Unpublished, Pruning, Pruners, Prunable
<1>8. ASSUME NEW q \in Updaters, q # p PROVE Publishing(q)' /\ Pruning(q)'
  BY ZenonT(40), <1>0, <1>1, <1>2, <1>8, UpdaterFrame DEF Prunable, Protected, Procs
<1>9. ASSUME NEW q \in Launchers PROVE Reading(q)'
  BY ZenonT(40), <1>0, <1>1, <1>2, ReadingPruned DEF Procs
<1> QED BY ZenonT(40), <1>3, <1>4, <1>5, <1>6, <1>7, <1>8, <1>9 DEF IInv

(* The directory is renamed. *)
LEMMA RenameDirectoryKeeps ==
  ASSUME IInv, NEW p \in Updaters, RenameDirectory(p)
  PROVE  IInv'
<1>0. /\ p \in Procs /\ p \notin Launchers /\ Publishing(p) /\ Pruning(p)
      /\ mine[p] \in Releases \cup {0} /\ victim[p] \in Releases \cup {0}
      /\ todo[p] \in SUBSET Releases /\ old[p] \in Records
      /\ mine[p] # 0 => dir[mine[p]] # "none"
  BY ZenonT(40), Facts
<1>1. /\ pc[p] = "renameDir" /\ pc'[p] = "removeDir" /\ fd'[p] = fd[p] /\ mine'[p] = mine[p]
      /\ victim[p] \in Releases /\ victim[p] \in todo[p] /\ record.release # 0
      /\ dir[victim[p]] \in Prunable
      /\ victim[p] \in Names(record) => victim[p] \in wiped
      /\ \A r \in todo[p] : /\ dir[r] \in Prunable
                            /\ r \in Names(record) => r \in wiped
      /\ dir[victim[p]] = "retiring"
      /\ todo'[p] = todo[p] /\ victim'[p] = victim[p]
      /\ \A r \in Releases : dir'[r] = IF r = victim[p] THEN "retired" ELSE dir[r]
      /\ UNCHANGED <<record, path, inodes, owner, shared, excl, wiped, since>>
  BY <1>0, Sorts DEF IInv, Types, FileTypes, LockTypes, LocalTypes, Pruning, Pruners,
     RenameDirectory, Go, locks, locals, ghosts
<1>2. \A q \in Procs : q # p => Own(q)' = Own(q)
  BY ZenonT(40), <1>0 DEF IInv, Types, LocalTypes, Own, RenameDirectory, Go, locks, locals,
     ghosts
<1>3. Types'
  <2>1. FileTypes'
    BY ZenonT(40), <1>0, Sorts DEF IInv, Types, FileTypes, LocalTypes, Dirs, RenameDirectory,
       Go, locks, locals, ghosts
  <2>2. LockTypes'
    BY ZenonT(40), <1>0 DEF IInv, Types, LockTypes, LocalTypes, RenameDirectory, Go, locks,
       locals, ghosts
  <2>3. LocalTypes'
    BY ZenonT(40), <1>0, Sorts DEF IInv, Types, LocalTypes, FileTypes, UpdaterLabels,
       LauncherLabels, Protected, Records, NoRecord, RenameDirectory, Go, locks, locals, ghosts
  <2> QED BY ZenonT(40), <2>1, <2>2, <2>3 DEF Types
<1>4. Locked'
  BY ZenonT(40), <1>0, <1>1, <1>2, LockKept DEF Protected
<1>5. Directories'
  <2>1. wiped' \subseteq Releases
    BY ZenonT(40), <1>3 DEF Types, FileTypes
  <2> QED BY ZenonT(40), <1>0, <1>1, <1>2, <2>1, DirectoriesKept DEF Whole
<1>6. Leases'
  <2>1. \A r \in Releases : excl[r] # p
    BY ZenonT(40), <1>0, <1>1, NoExclusive
  <2> QED BY ZenonT(40), <1>0, <1>1, <1>2, <2>1, LeasesKept
<1>7. Publishing(p)' /\ Pruning(p)'
  BY ZenonT(40), <1>0, <1>1 DEF Publishing, Unpublished, Pruning, Pruners, Prunable
<1>8. ASSUME NEW q \in Updaters, q # p PROVE Publishing(q)' /\ Pruning(q)'
  BY ZenonT(40), <1>0, <1>1, <1>2, <1>8, UpdaterFrame DEF Protected, Procs
<1>9. ASSUME NEW q \in Launchers PROVE Reading(q)'
  BY ZenonT(40), <1>0, <1>1, <1>2, ReadingPruned DEF Procs
<1> QED BY ZenonT(40), <1>3, <1>4, <1>5, <1>6, <1>7, <1>8, <1>9 DEF IInv

(* Names of the retired directory are removed. *)
LEMMA RemoveEntriesKeeps ==
  ASSUME IInv, NEW p \in Updaters, RemoveEntries(p)
  PROVE  IInv'
<1>0. /\ p \in Procs /\ p \notin Launchers /\ Publishing(p) /\ Pruning(p)
      /\ mine[p] \in Releases \cup {0} /\ victim[p] \in Releases \cup {0}
      /\ todo[p] \in SUBSET Releases /\ old[p] \in Records
      /\ mine[p] # 0 => dir[mine[p]] # "none"
  BY ZenonT(40), Facts
<1>p. PICK v \in todo[p] : dir[v] = "retired" /\ dir' = [dir EXCEPT ![v] = "scraps"] /\ victim' = [victim EXCEPT ![p] = v]
  BY ZenonT(40) DEF RemoveEntries, Removable
<1>1. /\ pc[p] \in {"prune", "removeDir"} /\ pc'[p] = "removeDir" /\ fd'[p] = fd[p] /\ mine'[p] = mine[p]
      /\ v \in Releases /\ v \in todo[p] /\ dir[v] = "retired" /\ record.release # 0
      /\ \A r \in todo[p] : /\ dir[r] \in Prunable
                            /\ r \in Names(record) => r \in wiped
      /\ todo'[p] = todo[p] /\ victim'[p] = v
      /\ \A r \in Releases : dir'[r] = IF r = v THEN "scraps" ELSE dir[r]
      /\ UNCHANGED <<record, path, inodes, owner, shared, excl, wiped, since>>
  BY <1>0, <1>p, Sorts DEF IInv, Types, FileTypes, LockTypes, LocalTypes, Pruning, Pruners,
     RemoveEntries, Go, locks, ghosts
<1>2. \A q \in Procs : q # p => Own(q)' = Own(q)
  BY ZenonT(40), <1>0, <1>p DEF IInv, Types, LocalTypes, Own, RemoveEntries, Go, locks,
     ghosts, locals
<1>3. Types'
  <2>1. FileTypes'
    BY ZenonT(40), <1>0, <1>p, Sorts DEF IInv, Types, FileTypes, LocalTypes, Dirs,
       RemoveEntries, Go, locks, ghosts
  <2>2. LockTypes'
    BY ZenonT(40), <1>0, <1>p DEF IInv, Types, LockTypes, LocalTypes, RemoveEntries, Go,
       locks, ghosts
  <2>3. LocalTypes'
    BY ZenonT(40), <1>0, <1>p, Sorts DEF IInv, Types, LocalTypes, FileTypes, UpdaterLabels,
       LauncherLabels, Protected, Records, NoRecord, RemoveEntries, Go, locks, ghosts
  <2> QED BY ZenonT(40), <2>1, <2>2, <2>3 DEF Types
<1>4. Locked'
  BY ZenonT(40), <1>0, <1>1, <1>2, LockKept DEF Protected
<1>5. Directories'
  <2>1. wiped' \subseteq Releases
    BY ZenonT(40), <1>3 DEF Types, FileTypes
  <2> QED BY ZenonT(40), <1>0, <1>1, <1>2, <2>1, DirectoriesKept DEF Whole
<1>6. Leases'
  <2>1. \A r \in Releases : excl[r] # p
    BY ZenonT(40), <1>0, <1>1, NoExclusive
  <2> QED BY ZenonT(40), <1>0, <1>1, <1>2, <2>1, LeasesKept
<1>7. Publishing(p)' /\ Pruning(p)'
  BY ZenonT(40), <1>0, <1>1 DEF Publishing, Unpublished, Pruning, Pruners, Prunable
<1>8. ASSUME NEW q \in Updaters, q # p PROVE Publishing(q)' /\ Pruning(q)'
  BY ZenonT(40), <1>0, <1>1, <1>2, <1>8, UpdaterFrame DEF Protected, Procs
<1>9. ASSUME NEW q \in Launchers PROVE Reading(q)'
  BY ZenonT(40), <1>0, <1>1, <1>2, ReadingPruned DEF Procs
<1> QED BY ZenonT(40), <1>3, <1>4, <1>5, <1>6, <1>7, <1>8, <1>9 DEF IInv

(* The retired directory is removed. *)
LEMMA RemoveDirectoryKeeps ==
  ASSUME IInv, NEW p \in Updaters, RemoveDirectory(p)
  PROVE  IInv'
<1>0. /\ p \in Procs /\ p \notin Launchers /\ Publishing(p) /\ Pruning(p)
      /\ mine[p] \in Releases \cup {0} /\ victim[p] \in Releases \cup {0}
      /\ todo[p] \in SUBSET Releases /\ old[p] \in Records
      /\ mine[p] # 0 => dir[mine[p]] # "none"
  BY ZenonT(40), Facts
<1>p. PICK v \in todo[p] : dir[v] = "scraps" /\ dir' = [dir EXCEPT ![v] = "gone"] /\ Visit(p, v)
  BY ZenonT(40) DEF RemoveDirectory, Removable
<1>1. /\ pc[p] \in {"prune", "removeDir"} /\ pc'[p] = "prune" /\ fd'[p] = fd[p] /\ mine'[p] = mine[p]
      /\ v \in Releases /\ v \in todo[p] /\ dir[v] = "scraps" /\ record.release # 0
      /\ \A r \in todo[p] : /\ dir[r] \in Prunable
                            /\ r \in Names(record) => r \in wiped
      /\ todo'[p] = todo[p] \ {v}
      /\ \A r \in Releases : dir'[r] = IF r = v THEN "gone" ELSE dir[r]
      /\ UNCHANGED <<record, path, inodes, owner, shared, excl, wiped, since>>
  BY <1>0, <1>p, Sorts DEF IInv, Types, FileTypes, LockTypes, LocalTypes, Pruning, Pruners,
     RemoveDirectory, Go, Visit, locks, ghosts
<1>2. \A q \in Procs : q # p => Own(q)' = Own(q)
  BY ZenonT(40), <1>0, <1>p DEF IInv, Types, LocalTypes, Own, RemoveDirectory, Go, Visit, locks,
     ghosts, locals
<1>3. Types'
  <2>1. FileTypes'
    BY ZenonT(40), <1>0, <1>p, Sorts DEF IInv, Types, FileTypes, LocalTypes, Dirs,
       RemoveDirectory, Go, Visit, locks, ghosts
  <2>2. LockTypes'
    BY ZenonT(40), <1>0, <1>p DEF IInv, Types, LockTypes, LocalTypes, RemoveDirectory, Go,
       Visit, locks, ghosts
  <2>3. LocalTypes'
    BY ZenonT(40), <1>0, <1>p, Sorts DEF IInv, Types, LocalTypes, FileTypes, UpdaterLabels,
       LauncherLabels, Protected, Records, NoRecord, RemoveDirectory, Go, Visit, locks, ghosts
  <2> QED BY ZenonT(40), <2>1, <2>2, <2>3 DEF Types
<1>4. Locked'
  BY ZenonT(40), <1>0, <1>1, <1>2, LockKept DEF Protected
<1>5. Directories'
  <2>1. wiped' \subseteq Releases
    BY ZenonT(40), <1>3 DEF Types, FileTypes
  <2> QED BY ZenonT(40), <1>0, <1>1, <1>2, <2>1, DirectoriesKept DEF Whole
<1>6. Leases'
  <2>1. \A r \in Releases : excl[r] # p
    BY ZenonT(40), <1>0, <1>1, NoExclusive
  <2> QED BY ZenonT(40), <1>0, <1>1, <1>2, <2>1, LeasesKept
<1>7. Publishing(p)' /\ Pruning(p)'
  BY ZenonT(40), <1>0, <1>1 DEF Publishing, Unpublished, Pruning, Pruners, Prunable
<1>8. ASSUME NEW q \in Updaters, q # p PROVE Publishing(q)' /\ Pruning(q)'
  BY ZenonT(40), <1>0, <1>1, <1>2, <1>8, UpdaterFrame DEF Protected, Procs
<1>9. ASSUME NEW q \in Launchers PROVE Reading(q)'
  BY ZenonT(40), <1>0, <1>1, <1>2, ReadingPruned DEF Procs
<1> QED BY ZenonT(40), <1>3, <1>4, <1>5, <1>6, <1>7, <1>8, <1>9 DEF IInv

(* An uninstall empties the record. *)
LEMMA RemoveRecordKeeps ==
  ASSUME IInv, NEW p \in Updaters, RemoveRecord(p)
  PROVE  IInv'
<1>0. /\ p \in Procs /\ p \notin Launchers /\ Publishing(p) /\ Pruning(p)
      /\ mine[p] \in Releases \cup {0} /\ victim[p] \in Releases \cup {0}
      /\ todo[p] \in SUBSET Releases /\ old[p] \in Records
      /\ mine[p] # 0 => dir[mine[p]] # "none"
  BY ZenonT(40), Facts
<1>1. /\ pc[p] = "wipeRecord" /\ pc'[p] = "wipe" /\ fd'[p] = fd[p] /\ mine'[p] = mine[p]
      /\ record' = NoRecord /\ Changed
      /\ UNCHANGED <<dir, path, inodes, owner, shared, excl, wiped>>
  BY ZenonT(40), <1>0, Sorts DEF IInv, Types, FileTypes, LockTypes, LocalTypes, RemoveRecord,
     Go, locks, locals
<1>2. \A q \in Procs : q # p => Own(q)' = Own(q)
  BY ZenonT(40), <1>0 DEF IInv, Types, LocalTypes, Own, RemoveRecord, Go, locks, locals
<1>3. Types'
  <2>1. FileTypes'
    BY ZenonT(40), <1>1 DEF IInv, Types, FileTypes, NoRecord, Records
  <2>2. LockTypes'
    BY ZenonT(40), <1>0 DEF IInv, Types, LockTypes, LocalTypes, RemoveRecord, Go, locks, locals
  <2>3. LocalTypes'
    <3>1. since' \in [Launchers -> 0..2]
      BY <1>1 DEF IInv, Types, LocalTypes, Changed
    <3> QED BY ZenonT(40), <1>0, <3>1 DEF IInv, Types, LocalTypes, UpdaterLabels, Protected,
               RemoveRecord, Go, locals
  <2> QED BY ZenonT(40), <2>1, <2>2, <2>3 DEF Types
<1>4. Locked'
  BY ZenonT(40), <1>0, <1>1, <1>2, LockKept DEF Protected
<1>5. Directories'
  <2>1. \A q \in Procs : mine'[q] = mine[q]
    BY ZenonT(40), <1>1, <1>2 DEF Own
  <2>2. Names(record') = {}
    BY ZenonT(40), <1>1 DEF Names, NoRecord
  <2> QED BY ZenonT(40), <1>1, <2>1, <2>2 DEF IInv, Directories, Procs
<1>6. Leases'
  <2>1. \A r \in Releases : excl[r] # p
    BY ZenonT(40), <1>0, <1>1, NoExclusive
  <2> QED BY ZenonT(40), <1>0, <1>1, <1>2, <2>1, LeasesKept
<1>7. Publishing(p)' /\ Pruning(p)'
  BY ZenonT(40), <1>1 DEF Publishing, Unpublished, Pruning, Pruners
<1>8. ASSUME NEW q \in Updaters, q # p PROVE Publishing(q)' /\ Pruning(q)'
  <2>1. pc[q] \notin Protected
    BY ZenonT(40), <1>1, <1>8, Alone DEF Protected
  <2>2. Own(q)' = Own(q)
    BY ZenonT(40), <1>2, <1>8 DEF Procs
  <2> QED BY ZenonT(40), <1>1, <1>8, <2>1, <2>2, UpdaterFrame DEF Protected
<1>9. ASSUME NEW q \in Launchers PROVE Reading(q)'
  <2>1. record'.release = 0
    BY ZenonT(40), <1>1 DEF NoRecord
  <2> QED BY ZenonT(40), <1>0, <1>1, <1>2, <2>1, ReadingChanged DEF Procs
<1> QED BY ZenonT(40), <1>3, <1>4, <1>5, <1>6, <1>7, <1>8, <1>9 DEF IInv

(* It removes a release, which is remembered as wiped. *)
LEMMA WipeKeeps ==
  ASSUME IInv, NEW p \in Updaters, Wipe(p)
  PROVE  IInv'
<1>0. /\ p \in Procs /\ p \notin Launchers /\ Publishing(p) /\ Pruning(p)
      /\ mine[p] \in Releases \cup {0} /\ victim[p] \in Releases \cup {0}
      /\ todo[p] \in SUBSET Releases /\ old[p] \in Records
      /\ mine[p] # 0 => dir[mine[p]] # "none"
  BY ZenonT(40), Facts
<1>p. PICK v \in Releases : dir' = [dir EXCEPT ![v] = IF @ = "retired" THEN "scraps" ELSE "torn"] /\ wiped' = wiped \cup {v}
  BY ZenonT(40) DEF Wipe
<1>1. /\ pc[p] = "wipe" /\ pc'[p] = "wipe" /\ fd'[p] = fd[p] /\ mine'[p] = mine[p]
      /\ wiped' = wiped \cup {v} /\ dir'[v] \in {"scraps", "torn"}
      /\ \A r \in Releases : r # v => dir'[r] = dir[r]
      /\ UNCHANGED <<record, path, inodes, owner, shared, excl, since>>
  BY ZenonT(40), <1>0, <1>p, Sorts DEF IInv, Types, FileTypes, LockTypes, LocalTypes, Wipe,
     locks, locals
<1>2. \A q \in Procs : q # p => Own(q)' = Own(q)
  BY ZenonT(40), <1>0, <1>p DEF IInv, Types, LocalTypes, Own, Wipe, locks, locals
<1>3. Types'
  <2>1. FileTypes'
    BY <1>0, <1>p, Sorts DEF IInv, Types, FileTypes, LocalTypes, Dirs, Wipe, locks, locals
  <2>2. LockTypes'
    BY ZenonT(40), <1>0, <1>p DEF IInv, Types, LockTypes, LocalTypes, Wipe, locks, locals
  <2>3. LocalTypes'
    BY ZenonT(40), <1>0, <1>p, Sorts DEF IInv, Types, LocalTypes, FileTypes, UpdaterLabels,
       LauncherLabels, Protected, Records, NoRecord, Wipe, locks, locals
  <2> QED BY ZenonT(40), <2>1, <2>2, <2>3 DEF Types
<1>4. Locked'
  BY ZenonT(40), <1>0, <1>1, <1>2, LockKept DEF Protected
<1>5. Directories'
  <2>1. wiped' \subseteq Releases
    BY ZenonT(40), <1>3 DEF Types, FileTypes
  <2> QED BY ZenonT(40), <1>0, <1>1, <1>2, <2>1, DirectoriesKept DEF Whole
<1>6. Leases'
  <2>1. \A r \in Releases : excl[r] # p
    BY ZenonT(40), <1>0, <1>1, NoExclusive
  <2> QED BY ZenonT(40), <1>0, <1>1, <1>2, <2>1, LeasesKept
<1>7. Publishing(p)' /\ Pruning(p)'
  BY ZenonT(40), <1>1 DEF Publishing, Unpublished, Pruning, Pruners
<1>8. ASSUME NEW q \in Updaters, q # p PROVE Publishing(q)' /\ Pruning(q)'
  BY ZenonT(40), <1>0, <1>1, <1>2, <1>8, UpdaterFrame DEF Protected, Procs
<1>9. ASSUME NEW q \in Launchers PROVE Reading(q)'
  <2>1. q # p /\ Own(q)' = Own(q) /\ mine[q] \in Releases \cup {0}
    BY ZenonT(40), <1>0, <1>2 DEF IInv, Types, LocalTypes, Procs
  <2>2. mine[q] # 0 /\ dir[mine[q]] \notin {"none", "partial"} =>
           \/ dir'[mine[q]] = dir[mine[q]]
           \/ mine[q] \in wiped' /\ dir'[mine[q]] \notin {"none", "partial", "legacy"}
    BY ZenonT(40), <1>1, <2>1
  <2>3. \A r \in Releases : q \in shared'[r] <=> q \in shared[r]
    BY ZenonT(40), <1>1, <2>1
  <2> QED BY ZenonT(40), <1>1, <2>1, <2>2, <2>3, ReadingFrame
<1> QED BY ZenonT(40), <1>3, <1>4, <1>5, <1>6, <1>7, <1>8, <1>9 DEF IInv

(* Nothing is left of the releases. *)
LEMMA WipeEndsKeeps ==
  ASSUME IInv, NEW p \in Updaters, WipeEnds(p)
  PROVE  IInv'
<1>0. /\ p \in Procs /\ p \notin Launchers /\ Publishing(p) /\ Pruning(p)
      /\ mine[p] \in Releases \cup {0} /\ victim[p] \in Releases \cup {0}
      /\ todo[p] \in SUBSET Releases /\ old[p] \in Records
      /\ mine[p] # 0 => dir[mine[p]] # "none"
  BY ZenonT(40), Facts
<1>1. /\ pc[p] = "wipe" /\ pc'[p] = "retireLock" /\ fd'[p] = fd[p] /\ mine'[p] = mine[p]
      /\ \A r \in Releases : \/ dir'[r] = dir[r]
                             \/ dir'[r] = "gone" /\ dir[r] = "torn" /\ r \in wiped
                             \/ dir'[r] = "gone" /\ dir[r] = "scraps"
      /\ UNCHANGED <<record, path, inodes, owner, shared, excl, wiped, since>>
  BY ZenonT(40), <1>0, Sorts DEF IInv, Types, FileTypes, LockTypes, LocalTypes, Directories,
     WipeEnds, Go, locks, locals, ghosts
<1>2. \A q \in Procs : q # p => Own(q)' = Own(q)
  BY ZenonT(40), <1>0 DEF IInv, Types, LocalTypes, Own, WipeEnds, Go, locks, locals, ghosts
<1>3. Types'
  <2>1. FileTypes'
    BY ZenonT(40), <1>0, Sorts DEF IInv, Types, FileTypes, LocalTypes, Dirs, WipeEnds, Go,
       locks, locals, ghosts
  <2>2. LockTypes'
    BY ZenonT(40), <1>0 DEF IInv, Types, LockTypes, LocalTypes, WipeEnds, Go, locks, locals,
       ghosts
  <2>3. LocalTypes'
    BY ZenonT(40), <1>0, Sorts DEF IInv, Types, LocalTypes, FileTypes, UpdaterLabels,
       LauncherLabels, Protected, Records, NoRecord, WipeEnds, Go, locks, locals, ghosts
  <2> QED BY ZenonT(40), <2>1, <2>2, <2>3 DEF Types
<1>4. Locked'
  BY ZenonT(40), <1>0, <1>1, <1>2, LockKept DEF Protected
<1>5. Directories'
  <2>1. wiped' \subseteq Releases
    BY ZenonT(40), <1>3 DEF Types, FileTypes
  <2>2. \A r \in Releases : dir[r] = "scraps" => r \in wiped \/ r \notin Names(record)
    BY ZenonT(40) DEF IInv, Directories, Good, Whole
  <2> QED BY ZenonT(40), <1>0, <1>1, <1>2, <2>1, <2>2, DirectoriesKept DEF Whole
<1>6. Leases'
  <2>1. \A r \in Releases : excl[r] # p
    BY ZenonT(40), <1>0, <1>1, NoExclusive
  <2> QED BY ZenonT(40), <1>0, <1>1, <1>2, <2>1, LeasesKept
<1>7. Publishing(p)' /\ Pruning(p)'
  BY ZenonT(40), <1>1 DEF Publishing, Unpublished, Pruning, Pruners
<1>8. ASSUME NEW q \in Updaters, q # p PROVE Publishing(q)' /\ Pruning(q)'
  BY ZenonT(40), <1>0, <1>1, <1>2, <1>8, UpdaterFrame DEF Protected, Procs
<1>9. ASSUME NEW q \in Launchers PROVE Reading(q)'
  <2>1. q # p /\ Own(q)' = Own(q) /\ mine[q] \in Releases \cup {0}
    BY ZenonT(40), <1>0, <1>2 DEF IInv, Types, LocalTypes, Procs
  <2>2. mine[q] # 0 /\ dir[mine[q]] \notin {"none", "partial"} =>
           \/ dir'[mine[q]] = dir[mine[q]]
           \/ dir[mine[q]] = "scraps" /\ dir'[mine[q]] = "gone"
           \/ mine[q] \in wiped' /\ dir'[mine[q]] \notin {"none", "partial", "legacy"}
    BY ZenonT(40), <1>1, <2>1
  <2>3. \A r \in Releases : q \in shared'[r] <=> q \in shared[r]
    BY ZenonT(40), <1>1, <2>1
  <2> QED BY ZenonT(40), <1>1, <2>1, <2>2, <2>3, ReadingFrame
<1> QED BY ZenonT(40), <1>3, <1>4, <1>5, <1>6, <1>7, <1>8, <1>9 DEF IInv

(* The lock file loses its name. *)
LEMMA RetireLockKeeps ==
  ASSUME IInv, NEW p \in Updaters, RetireLock(p)
  PROVE  IInv'
<1>0. /\ p \in Procs /\ p \notin Launchers /\ Publishing(p) /\ Pruning(p)
      /\ mine[p] \in Releases \cup {0} /\ victim[p] \in Releases \cup {0}
      /\ todo[p] \in SUBSET Releases /\ old[p] \in Records
      /\ mine[p] # 0 => dir[mine[p]] # "none"
  BY ZenonT(40), Facts
<1>1. /\ pc[p] = "retireLock" /\ pc'[p] = "close" /\ mine'[p] = mine[p] /\ path' = 0 /\ inodes <= MaxUninstalls
      /\ UNCHANGED <<dir, record, inodes, owner, shared, excl, wiped, since>>
  BY ZenonT(40), <1>0, Sorts DEF IInv, Types, FileTypes, LockTypes, LocalTypes, Locked,
     RetireLock, Go, locks, locals, ghosts
<1>2. \A q \in Procs : q # p => Own(q)' = Own(q)
  BY ZenonT(40), <1>0 DEF IInv, Types, LocalTypes, Own, RetireLock, Go, locks, locals, ghosts
<1>3. Types'
  <2>1. FileTypes'
    BY ZenonT(40), <1>0, Sorts DEF IInv, Types, FileTypes, LocalTypes, Dirs, RetireLock, Go,
       locks, locals, ghosts
  <2>2. LockTypes'
    BY ZenonT(40), <1>0 DEF IInv, Types, LockTypes, LocalTypes, RetireLock, Go, locks, locals,
       ghosts
  <2>3. LocalTypes'
    BY ZenonT(40), <1>0, Sorts DEF IInv, Types, LocalTypes, FileTypes, UpdaterLabels,
       LauncherLabels, Protected, Records, NoRecord, RetireLock, Go, locks, locals, ghosts
  <2> QED BY ZenonT(40), <2>1, <2>2, <2>3 DEF Types
<1>4. Locked'
  <2>1. \A q \in Updaters : q # p => pc[q] \notin Protected
    BY ZenonT(40), <1>1, Alone DEF Protected
  <2>2. \A q \in Procs : q # p => pc'[q] = pc[q] /\ fd'[q] = fd[q] /\ job'[q] = job[q]
    BY ZenonT(40), <1>2 DEF Own
  <2>3. 0 <= inodes
    BY DEF IInv, Types, FileTypes
  <2> QED BY ZenonT(40), <1>0, <1>1, <2>1, <2>2, <2>3 DEF IInv, Locked, Procs, UpdaterLabels,
             Protected
<1>5. Directories'
  <2>1. wiped' \subseteq Releases
    BY ZenonT(40), <1>3 DEF Types, FileTypes
  <2> QED BY ZenonT(40), <1>0, <1>1, <1>2, <2>1, DirectoriesKept DEF Whole
<1>6. Leases'
  <2>1. \A r \in Releases : excl[r] # p
    BY ZenonT(40), <1>0, <1>1, NoExclusive
  <2> QED BY ZenonT(40), <1>0, <1>1, <1>2, <2>1, LeasesKept
<1>7. Publishing(p)' /\ Pruning(p)'
  BY ZenonT(40), <1>1 DEF Publishing, Unpublished, Pruning, Pruners
<1>8. ASSUME NEW q \in Updaters, q # p PROVE Publishing(q)' /\ Pruning(q)'
  BY ZenonT(40), <1>0, <1>1, <1>2, <1>8, UpdaterFrame DEF Protected, Procs
<1>9. ASSUME NEW q \in Launchers PROVE Reading(q)'
  BY ZenonT(40), <1>0, <1>1, <1>2, ReadingFrame DEF Procs
<1> QED BY ZenonT(40), <1>3, <1>4, <1>5, <1>6, <1>7, <1>8, <1>9 DEF IInv

-----------------------------------------------------------------------------
(* The launchers. *)

(* A launcher's step is judged by what the launcher itself is owed. *)
LEMMA LauncherKeeps ==
  ASSUME IInv, NEW p \in Launchers, \A q \in Procs : q # p => Own(q)' = Own(q),
         \A q \in Launchers : q # p => since'[q] = since[q],
         UNCHANGED <<files, wiped>>, mine'[p] \in Releases \cup {0},
         \A i \in Inodes : owner[i] # p => owner'[i] = owner[i],
         \A r \in Releases : /\ excl'[r] = excl[r]
                             /\ \A q \in Procs : q # p => (q \in shared'[r] <=> q \in shared[r])
                             /\ excl[r] # Nobody => shared'[r] \subseteq shared[r],
         pc'[p] \in LauncherLabels, Types', Reading(p)'
  PROVE  IInv'
<1>0. p \in Procs /\ p \notin Updaters /\ pc[p] # "retireLease"
  BY ZenonT(40), BoundsAssumption DEF IInv, Locked, LauncherLabels, Reads, Procs
<1>e. \A r \in Releases : excl'[r] = excl[r]
  BY ZenonT(40)
<1>s. \A r \in Releases : \A q \in Procs : q # p => (q \in shared'[r] <=> q \in shared[r])
  BY ZenonT(40)
<1>t. \A r \in Releases : excl[r] # Nobody => shared'[r] \subseteq shared[r]
  BY ZenonT(40)
<1>1. Locked' /\ Directories' /\ \A q \in Updaters : Publishing(q)' /\ Pruning(q)'
  BY ZenonT(40), <1>e, LauncherFrame
<1>2. \A r \in Releases : excl[r] # p
  BY ZenonT(40), <1>0, NoExclusive
<1>3. Leases'
  <2>1. \A r \in Releases : excl'[r] # Nobody =>
           excl'[r] = excl[r] /\ excl[r] # p /\ shared'[r] \subseteq shared[r]
    BY ZenonT(40), <1>e, <1>t, <1>2
  <2> QED BY ZenonT(40), <1>0, <2>1, LeasesKept
<1>4. ASSUME NEW q \in Launchers, q # p PROVE Reading(q)'
  <2>1. Own(q)' = Own(q) /\ since'[q] = since[q]
    BY ZenonT(40), <1>4 DEF Procs
  <2>2. \A r \in Releases : q \in shared'[r] <=> q \in shared[r]
    BY ZenonT(40), <1>s, <1>4 DEF Procs
  <2> QED BY ZenonT(40), <2>1, <2>2, ReadingFrame DEF files
<1> QED BY ZenonT(40), <1>1, <1>3, <1>4 DEF IInv

(* A process is gone, whatever it was at. *)
LEMMA ReturnKeeps ==
  ASSUME IInv, NEW p \in Procs, Return(p), UNCHANGED <<files, wiped>>
  PROVE  IInv'
<1>1. /\ pc'[p] = "idle" /\ mine'[p] = 0
      /\ \A i \in Inodes : owner'[i] = IF owner[i] = p THEN Nobody ELSE owner[i]
      /\ \A r \in Releases : /\ shared'[r] = shared[r] \ {p}
                             /\ excl'[r] = IF excl[r] = p THEN Nobody ELSE excl[r]
      /\ \A q \in Launchers : q # p => since'[q] = since[q]
      /\ UNCHANGED <<dir, record, path, inodes, wiped>>
  BY ZenonT(40) DEF IInv, Types, LocalTypes, Return, Unlock, Go, files
<1>2. \A q \in Procs : q # p => Own(q)' = Own(q)
  BY ZenonT(40) DEF IInv, Types, LocalTypes, Own, Return, Go
<1>3. Types'
  <2>1. FileTypes'
    BY ZenonT(40), <1>1 DEF IInv, Types, FileTypes
  <2>2. LockTypes'
    BY ZenonT(40) DEF IInv, Types, LockTypes, Return, Unlock
  <2>3. LocalTypes'
    <3>1. /\ pc' \in [Procs -> UpdaterLabels \cup LauncherLabels]
          /\ job' \in [Procs -> {"none", "prepare", "publish", "uninstall"}]
          /\ fd' \in [Procs -> Inodes \cup {0}]
      BY ZenonT(40) DEF IInv, Types, LocalTypes, Return, Go, UpdaterLabels
    <3>2. /\ mine' \in [Procs -> Releases \cup {0}]
          /\ old' \in [Procs -> Records] /\ todo' \in [Procs -> SUBSET Releases]
      BY ZenonT(40) DEF IInv, Types, LocalTypes, Return, NoRecord, Records
    <3>3. /\ victim' \in [Procs -> Releases \cup {0}] /\ direct' \in [Procs -> BOOLEAN]
      BY ZenonT(40) DEF IInv, Types, LocalTypes, Return
    <3>4. since' \in [Launchers -> 0..2]
      BY DEF IInv, Types, LocalTypes, Return
    <3> QED BY ZenonT(40), <3>1, <3>2, <3>3, <3>4 DEF LocalTypes
  <2> QED BY ZenonT(40), <2>1, <2>2, <2>3 DEF Types
<1>4. CASE p \in Updaters
  <2>0. p \notin Launchers
    BY ZenonT(40), <1>4, BoundsAssumption
  <2>1. Locked'
    BY ZenonT(40), <1>1, <1>2, LockLeft
  <2>2. wiped' \subseteq Releases
    BY ZenonT(40), <1>3 DEF Types, FileTypes
  <2>3. Directories'
    BY ZenonT(40), <1>1, <1>2, <2>2, DirectoriesKept
  <2>4. Leases'
    BY ZenonT(40), <1>1, <1>2, LeasesKept
  <2>5. Publishing(p)' /\ Pruning(p)'
    BY ZenonT(40), <1>1 DEF Publishing, Unpublished, Pruning, Pruners
  <2>6. ASSUME NEW q \in Updaters, q # p PROVE Publishing(q)' /\ Pruning(q)'
    <3>1. Own(q)' = Own(q) /\ \A r \in Releases : excl[r] = q => excl'[r] = q
      BY ZenonT(40), <1>1, <1>2, <2>6 DEF Procs
    <3> QED BY ZenonT(40), <1>1, <1>4, <2>6, <3>1, UpdaterFrame
  <2>7. ASSUME NEW q \in Launchers PROVE Reading(q)'
    <3>1. q # p /\ Own(q)' = Own(q) /\ since'[q] = since[q]
      BY ZenonT(40), <1>1, <1>2, <2>0 DEF Procs
    <3>2. \A r \in Releases : q \in shared'[r] <=> q \in shared[r]
      BY ZenonT(40), <1>1, <3>1
    <3> QED BY ZenonT(40), <1>1, <3>1, <3>2, ReadingFrame
  <2> QED BY ZenonT(40), <1>3, <2>1, <2>3, <2>4, <2>5, <2>6, <2>7 DEF IInv
<1>5. CASE p \in Launchers
  <2>1. pc[p] # "retireLease"
    BY ZenonT(40), <1>5 DEF IInv, Locked, LauncherLabels, Reads
  <2>2. \A r \in Releases : excl[r] # p
    BY ZenonT(40), <2>1, NoExclusive
  <2>3. Reading(p)'
    BY ZenonT(40), <1>1 DEF Reading, Reads
  <2>4. pc'[p] \in LauncherLabels
    BY ZenonT(40), <1>1 DEF LauncherLabels
  <2>5. \A r \in Releases : /\ excl'[r] = excl[r]
                            /\ \A q \in Procs : q # p => (q \in shared'[r] <=> q \in shared[r])
                            /\ excl[r] # Nobody => shared'[r] \subseteq shared[r]
    BY ZenonT(40), <1>1, <2>2
  <2>6. \A i \in Inodes : owner[i] # p => owner'[i] = owner[i]
    BY ZenonT(40), <1>1
  <2> QED BY ZenonT(40), <1>1, <1>2, <1>3, <1>5, <2>3, <2>4, <2>5, <2>6, LauncherKeeps
<1> QED BY ZenonT(40), <1>4, <1>5 DEF Procs

(* The record is read: what it names is whole, or is being wiped. *)
LEMMA ReadRecordKeeps ==
  ASSUME IInv, NEW p \in Launchers, ReadRecord(p)
  PROVE  IInv'
<1>0. p \in Procs /\ mine[p] \in Releases \cup {0} /\ Reading(p) /\ pc[p] \in LauncherLabels
  BY ZenonT(40) DEF IInv, Types, LocalTypes, Locked, Procs
<1>1. /\ pc[p] \in {"idle", "retry"} /\ pc'[p] = "openLease" /\ mine'[p] = record.release /\ record.release # 0 /\ since'[p] = 0
      /\ UNCHANGED <<files, wiped>>
      /\ UNCHANGED <<owner, excl, shared>>
  BY ZenonT(40), <1>0 DEF IInv, Types, LocalTypes, LockTypes, ReadRecord, Go, locks
<1>2. /\ \A q \in Procs : q # p => Own(q)' = Own(q)
      /\ \A q \in Launchers : q # p => since'[q] = since[q]
  BY ZenonT(40), <1>0 DEF IInv, Types, LocalTypes, Own, ReadRecord, Go, locks, locals, ghosts
<1>3. Types'
  <2>1. FileTypes'
    BY ZenonT(40), <1>1 DEF IInv, Types, FileTypes, files
  <2>2. LockTypes'
    BY ZenonT(40), <1>0 DEF IInv, Types, LockTypes, ReadRecord, Go, locks
  <2>3. LocalTypes'
    <3>1. record.release \in Releases \cup {0}
      BY ZenonT(40) DEF IInv, Types, FileTypes, Records
    <3> QED BY <1>0, <3>1 DEF IInv, Types, LocalTypes, LauncherLabels, Reads, ReadRecord, Go
  <2> QED BY ZenonT(40), <2>1, <2>2, <2>3 DEF Types
<1>4. mine'[p] \in Releases \cup {0} /\ pc'[p] \in LauncherLabels
  BY ZenonT(40), <1>0, <1>1, <1>3 DEF LauncherLabels, Reads, Types, LocalTypes
<1>5. Reading(p)'
  <2>1. Good(record.release) /\ record.release \in Releases
    BY ZenonT(40), <1>1 DEF IInv, Types, FileTypes, Records, Directories, Names
  <2>2. dir[record.release] \notin {"none", "partial"}
    BY ZenonT(40), <2>1 DEF IInv, Directories, Good, Whole
  <2>3. Covered(p)'
    BY ZenonT(40), <1>1, <2>1 DEF Covered, Good, Whole, files
  <2> QED BY ZenonT(40), <1>0, <1>1, <2>2, <2>3 DEF Reading, Reads, files
<1> QED BY ZenonT(40), <1>1, <1>2, <1>3, <1>4, <1>5, LauncherKeeps

(* A payload is started from its own directory. *)
LEMMA StartDirectlyKeeps ==
  ASSUME IInv, NEW p \in Launchers, StartDirectly(p)
  PROVE  IInv'
<1>0. p \in Procs /\ mine[p] \in Releases \cup {0} /\ Reading(p) /\ pc[p] \in LauncherLabels
  BY ZenonT(40) DEF IInv, Types, LocalTypes, Locked, Procs
<1>1. /\ pc[p] = "idle" /\ pc'[p] \in {"openLease", "openRetired"}
      /\ direct'[p] = TRUE /\ mine'[p] \in Releases
      /\ dir[mine'[p]] \in Whole \cup {"retiring", "torn", "retired", "scraps"}
      /\ UNCHANGED <<files, wiped>>
      /\ UNCHANGED <<owner, excl, shared>>
  BY ZenonT(40), <1>0 DEF IInv, Types, LocalTypes, LockTypes, StartDirectly, Go, locks, ghosts
<1>2. /\ \A q \in Procs : q # p => Own(q)' = Own(q)
      /\ \A q \in Launchers : q # p => since'[q] = since[q]
  BY ZenonT(40), <1>0 DEF IInv, Types, LocalTypes, Own, StartDirectly, Go, locks, ghosts, locals
<1>3. Types'
  <2>1. FileTypes'
    BY ZenonT(40), <1>1 DEF IInv, Types, FileTypes, files
  <2>2. LockTypes'
    BY ZenonT(40), <1>0 DEF IInv, Types, LockTypes, StartDirectly, Go, locks, ghosts
  <2>3. LocalTypes'
    BY ZenonT(40), <1>0 DEF IInv, Types, LocalTypes, LauncherLabels, Reads, StartDirectly, Go,
       locks, ghosts, locals
  <2> QED BY ZenonT(40), <2>1, <2>2, <2>3 DEF Types
<1>4. mine'[p] \in Releases \cup {0} /\ pc'[p] \in LauncherLabels
  BY ZenonT(40), <1>0, <1>1, <1>3 DEF LauncherLabels, Reads, Types, LocalTypes
<1>5. Reading(p)'
  BY ZenonT(40), <1>0, <1>1, Sorts DEF Reading, Reads, Whole, files
<1> QED BY ZenonT(40), <1>1, <1>2, <1>3, <1>4, <1>5, LauncherKeeps

(* The lease file is opened. *)
LEMMA OpenLeaseKeeps ==
  ASSUME IInv, NEW p \in Launchers, OpenLease(p)
  PROVE  IInv'
<1>0. p \in Procs /\ mine[p] \in Releases \cup {0} /\ Reading(p) /\ pc[p] \in LauncherLabels
  BY ZenonT(40) DEF IInv, Types, LocalTypes, Locked, Procs
<1>1. /\ pc[p] = "openLease" /\ pc'[p] = "lockLease" /\ mine'[p] = mine[p] /\ direct'[p] = direct[p]
      /\ dir[mine[p]] \in {"partial", "staged", "published", "torn"} /\ since'[p] = since[p]
      /\ UNCHANGED <<files, wiped>>
      /\ UNCHANGED <<owner, excl, shared>>
  BY ZenonT(40), <1>0 DEF IInv, Types, LocalTypes, LockTypes, OpenLease, Go, locks, locals,
     ghosts, HasLease
<1>2. /\ \A q \in Procs : q # p => Own(q)' = Own(q)
      /\ \A q \in Launchers : q # p => since'[q] = since[q]
  BY ZenonT(40), <1>0 DEF IInv, Types, LocalTypes, Own, OpenLease, Go, locks, locals, ghosts,
     HasLease
<1>3. Types'
  <2>1. FileTypes'
    BY ZenonT(40), <1>1 DEF IInv, Types, FileTypes, files
  <2>2. LockTypes'
    BY ZenonT(40), <1>0 DEF IInv, Types, LockTypes, OpenLease, Go, locks, locals, ghosts,
       HasLease
  <2>3. LocalTypes'
    BY ZenonT(40), <1>0 DEF IInv, Types, LocalTypes, LauncherLabels, Reads, OpenLease, Go,
       locks, locals, ghosts, HasLease
  <2> QED BY ZenonT(40), <2>1, <2>2, <2>3 DEF Types
<1>4. mine'[p] \in Releases \cup {0} /\ pc'[p] \in LauncherLabels
  BY ZenonT(40), <1>0, <1>1, <1>3 DEF LauncherLabels, Reads, Types, LocalTypes
<1>5. Reading(p)'
  <2>1. Covered(p)' <=> Covered(p)
    BY ZenonT(40), <1>1 DEF Covered, Names, files
  <2> QED BY ZenonT(40), <1>0, <1>1, <2>1 DEF Reading, Reads, files
<1> QED BY ZenonT(40), <1>1, <1>2, <1>3, <1>4, <1>5, LauncherKeeps

(* A legacy release has no lease and is never pruned. *)
LEMMA RunLegacyKeeps ==
  ASSUME IInv, NEW p \in Launchers, RunLegacy(p)
  PROVE  IInv'
<1>0. p \in Procs /\ mine[p] \in Releases \cup {0} /\ Reading(p) /\ pc[p] \in LauncherLabels
  BY ZenonT(40) DEF IInv, Types, LocalTypes, Locked, Procs
<1>1. /\ pc[p] = "openLease" /\ pc'[p] = "running" /\ mine'[p] = mine[p]
      /\ dir[mine[p]] \in {"legacy", "torn"}
      /\ UNCHANGED <<files, wiped>>
      /\ UNCHANGED <<owner, excl, shared>>
  BY ZenonT(40), <1>0 DEF IInv, Types, LocalTypes, LockTypes, RunLegacy, Enter, Go, locals, locks
<1>2. /\ \A q \in Procs : q # p => Own(q)' = Own(q)
      /\ \A q \in Launchers : q # p => since'[q] = since[q]
  BY ZenonT(40), <1>0 DEF IInv, Types, LocalTypes, Own, RunLegacy, Enter, Go, locks, locals,
     ghosts
<1>3. Types'
  <2>1. FileTypes'
    BY ZenonT(40), <1>1 DEF IInv, Types, FileTypes, files
  <2>2. LockTypes'
    BY ZenonT(40), <1>0 DEF IInv, Types, LockTypes, RunLegacy, Enter, Go, locks
  <2>3. LocalTypes'
    BY <1>0 DEF IInv, Types, LocalTypes, LauncherLabels, Reads, RunLegacy, Enter, Go, locks,
       locals, ghosts
  <2> QED BY ZenonT(40), <2>1, <2>2, <2>3 DEF Types
<1>4. mine'[p] \in Releases \cup {0} /\ pc'[p] \in LauncherLabels
  BY ZenonT(40), <1>0, <1>1, <1>3 DEF LauncherLabels, Reads, Types, LocalTypes
<1>5. Reading(p)'
  <2>1. mine[p] # 0 /\ (dir[mine[p]] = "torn" => mine[p] \in wiped)
    BY ZenonT(40), <1>0, <1>1 DEF Reading, IInv, Directories
  <2> QED BY ZenonT(40), <1>0, <1>1, <2>1 DEF Reading, Reads, files
<1> QED BY ZenonT(40), <1>1, <1>2, <1>3, <1>4, <1>5, LauncherKeeps

(* A retired directory that has lost its marker is taken for a legacy release. *)
LEMMA RunRetiredKeeps ==
  ASSUME IInv, NEW p \in Launchers, RunRetired(p)
  PROVE  IInv'
<1>0. p \in Procs /\ mine[p] \in Releases \cup {0} /\ Reading(p) /\ pc[p] \in LauncherLabels
  BY ZenonT(40) DEF IInv, Types, LocalTypes, Locked, Procs
<1>1. /\ pc[p] = "openRetired" /\ pc'[p] = "running" /\ mine'[p] = mine[p]
      /\ dir[mine[p]] = "scraps" /\ direct'[p] = direct[p]
      /\ UNCHANGED <<files, wiped>>
      /\ UNCHANGED <<owner, excl, shared>>
  BY ZenonT(40), <1>0 DEF IInv, Types, LocalTypes, LockTypes, RunRetired, Enter, Go, locals, locks
<1>2. /\ \A q \in Procs : q # p => Own(q)' = Own(q)
      /\ \A q \in Launchers : q # p => since'[q] = since[q]
  BY ZenonT(40), <1>0 DEF IInv, Types, LocalTypes, Own, RunRetired, Enter, Go, locks, locals,
     ghosts
<1>3. Types'
  <2>1. FileTypes'
    BY ZenonT(40), <1>1 DEF IInv, Types, FileTypes, files
  <2>2. LockTypes'
    BY ZenonT(40), <1>0 DEF IInv, Types, LockTypes, RunRetired, Enter, Go, locks
  <2>3. LocalTypes'
    BY <1>0 DEF IInv, Types, LocalTypes, LauncherLabels, Reads, RunRetired, Enter, Go, locks,
       locals, ghosts
  <2> QED BY ZenonT(40), <2>1, <2>2, <2>3 DEF Types
<1>4. mine'[p] \in Releases \cup {0} /\ pc'[p] \in LauncherLabels
  BY ZenonT(40), <1>0, <1>1, <1>3 DEF LauncherLabels, Reads, Types, LocalTypes
<1>5. Reading(p)'
  <2>1. mine[p] # 0 /\ mine[p] \in Releases /\ direct[p] /\ p \notin shared[mine[p]]
    BY ZenonT(40), <1>0, <1>1 DEF Reading
  <2>2. Stray(p)'
    BY ZenonT(40), <1>1, <2>1 DEF Stray, files
  <2> QED BY ZenonT(40), <1>0, <1>1, <2>1, <2>2 DEF Reading, Reads, files
<1> QED BY ZenonT(40), <1>1, <1>2, <1>3, <1>4, <1>5, LauncherKeeps

(* The shared lease, against no exclusive one. *)
LEMMA LockLeaseKeeps ==
  ASSUME IInv, NEW p \in Launchers, LockLease(p)
  PROVE  IInv'
<1>0. p \in Procs /\ mine[p] \in Releases \cup {0} /\ Reading(p) /\ pc[p] \in LauncherLabels
  BY ZenonT(40) DEF IInv, Types, LocalTypes, Locked, Procs
<1>m. mine[p] \in Releases
  BY ZenonT(40), <1>0 DEF Reading, LockLease
<1>1. /\ pc[p] = "lockLease" /\ pc'[p] = "validateLease" /\ mine'[p] = mine[p] /\ direct'[p] = direct[p]
      /\ since'[p] = since[p] /\ excl[mine[p]] = Nobody /\ p \in shared'[mine[p]]
      /\ \A r \in Releases : shared[r] \subseteq shared'[r] /\ (r # mine[p] => shared'[r] = shared[r])
      /\ \A r \in Releases : \A q \in Procs : q # p => (q \in shared'[r] <=> q \in shared[r])
      /\ UNCHANGED <<files, wiped>>
      /\ UNCHANGED <<owner, excl>>
  BY ZenonT(40), <1>0, <1>m DEF IInv, Types, LocalTypes, LockTypes, LockLease, Go, files,
     locals, ghosts
<1>2. /\ \A q \in Procs : q # p => Own(q)' = Own(q)
      /\ \A q \in Launchers : q # p => since'[q] = since[q]
  BY ZenonT(40), <1>0 DEF IInv, Types, LocalTypes, Own, LockLease, Go, files, locals, ghosts
<1>3. Types'
  <2>1. FileTypes'
    BY ZenonT(40), <1>1 DEF IInv, Types, FileTypes, files
  <2>2. LockTypes'
    BY ZenonT(40), <1>0 DEF IInv, Types, LockTypes, LockLease, Go, files, locals, ghosts, locks
  <2>3. LocalTypes'
    BY ZenonT(40), <1>0 DEF IInv, Types, LocalTypes, LauncherLabels, Reads, LockLease, Go,
       files, locals, ghosts
  <2> QED BY ZenonT(40), <2>1, <2>2, <2>3 DEF Types
<1>4. mine'[p] \in Releases \cup {0} /\ pc'[p] \in LauncherLabels
  BY ZenonT(40), <1>0, <1>1, <1>3 DEF LauncherLabels, Reads, Types, LocalTypes
<1>5. Reading(p)'
  <2>1. Covered(p)' <=> Covered(p)
    BY ZenonT(40), <1>1 DEF Covered, Names, files
  <2> QED BY ZenonT(40), <1>0, <1>1, <2>1 DEF Reading, Reads, files
<1>6. \A r \in Releases : /\ excl'[r] = excl[r]
                          /\ \A q \in Procs : q # p => (q \in shared'[r] <=> q \in shared[r])
                          /\ excl[r] # Nobody => shared'[r] \subseteq shared[r]
  BY ZenonT(40), <1>1, <1>m
<1> QED BY ZenonT(40), <1>1, <1>2, <1>3, <1>4, <1>5, <1>6, LauncherKeeps

(* The name is still there, and now it stays. *)
LEMMA RunKeeps ==
  ASSUME IInv, NEW p \in Launchers, Run(p)
  PROVE  IInv'
<1>0. p \in Procs /\ mine[p] \in Releases \cup {0} /\ Reading(p) /\ pc[p] \in LauncherLabels
  BY ZenonT(40) DEF IInv, Types, LocalTypes, Locked, Procs
<1>1. /\ pc[p] = "validateLease" /\ pc'[p] = "running" /\ mine'[p] = mine[p]
      /\ dir[mine[p]] \in {"partial", "staged", "published", "torn"}
      /\ UNCHANGED <<files, wiped>>
      /\ UNCHANGED <<owner, excl, shared>>
  BY ZenonT(40), <1>0 DEF IInv, Types, LocalTypes, LockTypes, Run, Enter, Go, locals, locks, HasLease
<1>2. /\ \A q \in Procs : q # p => Own(q)' = Own(q)
      /\ \A q \in Launchers : q # p => since'[q] = since[q]
  BY ZenonT(40), <1>0 DEF IInv, Types, LocalTypes, Own, Run, Enter, Go, locks, HasLease, locals,
     ghosts
<1>3. Types'
  <2>1. FileTypes'
    BY ZenonT(40), <1>1 DEF IInv, Types, FileTypes, files
  <2>2. LockTypes'
    BY ZenonT(40), <1>0 DEF IInv, Types, LockTypes, Run, Enter, Go, locks, HasLease
  <2>3. LocalTypes'
    BY <1>0 DEF IInv, Types, LocalTypes, LauncherLabels, Reads, Run, Enter, Go, locks, HasLease,
       locals, ghosts
  <2> QED BY ZenonT(40), <2>1, <2>2, <2>3 DEF Types
<1>4. mine'[p] \in Releases \cup {0} /\ pc'[p] \in LauncherLabels
  BY ZenonT(40), <1>0, <1>1, <1>3 DEF LauncherLabels, Reads, Types, LocalTypes
<1>5. Reading(p)'
  <2>1. mine[p] # 0 /\ (dir[mine[p]] = "torn" => mine[p] \in wiped)
    BY ZenonT(40), <1>0, <1>1 DEF Reading, IInv, Directories
  <2> QED BY ZenonT(40), <1>0, <1>1, <2>1 DEF Reading, Reads, files
<1> QED BY ZenonT(40), <1>1, <1>2, <1>3, <1>4, <1>5, LauncherKeeps

(* The launcher finds its release pruned: the record has changed twice. *)
LEMMA RetryKeeps ==
  ASSUME IInv, NEW p \in Launchers, MissLease(p), ~direct[p]
  PROVE  IInv'
<1>0. p \in Procs /\ mine[p] \in Releases \cup {0} /\ Reading(p) /\ pc[p] \in LauncherLabels
  BY ZenonT(40) DEF IInv, Types, LocalTypes, Locked, Procs
<1>1. /\ pc'[p] = "retry" /\ mine'[p] = mine[p] /\ since'[p] = since[p]
      /\ UNCHANGED <<files, wiped>>
      /\ \A i \in Inodes : owner[i] # p => owner'[i] = owner[i]
      /\ \A r \in Releases : shared'[r] = shared[r] \ {p} /\ excl'[r] = IF excl[r] = p THEN Nobody ELSE excl[r]
  BY <1>0 DEF IInv, Types, LocalTypes, LockTypes, MissLease, Unlock, Go, files, locals
<1>2. /\ \A q \in Procs : q # p => Own(q)' = Own(q)
      /\ \A q \in Launchers : q # p => since'[q] = since[q]
  BY ZenonT(40), <1>0 DEF IInv, Types, LocalTypes, Own, MissLease, Unlock, Go, files, locals,
     ghosts
<1>3. Types'
  <2>1. FileTypes'
    BY ZenonT(40), <1>1 DEF IInv, Types, FileTypes, files
  <2>2. LockTypes'
    BY <1>0 DEF IInv, Types, LockTypes, MissLease, Unlock, Go, files, locals, locks
  <2>3. LocalTypes'
    BY ZenonT(40), <1>0 DEF IInv, Types, LocalTypes, LauncherLabels, Reads, MissLease, Unlock,
       Go, files, locals, ghosts
  <2> QED BY ZenonT(40), <2>1, <2>2, <2>3 DEF Types
<1>4. mine'[p] \in Releases \cup {0} /\ pc'[p] \in LauncherLabels
  BY ZenonT(40), <1>0, <1>1, <1>3 DEF LauncherLabels, Reads, Types, LocalTypes
<1>5. Reading(p)'
  <2>1. pc[p] \in Reads /\ mine[p] # 0 /\ dir[mine[p]] \notin {"none", "partial"} /\ Covered(p)
    BY ZenonT(40), <1>0 DEF MissLease, Reading, Reads
  <2>2. CASE pc[p] = "openLease"
    <3>1. dir[mine[p]] \notin {"staged", "published", "legacy"}
      BY ZenonT(40), <2>2 DEF MissLease, HasLease
    <3>2. since[p] = 2 \/ mine[p] \in wiped
      BY ZenonT(40), <2>1, <3>1 DEF Covered
    <3> QED BY ZenonT(40), <1>1, <2>1, <3>2 DEF Reading, Reads, files
  <2>3. CASE pc[p] = "validateLease"
    <3>1. dir[mine[p]] \notin {"staged", "published", "legacy"}
      BY ZenonT(40), <1>0, <2>3 DEF MissLease, HasLease, Reading
    <3>2. since[p] = 2 \/ mine[p] \in wiped
      BY ZenonT(40), <2>1, <3>1 DEF Covered
    <3> QED BY ZenonT(40), <1>1, <2>1, <3>2 DEF Reading, Reads, files
  <2>4. CASE pc[p] = "lockLease"
    <3>1. mine[p] \in Releases /\ excl[mine[p]] # Nobody
      BY ZenonT(40), <1>0, <2>1, <2>4 DEF MissLease
    <3>2. PICK u \in Updaters : pc[u] = "retireLease" /\ victim[u] = mine[p]
      BY ZenonT(40), <3>1 DEF IInv, Leases
    <3>3. /\ record.release # 0 /\ (mine[p] \in Names(record) => mine[p] \in wiped)
          /\ dir[mine[p]] \in Prunable
      <4>1. Pruning(u)
        BY ZenonT(40) DEF IInv
      <4> QED BY ZenonT(40), <3>2, <4>1 DEF Pruning, Pruners
    <3>4. since[p] = 2 \/ mine[p] \in wiped
      <4>1. since[p] \in 0..2 /\ mine[p] # 0
        BY ZenonT(40), <2>1 DEF IInv, Types, LocalTypes
      <4>2. since[p] # 2 => since[p] = 0 \/ since[p] = 1
        BY <4>1
      <4> QED BY ZenonT(40), <2>1, <3>3, <4>1, <4>2 DEF Covered, Names, Prunable
    <3> QED BY ZenonT(40), <1>1, <2>1, <3>4 DEF Reading, Reads, files
  <2> QED BY ZenonT(40), <2>1, <2>2, <2>3, <2>4 DEF Reads
<1>6. \A r \in Releases : /\ excl'[r] = excl[r]
                          /\ \A q \in Procs : q # p => (q \in shared'[r] <=> q \in shared[r])
                          /\ shared'[r] \subseteq shared[r]
  <2>1. \A r \in Releases : excl[r] # p
    BY ZenonT(40), <1>0, NoExclusive DEF LauncherLabels, Reads
  <2> QED BY ZenonT(40), <1>1, <2>1
<1> QED BY ZenonT(40), <1>1, <1>2, <1>3, <1>4, <1>5, <1>6, LauncherKeeps

-----------------------------------------------------------------------------
LEMMA InitKeeps == Init => IInv
<1> SUFFICES ASSUME Init PROVE IInv
  BY ZenonT(40)
<1>1. Types
  <2>1. dir \in [Releases -> Dirs] /\ record \in Records
    BY BoundsAssumption DEF Init, NoRecord, Records, Dirs, Releases
  <2>2. FileTypes
    BY <2>1, BoundsAssumption DEF Init, FileTypes
  <2>3. LockTypes
    BY ZenonT(40) DEF Init, LockTypes
  <2>4. LocalTypes
    BY DEF Init, LocalTypes, UpdaterLabels, Records, NoRecord
  <2> QED BY ZenonT(40), <2>2, <2>3, <2>4 DEF Types
<1>2. pc = [p \in Procs |-> "idle"] /\ mine = [p \in Procs |-> 0]
  BY ZenonT(40) DEF Init
<1>3. Locked
  BY <1>2, BoundsAssumption DEF Init, Locked, Protected, UpdaterLabels, LauncherLabels, Procs
<1>4. \A r \in Releases : dir[r] # "torn"
  BY ZenonT(40) DEF Init
<1>5. \A r \in Names(record) : r \in Releases /\ dir[r] \in Whole
  BY BoundsAssumption DEF Init, Names, NoRecord, Whole, Releases
<1>6. wiped = {} /\ \A p \in Updaters : mine[p] = 0
  BY ZenonT(40), <1>2 DEF Init, Procs
<1>7. Directories
  BY ZenonT(40), <1>4, <1>5, <1>6 DEF Directories, Good
<1>8. Leases
  BY ZenonT(40) DEF Init, Leases
<1>9. \A p \in Procs : pc[p] = "idle"
  BY ZenonT(40), <1>2
<1>10. \A p \in Updaters : Publishing(p) /\ Pruning(p)
  BY ZenonT(40), <1>9 DEF Publishing, Unpublished, Pruning, Pruners, Procs
<1>11. \A p \in Launchers : Reading(p)
  BY ZenonT(40), <1>9 DEF Init, Reading, Reads, Procs
<1> QED BY ZenonT(40), <1>1, <1>3, <1>7, <1>8, <1>10, <1>11 DEF IInv

LEMMA NextKeeps == IInv /\ [Next]_vars => IInv'
<1> SUFFICES ASSUME IInv, [Next]_vars PROVE IInv'
  BY ZenonT(40)
<1>1. ASSUME NEW p \in Updaters, Begin(p, "prepare") \/ Begin(p, "uninstall") \/ OpenLock(p) \/ TakeLock(p)
      PROVE  IInv'
  BY ZenonT(40), <1>1, BeginKeeps, OpenLockKeeps, TakeLockKeeps
<1>2. ASSUME NEW p \in Procs, Return(p), UNCHANGED <<files, wiped>> PROVE IInv'
  BY ZenonT(40), <1>2, ReturnKeeps
<1>3. ASSUME NEW p \in Updaters, LockRetired(p) \/ PinFails(p) \/ PruneEnds(p) \/ CloseLock(p)
      PROVE  IInv'
  BY ZenonT(40), <1>2, <1>3 DEF LockRetired, PinFails, PruneEnds, CloseLock, Procs
<1>4. ASSUME NEW p \in Updaters, Prepare(p) PROVE IInv'
  BY ZenonT(40), <1>4, MakeDirectoryKeeps, StageKeeps, PrepareFailsKeeps DEF Prepare
<1>5. ASSUME NEW p \in Updaters, Publish(p) PROVE IInv'
  BY ZenonT(40), <1>3, <1>5, PinKeeps, SelectKeeps, CommitKeeps, RollbackKeeps DEF Publish
<1>6. ASSUME NEW p \in Updaters, Prune(p) PROVE IInv'
  BY ZenonT(40), <1>3, <1>6, PruneSkipKeeps, PruneLockKeeps, RetireLeaseKeeps,
     RenameDirectoryKeeps, RemoveEntriesKeeps,
     RemoveDirectoryKeeps DEF Prune
<1>7. ASSUME NEW p \in Updaters, Uninstall(p) PROVE IInv'
  BY ZenonT(40), <1>3, <1>7, RemoveRecordKeeps, WipeKeeps, WipeEndsKeeps, RetireLockKeeps
     DEF Uninstall
<1>8. ASSUME NEW p \in Launchers, MissLease(p) PROVE IInv'
  <2>1. CASE direct[p]
    BY ZenonT(40), <1>2, <1>8, <2>1 DEF MissLease, Procs
  <2>2. CASE ~direct[p]
    BY ZenonT(40), <1>8, <2>2, RetryKeeps
  <2> QED BY ZenonT(40), <2>1, <2>2
<1>9. ASSUME NEW p \in Launchers, Dispatch(p) PROVE IInv'
  BY ZenonT(40), <1>8, <1>9, ReadRecordKeeps, StartDirectlyKeeps, OpenLeaseKeeps,
     RunLegacyKeeps, RunRetiredKeeps,
     LockLeaseKeeps, RunKeeps DEF Dispatch
<1>10. ASSUME NEW p \in Procs, Stop(p) PROVE IInv'
  BY ZenonT(40), <1>2, <1>10 DEF Stop
<1>11. ASSUME UNCHANGED vars PROVE IInv'
  <2>1. /\ UNCHANGED <<dir, record, path, inodes, owner, shared, excl, pc, job, fd, mine>>
        /\ UNCHANGED <<old, todo, victim, direct, wiped, since>>
    BY ZenonT(40), <1>11 DEF vars, files, locks, locals, ghosts
  <2>2. Types' /\ Locked'
    BY ZenonT(40), <2>1 DEF IInv, Types, FileTypes, LockTypes, LocalTypes, Locked
  <2>3. Directories' /\ Leases'
    BY ZenonT(40), <2>1 DEF IInv, Directories, Leases, Good, Names
  <2>4. \A p \in Updaters : Publishing(p)' /\ Pruning(p)'
    BY ZenonT(40), <2>1 DEF IInv, Publishing, Unpublished, Pruning, Retired, Good, Names
  <2>5. \A p \in Launchers : Reading(p)'
    BY ZenonT(40), <2>1 DEF IInv, Reading, Stray, Covered, Names
  <2> QED BY ZenonT(40), <2>2, <2>3, <2>4, <2>5 DEF IInv
<1>12. CASE Next
  BY ZenonT(40), <1>1, <1>3, <1>4, <1>5, <1>6, <1>7, <1>9, <1>10, <1>12 DEF Next
<1> QED BY ZenonT(40), <1>11, <1>12

LEMMA Invariance == Spec => []IInv
  BY InitKeeps, NextKeeps, PTL DEF Spec

(* The publication lock excludes, however many updaters there are and      *)
(* however often an uninstall takes its file away (filelock.go,            *)
(* acquireOpened and Retire).                                              *)
THEOREM PublicationExcludes == Spec => []PublicationIsExclusive
<1>1. IInv => PublicationIsExclusive
  BY ZenonT(40), Alone DEF PublicationIsExclusive
<1> QED BY <1>1, Invariance, PTL

(* No pruner takes a release away from a payload that runs, unless it was  *)
(* started directly and took a directory being removed for a legacy        *)
(* release: selectedLease and pinProcess against pruneReleases (leases.go). *)
THEOREM RunningStaysWhole == Spec => []RunningIsWhole
<1>1. IInv => RunningIsWhole
  BY ZenonT(40) DEF IInv, Reading, RunningIsWhole, Whole
<1> QED BY <1>1, Invariance, PTL

(* The record names whole releases whatever step a publisher or a pruner   *)
(* died at (release.go, Publish and rollbackSelection).                    *)
THEOREM SelectedStaysWhole == Spec => []SelectedIsWhole
<1>1. IInv => SelectedIsWhole
  BY ZenonT(40) DEF IInv, Directories, Good, Names, SelectedIsWhole
<1> QED BY <1>1, Invariance, PTL

(* A launcher retries only after two changes of the record, or when an     *)
(* uninstall removes what it read (leases.go, selectedLease).              *)
THEOREM LaunchStaysPatient == Spec => []LaunchIsPatient
<1>1. IInv => LaunchIsPatient
  BY ZenonT(40) DEF IInv, Reading, LaunchIsPatient
<1> QED BY <1>1, Invariance, PTL
=============================================================================
