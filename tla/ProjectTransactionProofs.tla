----------------------- MODULE ProjectTransactionProofs -----------------------
(***************************************************************************)
(* What no interleaving of the processes, no failure and no crash can do   *)
(* to the project's metadata, for every set of processes and every number  *)
(* of publications.                                                        *)
(*                                                                         *)
(* The argument has two layers.  Base says who may touch the files: only   *)
(* the holder of the lock renames, the journal it applies is the one that  *)
(* is there, and the documents it has passed carry that journal's number.  *)
(* It needs nothing of the faults.  Sound adds what the documents mean:    *)
(* with the journal laid over them they are a pair of whole transactions,  *)
(* no older than what was claimed, and so is whatever the disk may hold.   *)
(* It needs CoveredFaults, without which it is false.                      *)
(***************************************************************************)
EXTENDS ProjectTransaction, TLAPS

\* The machine loses power only once the name .wago is durable, and in a world
\* in which every journal that is replaced is also synced: no process dies
\* between the two, and the sync does not fail.
CoveredFaults ==
    \A m \in FaultModels :
        /\ "power" \notin m
        /\ "latePower" \in m => "kill" \notin m /\ "journalSync" \notin m

Journals == [files : SUBSET Documents, id : Nat]
Contents ==
    [manifest : Nat, lock : Nat, wago : BOOLEAN, journal : Journals, coordinator : BOOLEAN]
Disks ==
    [manifest : SUBSET Nat, lock : SUBSET Nat, wago : SUBSET BOOLEAN,
     journal : SUBSET Journals, coordinator : SUBSET BOOLEAN]
Pairs == [Documents -> Nat]

Types ==
    /\ seen \in Contents /\ disk \in Disks
    /\ txs \in Nat
    /\ claimed \in Pairs
    /\ holder \in Procs \cup {Free}
    /\ faults \in FaultModels

Locals ==
    /\ DOMAIN pc = Procs /\ DOMAIN reader = Procs /\ DOMAIN got = Procs
    /\ again \in [Procs -> BOOLEAN]
    /\ publishing \in [Procs -> BOOLEAN]
    /\ tx \in [Procs -> Journals]
    /\ floor \in [Procs -> Pairs]

\* Nothing that was ever written has a number that is still to be given.
Numbered ==
    /\ seen.manifest <= txs /\ seen.lock <= txs /\ seen.journal.id <= txs
    /\ \A n \in disk.manifest : n <= txs
    /\ \A n \in disk.lock : n <= txs
    /\ \A j \in disk.journal : j.id <= txs

Locked == {"recover", "callback", "close", "syncJournal"} \cup Applying
Snapshot == {"readLock", "readManifest"}

\* The labels at which the journal of the process is the one that is there.
Journalled == {"syncJournal", "applyManifest", "applyLock", "syncProject", "removeJournal"}
PastManifest == {"applyLock", "syncProject", "removeJournal", "syncRemoval"}
PastLock == {"syncProject", "removeJournal", "syncRemoval"}

\* The documents that journal j carries are in place.
ManifestApplied(j) == "manifest" \in j.files => seen.manifest = j.id
LockApplied(j) == "lock" \in j.files => seen.lock = j.id

Own(p) ==
    /\ pc[p] \in Locked => holder = p
    /\ holder = p => pc[p] \in Locked \cup Snapshot
    /\ pc[p] = "wait" \/ holder = p => seen.coordinator
    /\ pc[p] \in {"callback", "syncRemoval"} => seen.journal = NoJournal
    /\ holder = p /\ pc[p] \in Snapshot => seen.journal = NoJournal
    /\ pc[p] \in Journalled => tx[p] = seen.journal
    /\ pc[p] \in PastManifest => ManifestApplied(tx[p])
    /\ pc[p] \in PastLock => LockApplied(tx[p])
    /\ publishing[p] => pc[p] \in Applying \cup {"syncJournal", "close"}

Base ==
    /\ Types
    /\ Locals
    /\ Numbered
    /\ \A p \in Procs : Own(p)

Current ==
    /\ EffectiveIsWhole
    /\ AtLeast(Effective(seen), claimed)

\* Until its journal is durable, a publication can still be lost whole.
Revocable(p) ==
    pc[p] = "syncJournal" => Pair(seen) \in whole /\ AtLeast(Pair(seen), claimed)

Busy == {"wait", "recover", "callback", "syncJournal"} \cup Applying

\* A process that has seen no lock file, and still sees none, has read while
\* nobody wrote.
Reads(p) ==
    /\ AtLeast(claimed, floor[p])
    /\ pc[p] \in Busy => got[p] = NoPair
    /\ pc[p] \in {"idle", "close"} /\ got[p] # NoPair =>
         got[p] \in whole /\ AtLeast(got[p], floor[p])
    /\ ~seen.coordinator /\ pc[p] \in Snapshot \cup {"statLock"} =>
         seen.journal = NoJournal
    /\ ~seen.coordinator /\ pc[p] \in {"statJournal", "statLock"} /\ again[p]
         /\ got[p] # NoPair => got[p] = Pair(seen)
    /\ pc[p] = "readManifest" /\ (holder = p \/ ~seen.coordinator) =>
         got[p].lock = seen.lock

Settled == disk.manifest = {seen.manifest} /\ disk.lock = {seen.lock}

\* There is no journal, or it is not yet synced.
Unsynced == seen.journal = NoJournal \/ \E p \in Procs : pc[p] = "syncJournal"

\* What a power loss may leave: as long as the journal may be lost, or an old
\* one come back, the documents are settled and an old journal repeats them;
\* once documents are renamed, the journal that covers them is there.
Durable ==
    /\ Unsynced =>
         /\ Settled
         /\ \A j \in disk.journal :
              j = seen.journal \/ (ManifestApplied(j) /\ LockApplied(j))
    /\ ~Unsynced =>
         /\ disk.journal = {seen.journal}
         /\ "manifest" \notin seen.journal.files => disk.manifest = {seen.manifest}
         /\ "lock" \notin seen.journal.files => disk.lock = {seen.lock}
    /\ \A p \in Procs : pc[p] = "removeJournal" => Settled

Sound ==
    /\ Current
    /\ \A p \in Procs : Revocable(p) /\ Reads(p)
    /\ "latePower" \in faults => Durable

-----------------------------------------------------------------------------
(* The file system. *)

LEMMA Constants ==
    /\ NoJournal \in Journals /\ Zero \in Pairs
    /\ NoJournal.files = {} /\ NoJournal.id = 0
    /\ Zero["manifest"] = 0 /\ Zero["lock"] = 0
BY ZenonT(40) DEF NoJournal, Journals, Zero, Pairs, Documents

LEMMA Fields ==
    ASSUME NEW s \in Contents
    PROVE  /\ s.manifest \in Nat /\ s.lock \in Nat /\ s.journal \in Journals
           /\ s.coordinator \in BOOLEAN
           /\ s.journal.id \in Nat /\ s.journal.files \in SUBSET Documents
BY ZenonT(40) DEF Contents, Journals

\* Effective, document by document.
LEMMA EffectiveAt ==
    ASSUME NEW s \in Contents
    PROVE  /\ Effective(s)["manifest"] =
                IF "manifest" \in s.journal.files THEN s.journal.id ELSE s.manifest
           /\ Effective(s)["lock"] =
                IF "lock" \in s.journal.files THEN s.journal.id ELSE s.lock
           /\ Pair(s)["manifest"] = s.manifest /\ Pair(s)["lock"] = s.lock
           /\ Effective(s) \in Pairs /\ Pair(s) \in Pairs
<1>1. Effective(s)["manifest"] =
        IF "manifest" \in s.journal.files THEN s.journal.id ELSE s.manifest
  BY ZenonT(40) DEF Effective, Overlay, Pair, Documents
<1>2. Effective(s)["lock"] = IF "lock" \in s.journal.files THEN s.journal.id ELSE s.lock
  BY ZenonT(40) DEF Effective, Overlay, Pair, Documents
<1>3. Pair(s)["manifest"] = s.manifest /\ Pair(s)["lock"] = s.lock
  BY ZenonT(40) DEF Pair, Documents
<1>4. Effective(s) = [f \in Documents |-> Effective(s)[f]]
      /\ Pair(s) = [f \in Documents |-> Pair(s)[f]]
  BY ZenonT(40) DEF Effective, Overlay, Pair
<1>5. \A f \in Documents : Effective(s)[f] \in Nat /\ Pair(s)[f] \in Nat
  BY ZenonT(40), <1>1, <1>2, <1>3, Fields DEF Documents
<1>6. Effective(s) \in Pairs /\ Pair(s) \in Pairs
  BY ZenonT(40), <1>4, <1>5 DEF Pairs
<1>7. QED
  BY ZenonT(40), <1>1, <1>2, <1>3, <1>6

LEMMA OverlayAt ==
    ASSUME NEW pair \in Pairs, NEW j \in Journals
    PROVE  /\ Overlay(pair, j)["manifest"] = IF "manifest" \in j.files THEN j.id ELSE pair["manifest"]
           /\ Overlay(pair, j)["lock"] = IF "lock" \in j.files THEN j.id ELSE pair["lock"]
           /\ Overlay(pair, j) \in Pairs
           /\ pair["manifest"] \in Nat /\ pair["lock"] \in Nat
BY ZenonT(40) DEF Overlay, Pairs, Journals, Documents

\* Two pairs with the same documents are the same.
LEMMA SamePair ==
    ASSUME NEW a \in Pairs, NEW b \in Pairs, a["manifest"] = b["manifest"], a["lock"] = b["lock"]
    PROVE  a = b
<1>1. \A f \in Documents : a[f] = b[f]
  BY ZenonT(40) DEF Documents
<1>2. QED
  BY <1>1 DEF Pairs

LEMMA AtLeastAt ==
    ASSUME NEW a, NEW b
    PROVE  AtLeast(a, b) <=> a["manifest"] >= b["manifest"] /\ a["lock"] >= b["lock"]
BY ZenonT(40) DEF AtLeast, Documents

LEMMA AtLeastTransitive ==
    ASSUME NEW a \in Pairs, NEW b \in Pairs, NEW c \in Pairs, AtLeast(a, b), AtLeast(b, c)
    PROVE  AtLeast(a, c)
<1>1. /\ a["manifest"] \in Nat /\ b["manifest"] \in Nat /\ c["manifest"] \in Nat
      /\ a["lock"] \in Nat /\ b["lock"] \in Nat /\ c["lock"] \in Nat
  BY ZenonT(40) DEF Pairs, Documents
<1>2. QED
  BY <1>1, AtLeastAt

LEMMA AtLeastReflexive ==
    ASSUME NEW a \in Pairs
    PROVE  AtLeast(a, a) /\ AtLeast(a, Zero)
<1>1. a["manifest"] \in Nat /\ a["lock"] \in Nat
  BY ZenonT(40) DEF Pairs, Documents
<1>2. QED
  BY <1>1, Constants, AtLeastAt

\* Without a journal, what is effective is what is there.
LEMMA EffectiveWithout ==
    ASSUME NEW s \in Contents, s.journal = NoJournal
    PROVE  Effective(s) = Pair(s)
BY EffectiveAt, SamePair, Constants

\* What is effective depends on the documents and the journal alone.
LEMMA SameEffective ==
    ASSUME NEW s \in Contents, NEW t \in Contents,
           s.manifest = t.manifest, s.lock = t.lock
    PROVE  /\ Pair(s) = Pair(t)
           /\ s.journal = t.journal => Effective(s) = Effective(t)
<1>1. Pair(s) = Pair(t)
  BY EffectiveAt, SamePair
<1>2. ASSUME s.journal = t.journal
      PROVE  Effective(s) = Effective(t)
  BY <1>2, EffectiveAt, SamePair
<1>3. QED
  BY ZenonT(40), <1>1, <1>2

LEMMA RenameJournal ==
    ASSUME seen \in Contents, disk \in Disks, NEW j \in Journals, Rename("journal", j)
    PROVE  /\ seen' \in Contents /\ disk' \in Disks
           /\ seen'.journal = j /\ disk'.journal = disk.journal \cup {j}
           /\ seen'.manifest = seen.manifest /\ disk'.manifest = disk.manifest
           /\ seen'.lock = seen.lock /\ disk'.lock = disk.lock
           /\ seen'.coordinator = seen.coordinator
BY ZenonT(40) DEF Rename, Contents, Disks

LEMMA RenameManifest ==
    ASSUME seen \in Contents, disk \in Disks, NEW n \in Nat, Rename("manifest", n)
    PROVE  /\ seen' \in Contents /\ disk' \in Disks
           /\ seen'.manifest = n /\ disk'.manifest = disk.manifest \cup {n}
           /\ seen'.journal = seen.journal /\ disk'.journal = disk.journal
           /\ seen'.lock = seen.lock /\ disk'.lock = disk.lock
           /\ seen'.coordinator = seen.coordinator
BY ZenonT(40) DEF Rename, Contents, Disks

LEMMA RenameLock ==
    ASSUME seen \in Contents, disk \in Disks, NEW n \in Nat, Rename("lock", n)
    PROVE  /\ seen' \in Contents /\ disk' \in Disks
           /\ seen'.lock = n /\ disk'.lock = disk.lock \cup {n}
           /\ seen'.journal = seen.journal /\ disk'.journal = disk.journal
           /\ seen'.manifest = seen.manifest /\ disk'.manifest = disk.manifest
           /\ seen'.coordinator = seen.coordinator
BY ZenonT(40) DEF Rename, Contents, Disks

LEMMA OpenCoordinator ==
    ASSUME seen \in Contents, disk \in Disks, CreateCoordinator
    PROVE  /\ seen' \in Contents /\ disk' \in Disks
           /\ seen'.coordinator = TRUE
           /\ seen'.journal = seen.journal /\ disk'.journal = disk.journal
           /\ seen'.manifest = seen.manifest /\ disk'.manifest = disk.manifest
           /\ seen'.lock = seen.lock /\ disk'.lock = disk.lock
BY ZenonT(40) DEF CreateCoordinator, Contents, Disks

LEMMA SyncState ==
    ASSUME seen \in Contents, disk \in Disks, SyncDirectory(State)
    PROVE  /\ seen' = seen /\ disk' \in Disks
           /\ disk'.journal = {seen.journal}
           /\ disk'.manifest = disk.manifest /\ disk'.lock = disk.lock
BY ZenonT(40) DEF SyncDirectory, Contents, Disks, State

LEMMA SyncDocuments ==
    ASSUME seen \in Contents, disk \in Disks, SyncDirectory(Project)
    PROVE  /\ seen' = seen /\ disk' \in Disks
           /\ disk'.journal = disk.journal
           /\ disk'.manifest = {seen.manifest} /\ disk'.lock = {seen.lock}
BY ZenonT(40) DEF SyncDirectory, Contents, Disks, Project, Documents

-----------------------------------------------------------------------------
(* Frames. *)

Others(p) ==
    \A q \in Procs \ {p} :
        /\ pc'[q] = pc[q] /\ again'[q] = again[q] /\ publishing'[q] = publishing[q]
        /\ tx'[q] = tx[q] /\ got'[q] = got[q] /\ floor'[q] = floor[q]

HolderMoves(p) ==
    \/ holder' = holder
    \/ holder = Free /\ holder' = p
    \/ holder = p /\ holder' = Free

SameContents ==
    /\ seen'.journal = seen.journal
    /\ seen'.manifest = seen.manifest /\ seen'.lock = seen.lock

SameDisk ==
    /\ disk'.journal = disk.journal
    /\ disk'.manifest = disk.manifest /\ disk'.lock = disk.lock

\* A step of p leaves the others where they were, as long as p renames nothing
\* without the lock.
LEMMA BaseFrame ==
    ASSUME Base, NEW p \in Procs, Others(p), HolderMoves(p),
           SameContents \/ holder = p,
           seen.coordinator => seen'.coordinator,
           Types', Locals', Numbered', Own(p)'
    PROVE  Base'
<1>1. ASSUME NEW q \in Procs, q # p
      PROVE  Own(q)'
  <2>1. /\ pc'[q] = pc[q] /\ publishing'[q] = publishing[q] /\ tx'[q] = tx[q]
    BY ZenonT(40), <1>1 DEF Others
  <2>2. holder' = q <=> holder = q
    BY <1>1, LockAssumption DEF HolderMoves
  <2>3. Own(q)
    BY ZenonT(40) DEF Base
  <2>4. CASE holder = p
    <3>1. holder # q
      BY ZenonT(40), <1>1, <2>4
    <3>2. pc[q] \notin Locked
      BY ZenonT(40), <2>3, <3>1 DEF Own
    <3>3. /\ pc[q] \notin {"callback", "syncRemoval"} /\ pc[q] \notin Journalled
          /\ pc[q] \notin PastManifest /\ pc[q] \notin PastLock
          /\ pc[q] \notin Applying \cup {"syncJournal", "close"}
      BY ZenonT(40), <3>2 DEF Locked, Journalled, PastManifest, PastLock, Applying
    <3>4. QED
      BY ZenonT(40), <2>1, <2>2, <2>3, <3>1, <3>2, <3>3 DEF Own
  <2>5. CASE SameContents
    BY ZenonT(40), <2>1, <2>2, <2>3, <2>5 DEF SameContents, Own, ManifestApplied, LockApplied
  <2>6. QED
    BY ZenonT(40), <2>4, <2>5
<1>2. QED
  BY ZenonT(40), <1>1 DEF Base

\* A step that touches no file.
LEMMA QuietBase ==
    ASSUME Base, NEW p \in Procs, Others(p), HolderMoves(p), Locals', Own(p)',
           holder' \in Procs \cup {Free}, claimed' \in Pairs,
           UNCHANGED <<seen, disk, txs, faults>>
    PROVE  Base'
<1>1. Types'
  BY ZenonT(40) DEF Base, Types
<1>2. Numbered'
  BY ZenonT(40) DEF Base, Numbered
<1>3. SameContents /\ (seen.coordinator => seen'.coordinator)
  BY ZenonT(40) DEF SameContents
<1>4. QED
  BY ZenonT(40), <1>1, <1>2, <1>3, BaseFrame

\* What another process has read stays as good as it was.
LEMMA ReadsFrame ==
    ASSUME Base, NEW p \in Procs, Others(p), HolderMoves(p),
           SameContents \/ holder = p,
           seen.coordinator => seen'.coordinator,
           Types', Locals', whole \subseteq whole', AtLeast(claimed', claimed),
           NEW q \in Procs, q # p, Reads(q)
    PROVE  Reads(q)'
<1>1. /\ pc'[q] = pc[q] /\ again'[q] = again[q] /\ got'[q] = got[q] /\ floor'[q] = floor[q]
  BY ZenonT(40) DEF Others
<1>2. holder' = q <=> holder = q
  BY LockAssumption DEF HolderMoves
<1>3. AtLeast(claimed', floor'[q])
  <2>1. claimed \in Pairs /\ claimed' \in Pairs /\ floor[q] \in Pairs
    BY ZenonT(40) DEF Base, Types, Locals
  <2>2. AtLeast(claimed, floor[q])
    BY ZenonT(40) DEF Reads
  <2>3. QED
    BY ZenonT(40), <1>1, <2>1, <2>2, AtLeastTransitive
<1>4. CASE holder = p
  <2>1. seen.coordinator /\ seen'.coordinator /\ holder' # q
    BY ZenonT(40), <1>2, <1>4 DEF Base, Own
  <2>2. QED
    BY ZenonT(40), <1>1, <1>3, <2>1 DEF Reads
<1>5. CASE SameContents
  <2>1. seen \in Contents /\ seen' \in Contents
    BY ZenonT(40) DEF Base, Types
  <2>2. Pair(seen') = Pair(seen)
    BY ZenonT(40), <1>5, <2>1, SameEffective DEF SameContents
  <2>3. Pair(seen)' = Pair(seen)
    BY ZenonT(40), <2>2 DEF Pair
  <2>4. ~seen'.coordinator => ~seen.coordinator
    BY ZenonT(40)
  <2>5. seen'.journal = seen.journal /\ seen'.lock = seen.lock
    BY ZenonT(40), <1>5 DEF SameContents
  <2>6. QED
    BY ZenonT(40), <1>1, <1>2, <1>3, <2>3, <2>4, <2>5 DEF Reads
<1>6. QED
  BY ZenonT(40), <1>4, <1>5

\* The disk, when no file is touched and no journal is left unsynced.
LEMMA DurableFrame ==
    ASSUME NEW p \in Procs, Others(p), Durable, SameContents, SameDisk,
           pc[p] # "syncJournal", pc'[p] \notin {"syncJournal", "removeJournal"}
    PROVE  Durable'
<1>1. \A q \in Procs : pc'[q] = "syncJournal" <=> pc[q] = "syncJournal"
  BY ZenonT(40) DEF Others
<1>2. \A q \in Procs : pc'[q] = "removeJournal" => pc[q] = "removeJournal"
  BY ZenonT(40) DEF Others
<1>3. Unsynced' <=> Unsynced
  BY ZenonT(40), <1>1 DEF Unsynced, SameContents
<1>4. (Settled' <=> Settled)
      /\ \A j : (ManifestApplied(j)' <=> ManifestApplied(j)) /\ (LockApplied(j)' <=> LockApplied(j))
  BY ZenonT(40) DEF Settled, ManifestApplied, LockApplied, SameContents, SameDisk
<1>5. (\A q \in Procs : pc[q] = "removeJournal" => Settled)'
  BY ZenonT(40), <1>2, <1>4 DEF Durable
<1>6. ASSUME Unsynced'
      PROVE  Settled' /\ (\A j \in disk.journal :
               j = seen.journal \/ (ManifestApplied(j) /\ LockApplied(j)))'
  BY ZenonT(40), <1>3, <1>4, <1>6 DEF Durable, SameContents, SameDisk
<1>7. ASSUME ~Unsynced'
      PROVE  (/\ disk.journal = {seen.journal}
              /\ "manifest" \notin seen.journal.files => disk.manifest = {seen.manifest}
              /\ "lock" \notin seen.journal.files => disk.lock = {seen.lock})'
  BY ZenonT(40), <1>3, <1>7 DEF Durable, SameContents, SameDisk
<1>8. QED
  BY ZenonT(40), <1>5, <1>6, <1>7 DEF Durable

\* A step that touches no file, seen from the second layer.
LEMMA QuietSound ==
    ASSUME Base, Sound, Base', NEW p \in Procs, Others(p), HolderMoves(p),
           UNCHANGED <<seen, disk, whole, faults>>,
           AtLeast(claimed', claimed), AtLeast(Effective(seen), claimed'),
           "latePower" \in faults => pc[p] # "syncJournal",
           \A q \in Procs : pc[q] = "syncJournal" => claimed' = claimed \/ q = p,
           pc'[p] \notin {"syncJournal", "removeJournal"},
           Reads(p)'
    PROVE  Sound'
<1>1. Current'
  BY ZenonT(40) DEF Sound, Current, EffectiveIsWhole
<1>2. ASSUME NEW q \in Procs
      PROVE  Revocable(q)'
  <2>1. CASE q = p
    BY ZenonT(40), <2>1 DEF Revocable
  <2>2. CASE q # p
    <3>1. pc'[q] = pc[q]
      BY ZenonT(40), <2>2 DEF Others
    <3>2. Revocable(q)
      BY ZenonT(40) DEF Sound
    <3>3. QED
      BY ZenonT(40), <2>2, <3>1, <3>2 DEF Revocable
  <2>3. QED
    BY ZenonT(40), <2>1, <2>2
<1>3. ASSUME NEW q \in Procs
      PROVE  Reads(q)'
  <2>1. SameContents /\ (seen.coordinator => seen'.coordinator)
    BY ZenonT(40) DEF SameContents
  <2>2. Types' /\ Locals' /\ Reads(q) /\ whole \subseteq whole'
    BY ZenonT(40) DEF Base, Sound
  <2>3. QED
    BY ZenonT(40), <2>1, <2>2, ReadsFrame
<1>4. ASSUME "latePower" \in faults'
      PROVE  Durable'
  BY ZenonT(40), <1>4, DurableFrame DEF Sound, SameContents, SameDisk
<1>5. QED
  BY ZenonT(40), <1>1, <1>2, <1>3, <1>4 DEF Sound

-----------------------------------------------------------------------------
(* What each step of a process does to its own state. *)

LEMMA ReturnEffect ==
    ASSUME Locals, NEW p \in Procs, NEW r, Return(p, r)
    PROVE  /\ Locals' /\ Others(p) /\ whole' = whole
           /\ pc'[p] = "idle" /\ ~publishing'[p] /\ got'[p] = r
           /\ floor'[p] = IF r = NoPair THEN Zero ELSE floor[p]
BY ZenonT(40), Constants DEF Return, Go, Locals, Others

LEMMA BeginReadEffect ==
    ASSUME Locals, NEW p \in Procs, BeginRead(p), claimed \in Pairs
    PROVE  /\ Locals' /\ Others(p)
           /\ pc'[p] = "statJournal"
           /\ got'[p] = NoPair
           /\ floor'[p] = claimed
           /\ again'[p] = again[p] /\ publishing'[p] = publishing[p] /\ tx'[p] = tx[p]
BY ZenonT(40), Constants DEF BeginRead, Go, Locals, Others, locals, ghosts

LEMMA StatJournalEffect ==
    ASSUME Locals, NEW p \in Procs, StatJournal(p)
    PROVE  /\ Locals' /\ Others(p)
           /\ pc'[p] = IF seen.journal # NoJournal THEN "open" ELSE "statLock"
           /\ again'[p] = again[p] /\ publishing'[p] = publishing[p] /\ tx'[p] = tx[p]
           /\ got'[p] = got[p] /\ floor'[p] = floor[p]
BY ZenonT(40), Constants DEF StatJournal, Go, Locals, Others, locals, ghosts

LEMMA StatLockEffect ==
    ASSUME Locals, NEW p \in Procs, StatLock(p)
    PROVE  /\ Locals' /\ Others(p)
           /\ pc'[p] = IF seen.coordinator THEN "open" ELSE "readLock"
           /\ again'[p] = again[p] /\ publishing'[p] = publishing[p] /\ tx'[p] = tx[p]
           /\ got'[p] = got[p] /\ floor'[p] = floor[p]
BY ZenonT(40), Constants DEF StatLock, Go, Locals, Others, locals, ghosts

LEMMA ReadLockEffect ==
    ASSUME Locals, NEW p \in Procs, ReadLock(p)
    PROVE  /\ Locals' /\ Others(p)
           /\ pc'[p] = "readManifest"
           /\ got'[p] = [lock |-> seen.lock]
           /\ again'[p] = again[p] /\ publishing'[p] = publishing[p] /\ tx'[p] = tx[p] /\ floor'[p] = floor[p]
BY ZenonT(40), Constants DEF ReadLock, Go, Locals, Others, locals, ghosts

LEMMA ReadManifestEffect ==
    ASSUME Locals, NEW p \in Procs, ReadManifest(p)
    PROVE  /\ Locals' /\ Others(p)
           /\ pc'[p] = IF holder = p THEN "close" ELSE "statJournal"
           /\ got'[p] = [manifest |-> seen.manifest, lock |-> got[p].lock]
           /\ publishing'[p] = publishing[p] /\ tx'[p] = tx[p] /\ floor'[p] = floor[p]
BY ZenonT(40), Constants DEF ReadManifest, Go, Locals, Others, locals, ghosts

LEMMA BeginMutationEffect ==
    ASSUME Locals, NEW p \in Procs, BeginMutation(p)
    PROVE  /\ Locals' /\ Others(p)
           /\ pc'[p] = "open"
           /\ got'[p] = NoPair /\ floor'[p] = Zero
           /\ again'[p] = again[p] /\ publishing'[p] = publishing[p] /\ tx'[p] = tx[p]
BY ZenonT(40), Constants DEF BeginMutation, Go, Locals, Others, locals, ghosts

LEMMA OpenLockEffect ==
    ASSUME Locals, NEW p \in Procs, OpenLock(p)
    PROVE  /\ Locals' /\ Others(p)
           /\ pc'[p] = "wait"
           /\ got'[p] = NoPair
           /\ publishing'[p] = publishing[p] /\ tx'[p] = tx[p] /\ floor'[p] = floor[p]
BY ZenonT(40), Constants DEF OpenLock, Go, Locals, Others, locals, ghosts

LEMMA TakeLockEffect ==
    ASSUME Locals, NEW p \in Procs, TakeLock(p)
    PROVE  /\ Locals' /\ Others(p)
           /\ pc'[p] = "recover"
           /\ again'[p] = again[p] /\ publishing'[p] = publishing[p] /\ tx'[p] = tx[p]
           /\ got'[p] = got[p] /\ floor'[p] = floor[p]
BY ZenonT(40), Constants DEF TakeLock, Go, Locals, Others, locals, ghosts

LEMMA RecoverEffect ==
    ASSUME Locals, NEW p \in Procs, Recover(p), seen.journal \in Journals
    PROVE  /\ Locals' /\ Others(p)
           /\ pc'[p] = IF seen.journal = NoJournal THEN Callback(p) ELSE "applyManifest"
           /\ tx'[p] = seen.journal
           /\ again'[p] = again[p] /\ publishing'[p] = publishing[p]
           /\ got'[p] = got[p] /\ floor'[p] = floor[p]
BY ZenonT(40), Constants DEF Recover, Go, Locals, Others, locals, ghosts

LEMMA EndCallbackEffect ==
    ASSUME Locals, NEW p \in Procs, EndCallback(p)
    PROVE  /\ Locals' /\ Others(p)
           /\ pc'[p] = "close"
           /\ again'[p] = again[p] /\ publishing'[p] = publishing[p] /\ tx'[p] = tx[p]
           /\ got'[p] = got[p] /\ floor'[p] = floor[p]
BY ZenonT(40), Constants DEF EndCallback, Go, Locals, Others, locals, ghosts

LEMMA SyncJournalEffect ==
    ASSUME Locals, NEW p \in Procs, SyncJournal(p)
    PROVE  /\ Locals' /\ Others(p)
           /\ pc'[p] = "applyManifest"
           /\ again'[p] = again[p] /\ publishing'[p] = publishing[p] /\ tx'[p] = tx[p]
           /\ got'[p] = got[p] /\ floor'[p] = floor[p]
BY ZenonT(40), Constants DEF SyncJournal, Go, Locals, Others, locals, ghosts

LEMMA ApplyManifestEffect ==
    ASSUME Locals, NEW p \in Procs, ApplyManifest(p)
    PROVE  /\ Locals' /\ Others(p)
           /\ pc'[p] = "applyLock"
           /\ again'[p] = again[p] /\ publishing'[p] = publishing[p] /\ tx'[p] = tx[p]
           /\ got'[p] = got[p] /\ floor'[p] = floor[p]
BY ZenonT(40), Constants DEF ApplyManifest, Go, Locals, Others, locals, ghosts

LEMMA ApplyLockEffect ==
    ASSUME Locals, NEW p \in Procs, ApplyLock(p)
    PROVE  /\ Locals' /\ Others(p)
           /\ pc'[p] = "syncProject"
           /\ again'[p] = again[p] /\ publishing'[p] = publishing[p] /\ tx'[p] = tx[p]
           /\ got'[p] = got[p] /\ floor'[p] = floor[p]
BY ZenonT(40), Constants DEF ApplyLock, Go, Locals, Others, locals, ghosts

LEMMA SyncProjectEffect ==
    ASSUME Locals, NEW p \in Procs, SyncProject(p)
    PROVE  /\ Locals' /\ Others(p)
           /\ pc'[p] = "removeJournal"
           /\ again'[p] = again[p] /\ publishing'[p] = publishing[p] /\ tx'[p] = tx[p]
           /\ got'[p] = got[p] /\ floor'[p] = floor[p]
BY ZenonT(40), Constants DEF SyncProject, Go, Locals, Others, locals, ghosts

LEMMA RemoveJournalEffect ==
    ASSUME Locals, NEW p \in Procs, RemoveJournal(p)
    PROVE  /\ Locals' /\ Others(p)
           /\ pc'[p] = "syncRemoval"
           /\ again'[p] = again[p] /\ publishing'[p] = publishing[p] /\ tx'[p] = tx[p]
           /\ got'[p] = got[p] /\ floor'[p] = floor[p]
BY ZenonT(40), Constants DEF RemoveJournal, Go, Locals, Others, locals, ghosts

LEMMA SyncRemovalEffect ==
    ASSUME Locals, NEW p \in Procs, SyncRemoval(p)
    PROVE  /\ Locals' /\ Others(p)
           /\ pc'[p] = Callback(p)
           /\ ~publishing'[p] /\ tx'[p] = NoJournal
           /\ again'[p] = again[p] /\ got'[p] = got[p] /\ floor'[p] = floor[p]
BY ZenonT(40), Constants DEF SyncRemoval, Go, Locals, Others, locals, ghosts

LEMMA ApplyErrorEffect ==
    ASSUME Locals, NEW p \in Procs, ApplyError(p)
    PROVE  /\ Locals' /\ Others(p)
           /\ pc'[p] = "close"
           /\ again'[p] = again[p] /\ publishing'[p] = publishing[p] /\ tx'[p] = tx[p]
           /\ got'[p] = got[p] /\ floor'[p] = floor[p]
BY ZenonT(40), Constants DEF ApplyError, Go, Locals, Others, locals, ghosts

LEMMA JournalSyncErrorEffect ==
    ASSUME Locals, NEW p \in Procs, JournalSyncError(p)
    PROVE  /\ Locals' /\ Others(p)
           /\ pc'[p] = "close"
           /\ again'[p] = again[p] /\ publishing'[p] = publishing[p] /\ tx'[p] = tx[p]
           /\ got'[p] = got[p] /\ floor'[p] = floor[p]
BY ZenonT(40), Constants DEF JournalSyncError, Go, Locals, Others, locals, ghosts

LEMMA ReadErrorEffect ==
    ASSUME Locals, NEW p \in Procs, ReadError(p)
    PROVE  /\ Locals' /\ Others(p)
           /\ pc'[p] = IF holder = p THEN "close" ELSE "statJournal"
           /\ got'[p] = NoPair
           /\ publishing'[p] = publishing[p] /\ tx'[p] = tx[p] /\ floor'[p] = floor[p]
BY ZenonT(40), Constants DEF ReadError, Go, Locals, Others, locals, ghosts

\* publish has replaced the journal by a new one.
LEMMA WriteJournalEffect ==
    ASSUME Types, Locals, NEW p \in Procs, WriteJournal(p)
    PROVE  \E j \in Journals :
             /\ Locals' /\ Others(p)
             /\ j.id = txs + 1
             /\ pc'[p] = "syncJournal" /\ tx'[p] = j /\ publishing'[p]
             /\ again'[p] = again[p] /\ got'[p] = got[p] /\ floor'[p] = floor[p]
             /\ Rename("journal", j)
             /\ whole' = whole \cup {Overlay(Effective(seen), j)}
<1>1. PICK fs \in SUBSET Documents :
        /\ tx' = [tx EXCEPT ![p] = [files |-> fs, id |-> txs + 1]]
        /\ Rename("journal", [files |-> fs, id |-> txs + 1])
        /\ whole' = whole \cup {Overlay(Effective(seen), [files |-> fs, id |-> txs + 1])}
  BY ZenonT(40) DEF WriteJournal
<1> DEFINE j == [files |-> fs, id |-> txs + 1]
<1>2. j \in Journals /\ j.id = txs + 1
  BY DEF Journals, Types
<1>3. tx' = [tx EXCEPT ![p] = j] /\ Rename("journal", j)
      /\ whole' = whole \cup {Overlay(Effective(seen), j)}
  BY ZenonT(40), <1>1
<1> HIDE DEF j
<1>4. Locals' /\ Others(p) /\ tx'[p] = j
  BY ZenonT(40), <1>2, <1>3 DEF WriteJournal, Go, Locals, Others
<1>5. /\ pc'[p] = "syncJournal" /\ publishing'[p]
      /\ again'[p] = again[p] /\ got'[p] = got[p] /\ floor'[p] = floor[p]
  BY ZenonT(40) DEF WriteJournal, Go, Locals
<1>6. QED
  BY ZenonT(40), <1>2, <1>3, <1>4, <1>5

-----------------------------------------------------------------------------
(* The first layer: who touches the files. *)

Outside == {"idle", "statJournal", "statLock", "open", "wait"}

LEMMA OutsideIsUnlocked ==
    ASSUME Base, NEW p \in Procs, pc[p] \in Outside
    PROVE  holder # p /\ ~publishing[p]
<1>1. Own(p)
  BY ZenonT(40) DEF Base
<1>2. pc[p] \notin Locked \cup Snapshot /\ pc[p] \notin Applying \cup {"syncJournal", "close"}
  BY ZenonT(40) DEF Outside, Locked, Snapshot, Applying
<1>3. QED
  BY ZenonT(40), <1>1, <1>2 DEF Own

\* A process without the lock owns nothing.
LEMMA UnlockedOwns ==
    ASSUME NEW p \in Procs, holder' # p, ~publishing'[p],
           pc'[p] \in Outside \cup Snapshot, pc'[p] = "wait" => seen'.coordinator
    PROVE  Own(p)'
<1>1. /\ pc'[p] \notin Locked /\ pc'[p] \notin {"callback", "syncRemoval"}
      /\ pc'[p] \notin Journalled /\ pc'[p] \notin PastManifest /\ pc'[p] \notin PastLock
  BY ZenonT(40) DEF Outside, Snapshot, Locked, Applying, Journalled, PastManifest, PastLock
<1>2. QED
  BY ZenonT(40), <1>1 DEF Own

\* The holder runs its callback, or is about to unlock.
LEMMA LockedOwns ==
    ASSUME NEW p \in Procs, holder' = p, seen'.coordinator,
           pc'[p] \in {"close", "callback"} \cup Snapshot,
           pc'[p] # "close" => seen'.journal = NoJournal /\ ~publishing'[p]
    PROVE  Own(p)'
<1>1. /\ pc'[p] \in Locked \cup Snapshot /\ pc'[p] \notin Journalled
      /\ pc'[p] \notin PastManifest /\ pc'[p] \notin PastLock
  BY ZenonT(40) DEF Snapshot, Locked, Applying, Journalled, PastManifest, PastLock
<1>2. pc'[p] \in {"callback", "syncRemoval"} \/ pc'[p] \in Snapshot => pc'[p] # "close"
  BY ZenonT(40) DEF Snapshot
<1>3. publishing'[p] => pc'[p] = "close"
  BY ZenonT(40)
<1>4. QED
  BY ZenonT(40), <1>1, <1>2, <1>3 DEF Own

\* At a locked label the process holds the lock and the lock file exists.
LEMMA HolderFacts ==
    ASSUME Base, NEW p \in Procs, pc[p] \in Locked
    PROVE  holder = p /\ seen.coordinator /\ Own(p)
BY ZenonT(40) DEF Base, Own

LEMMA ReturnBase ==
    ASSUME Base, NEW p \in Procs, NEW r, Return(p, r), holder' # p, HolderMoves(p),
           holder' \in Procs \cup {Free}, UNCHANGED <<seen, disk, txs, claimed, faults>>
    PROVE  Base'
<1>1. Locals' /\ Others(p) /\ pc'[p] = "idle" /\ ~publishing'[p]
  BY ZenonT(40), ReturnEffect DEF Base
<1>2. Own(p)'
  BY ZenonT(40), <1>1, UnlockedOwns DEF Outside
<1>3. claimed' \in Pairs
  BY ZenonT(40) DEF Base, Types
<1>4. QED
  BY ZenonT(40), <1>1, <1>2, <1>3, QuietBase

LEMMA ReturnUnlockedBase ==
    ASSUME Base, NEW p \in Procs, ReturnUnlocked(p), faults' = faults
    PROVE  Base'
<1>1. holder # p
  BY ZenonT(40), OutsideIsUnlocked DEF ReturnUnlocked, Outside
<1>2. Return(p, got[p]) /\ UNCHANGED <<seen, disk, txs, claimed>> /\ holder' = holder
  BY ZenonT(40) DEF ReturnUnlocked, files
<1>3. QED
  BY ZenonT(40), <1>1, <1>2, ReturnBase DEF HolderMoves, Base, Types

LEMMA CancelWaitBase ==
    ASSUME Base, NEW p \in Procs, CancelWait(p), faults' = faults
    PROVE  Base'
<1>1. holder # p
  BY ZenonT(40), OutsideIsUnlocked DEF CancelWait, Outside
<1>2. Return(p, NoPair) /\ UNCHANGED <<seen, disk, txs, claimed>> /\ holder' = holder
  BY ZenonT(40) DEF CancelWait, files
<1>3. QED
  BY ZenonT(40), <1>1, <1>2, ReturnBase DEF HolderMoves, Base, Types

LEMMA StatErrorBase ==
    ASSUME Base, NEW p \in Procs, StatError(p), faults' = faults
    PROVE  Base'
<1>1. holder # p
  BY ZenonT(40), OutsideIsUnlocked DEF StatError, Outside
<1>2. Return(p, NoPair) /\ UNCHANGED <<seen, disk, txs, claimed>> /\ holder' = holder
  BY ZenonT(40) DEF StatError, files
<1>3. QED
  BY ZenonT(40), <1>1, <1>2, ReturnBase DEF HolderMoves, Base, Types

LEMMA CloseBase ==
    ASSUME Base, NEW p \in Procs, Close(p), faults' = faults
    PROVE  Base'
<1>1. holder = p
  BY ZenonT(40), HolderFacts DEF Close, Locked
<1>2. Return(p, got[p]) /\ UNCHANGED <<seen, disk, txs, claimed>> /\ holder' = Free
  BY ZenonT(40) DEF Close, files
<1>3. QED
  BY ZenonT(40), <1>1, <1>2, ReturnBase, LockAssumption DEF HolderMoves

LEMMA KillBase ==
    ASSUME Base, NEW p \in Procs, Kill(p), faults' = faults
    PROVE  Base'
<1>1. Return(p, NoPair) /\ UNCHANGED <<seen, disk, txs, claimed>>
      /\ holder' = IF holder = p THEN Free ELSE holder
  BY ZenonT(40) DEF Kill, files
<1>2. holder' # p /\ HolderMoves(p) /\ holder' \in Procs \cup {Free}
  BY ZenonT(40), <1>1, LockAssumption DEF HolderMoves, Base, Types
<1>3. QED
  BY ZenonT(40), <1>1, <1>2, ReturnBase

LEMMA BeginReadBase ==
    ASSUME Base, NEW p \in Procs, BeginRead(p), faults' = faults
    PROVE  Base'
<1>1. holder # p /\ ~publishing[p]
  BY ZenonT(40), OutsideIsUnlocked DEF BeginRead, Outside
<1>2. Locals' /\ Others(p) /\ publishing'[p] = publishing[p]
      /\ pc'[p] \in (Outside \ {"wait"}) \cup Snapshot
  BY ZenonT(40), BeginReadEffect DEF Base, Types, Outside, Snapshot
<1>3. UNCHANGED <<seen, disk, txs, claimed, holder>>
  BY ZenonT(40) DEF BeginRead, files, ghosts
<1>4. Own(p)'
  BY ZenonT(40), <1>1, <1>2, <1>3, UnlockedOwns DEF Outside, Snapshot
<1>5. QED
  BY ZenonT(40), <1>2, <1>3, <1>4, QuietBase DEF HolderMoves, Base, Types

LEMMA StatJournalBase ==
    ASSUME Base, NEW p \in Procs, StatJournal(p), faults' = faults
    PROVE  Base'
<1>1. holder # p /\ ~publishing[p]
  BY ZenonT(40), OutsideIsUnlocked DEF StatJournal, Outside
<1>2. Locals' /\ Others(p) /\ publishing'[p] = publishing[p]
      /\ pc'[p] \in (Outside \ {"wait"}) \cup Snapshot
  BY ZenonT(40), StatJournalEffect DEF Base, Outside, Snapshot
<1>3. UNCHANGED <<seen, disk, txs, claimed, holder>>
  BY ZenonT(40) DEF StatJournal, files, ghosts
<1>4. Own(p)'
  BY ZenonT(40), <1>1, <1>2, <1>3, UnlockedOwns DEF Outside, Snapshot
<1>5. QED
  BY ZenonT(40), <1>2, <1>3, <1>4, QuietBase DEF HolderMoves, Base, Types

LEMMA StatLockBase ==
    ASSUME Base, NEW p \in Procs, StatLock(p), faults' = faults
    PROVE  Base'
<1>1. holder # p /\ ~publishing[p]
  BY ZenonT(40), OutsideIsUnlocked DEF StatLock, Outside
<1>2. Locals' /\ Others(p) /\ publishing'[p] = publishing[p]
      /\ pc'[p] \in (Outside \ {"wait"}) \cup Snapshot
  BY ZenonT(40), StatLockEffect DEF Base, Outside, Snapshot
<1>3. UNCHANGED <<seen, disk, txs, claimed, holder>>
  BY ZenonT(40) DEF StatLock, files, ghosts
<1>4. Own(p)'
  BY ZenonT(40), <1>1, <1>2, <1>3, UnlockedOwns DEF Outside, Snapshot
<1>5. QED
  BY ZenonT(40), <1>2, <1>3, <1>4, QuietBase DEF HolderMoves, Base, Types

LEMMA BeginMutationBase ==
    ASSUME Base, NEW p \in Procs, BeginMutation(p), faults' = faults
    PROVE  Base'
<1>1. holder # p /\ ~publishing[p]
  BY ZenonT(40), OutsideIsUnlocked DEF BeginMutation, Outside
<1>2. Locals' /\ Others(p) /\ publishing'[p] = publishing[p]
      /\ pc'[p] \in (Outside \ {"wait"}) \cup Snapshot
  BY ZenonT(40), BeginMutationEffect DEF Base, Outside, Snapshot
<1>3. UNCHANGED <<seen, disk, txs, claimed, holder>>
  BY ZenonT(40) DEF BeginMutation, files, ghosts
<1>4. Own(p)'
  BY ZenonT(40), <1>1, <1>2, <1>3, UnlockedOwns DEF Outside, Snapshot
<1>5. QED
  BY ZenonT(40), <1>2, <1>3, <1>4, QuietBase DEF HolderMoves, Base, Types

LEMMA ReadLockBase ==
    ASSUME Base, NEW p \in Procs, ReadLock(p), faults' = faults
    PROVE  Base'
<1>1. Own(p) /\ pc[p] = "readLock" /\ ~publishing[p]
  BY ZenonT(40) DEF Base, Own, ReadLock, Applying
<1>2. Locals' /\ Others(p) /\ publishing'[p] = publishing[p] /\ pc'[p] = "readManifest"
  BY ZenonT(40), ReadLockEffect DEF Base
<1>3. UNCHANGED <<seen, disk, txs, claimed, holder>>
  BY ZenonT(40) DEF ReadLock, files, ghosts
<1>4. holder = p => seen.coordinator /\ seen.journal = NoJournal
  BY ZenonT(40), <1>1 DEF Own, Snapshot
<1>5. Own(p)'
  <2>1. CASE holder = p
    BY ZenonT(40), <1>1, <1>2, <1>3, <1>4, <2>1, LockedOwns DEF Snapshot
  <2>2. CASE holder # p
    BY ZenonT(40), <1>1, <1>2, <1>3, <2>2, UnlockedOwns DEF Snapshot
  <2>3. QED
    BY ZenonT(40), <2>1, <2>2
<1>6. QED
  BY ZenonT(40), <1>2, <1>3, <1>5, QuietBase DEF HolderMoves, Base, Types

LEMMA ReadManifestBase ==
    ASSUME Base, NEW p \in Procs, ReadManifest(p), faults' = faults
    PROVE  Base'
<1>1. Own(p) /\ pc[p] \in Snapshot /\ ~publishing[p]
  BY ZenonT(40) DEF Base, Own, ReadManifest, Applying, Snapshot
<1>2. /\ Locals' /\ Others(p) /\ publishing'[p] = publishing[p]
      /\ pc'[p] = IF holder = p THEN "close" ELSE "statJournal"
  BY ZenonT(40), ReadManifestEffect DEF Base
<1>3. UNCHANGED <<seen, disk, txs, claimed, holder>>
  BY ZenonT(40) DEF ReadManifest, files, ghosts
<1>4. holder = p => seen.coordinator
  BY ZenonT(40), <1>1 DEF Own
<1>5. Own(p)'
  <2>1. CASE holder = p
    BY ZenonT(40), <1>1, <1>2, <1>3, <1>4, <2>1, LockedOwns
  <2>2. CASE holder # p
    BY ZenonT(40), <1>1, <1>2, <1>3, <2>2, UnlockedOwns DEF Outside
  <2>3. QED
    BY ZenonT(40), <2>1, <2>2
<1>6. QED
  BY ZenonT(40), <1>2, <1>3, <1>5, QuietBase DEF HolderMoves, Base, Types

LEMMA ReadErrorBase ==
    ASSUME Base, NEW p \in Procs, ReadError(p), faults' = faults
    PROVE  Base'
<1>1. Own(p) /\ pc[p] \in Snapshot /\ ~publishing[p]
  BY ZenonT(40) DEF Base, Own, ReadError, Applying, Snapshot
<1>2. /\ Locals' /\ Others(p) /\ publishing'[p] = publishing[p]
      /\ pc'[p] = IF holder = p THEN "close" ELSE "statJournal"
  BY ZenonT(40), ReadErrorEffect DEF Base
<1>3. UNCHANGED <<seen, disk, txs, claimed, holder>>
  BY ZenonT(40) DEF ReadError, files, ghosts
<1>4. holder = p => seen.coordinator
  BY ZenonT(40), <1>1 DEF Own
<1>5. Own(p)'
  <2>1. CASE holder = p
    BY ZenonT(40), <1>1, <1>2, <1>3, <1>4, <2>1, LockedOwns
  <2>2. CASE holder # p
    BY ZenonT(40), <1>1, <1>2, <1>3, <2>2, UnlockedOwns DEF Outside
  <2>3. QED
    BY ZenonT(40), <2>1, <2>2
<1>6. QED
  BY ZenonT(40), <1>2, <1>3, <1>5, QuietBase DEF HolderMoves, Base, Types

LEMMA TakeLockBase ==
    ASSUME Base, NEW p \in Procs, TakeLock(p), faults' = faults
    PROVE  Base'
<1>1. Own(p) /\ ~publishing[p] /\ seen.coordinator
  BY ZenonT(40), OutsideIsUnlocked DEF Base, Own, TakeLock, Outside
<1>2. Locals' /\ Others(p) /\ publishing'[p] = publishing[p] /\ pc'[p] = "recover"
  BY ZenonT(40), TakeLockEffect DEF Base
<1>3. UNCHANGED <<seen, disk, txs, claimed>> /\ holder = Free /\ holder' = p
  BY ZenonT(40) DEF TakeLock, files, ghosts
<1>4. /\ pc'[p] \in Locked \cup Snapshot /\ pc'[p] \notin {"callback", "syncRemoval"}
      /\ pc'[p] \notin Snapshot /\ pc'[p] \notin Journalled
      /\ pc'[p] \notin PastManifest /\ pc'[p] \notin PastLock
  BY ZenonT(40), <1>2 DEF Locked, Applying, Snapshot, Journalled, PastManifest, PastLock
<1>5. Own(p)'
  BY ZenonT(40), <1>1, <1>2, <1>3, <1>4 DEF Own
<1>6. QED
  BY ZenonT(40), <1>2, <1>3, <1>5, QuietBase DEF HolderMoves, Base, Types

LEMMA EndCallbackBase ==
    ASSUME Base, NEW p \in Procs, EndCallback(p), faults' = faults
    PROVE  Base'
<1>1. Own(p) /\ holder = p /\ seen.coordinator
  BY ZenonT(40), HolderFacts DEF EndCallback, Locked
<1>2. Locals' /\ Others(p) /\ publishing'[p] = publishing[p] /\ pc'[p] = "close"
  BY ZenonT(40), EndCallbackEffect DEF Base
<1>3. UNCHANGED <<seen, disk, txs, claimed, holder>>
  BY ZenonT(40) DEF EndCallback, files, ghosts
<1>4. Own(p)'
  BY ZenonT(40), <1>1, <1>2, <1>3, LockedOwns
<1>5. QED
  BY ZenonT(40), <1>2, <1>3, <1>4, QuietBase DEF HolderMoves, Base, Types

\* Claim keeps claimed a pair.
LEMMA ClaimPair ==
    ASSUME Base, NEW p \in Procs, Claim(p)
    PROVE  claimed' \in Pairs
<1>1. claimed \in Pairs /\ tx[p] \in Journals
  BY ZenonT(40) DEF Base, Types, Locals
<1>2. QED
  BY ZenonT(40), <1>1, OverlayAt DEF Claim

LEMMA ApplyErrorBase ==
    ASSUME Base, NEW p \in Procs, ApplyError(p), faults' = faults
    PROVE  Base'
<1>1. Own(p) /\ holder = p /\ seen.coordinator
  BY ZenonT(40), HolderFacts DEF ApplyError, Locked
<1>2. Locals' /\ Others(p) /\ publishing'[p] = publishing[p] /\ pc'[p] = "close"
  BY ZenonT(40), ApplyErrorEffect DEF Base
<1>3. UNCHANGED <<seen, disk, txs, holder>> /\ Claim(p)
  BY ZenonT(40) DEF ApplyError, files
<1>4. Own(p)'
  BY ZenonT(40), <1>1, <1>2, <1>3, LockedOwns
<1>5. claimed' \in Pairs
  BY ZenonT(40), <1>3, ClaimPair
<1>6. QED
  BY ZenonT(40), <1>2, <1>3, <1>4, <1>5, QuietBase DEF HolderMoves, Base, Types

LEMMA JournalSyncErrorBase ==
    ASSUME Base, NEW p \in Procs, JournalSyncError(p), faults' = faults
    PROVE  Base'
<1>1. Own(p) /\ holder = p /\ seen.coordinator
  BY ZenonT(40), HolderFacts DEF JournalSyncError, Locked
<1>2. Locals' /\ Others(p) /\ publishing'[p] = publishing[p] /\ pc'[p] = "close"
  BY ZenonT(40), JournalSyncErrorEffect DEF Base
<1>3. UNCHANGED <<seen, disk, txs, holder>> /\ Claim(p)
  BY ZenonT(40) DEF JournalSyncError, files
<1>4. Own(p)'
  BY ZenonT(40), <1>1, <1>2, <1>3, LockedOwns
<1>5. claimed' \in Pairs
  BY ZenonT(40), <1>3, ClaimPair
<1>6. QED
  BY ZenonT(40), <1>2, <1>3, <1>4, <1>5, QuietBase DEF HolderMoves, Base, Types

LEMMA RecoverBase ==
    ASSUME Base, NEW p \in Procs, Recover(p), faults' = faults
    PROVE  Base'
<1>1. Own(p) /\ holder = p /\ seen.coordinator /\ ~publishing[p]
  <2>1. Own(p) /\ holder = p /\ seen.coordinator
    BY ZenonT(40), HolderFacts DEF Recover, Locked
  <2>2. pc[p] \notin Applying \cup {"syncJournal", "close"}
    BY ZenonT(40) DEF Recover, Applying
  <2>3. QED
    BY ZenonT(40), <2>1, <2>2 DEF Own
<1>2. seen.journal \in Journals
  BY ZenonT(40), Fields DEF Base, Types
<1>3. /\ Locals' /\ Others(p) /\ publishing'[p] = publishing[p] /\ tx'[p] = seen.journal
      /\ pc'[p] = IF seen.journal = NoJournal THEN Callback(p) ELSE "applyManifest"
  BY ZenonT(40), <1>2, RecoverEffect DEF Base
<1>4. UNCHANGED <<seen, disk, txs, claimed, holder>>
  BY ZenonT(40) DEF Recover, files, ghosts
<1>5. Own(p)'
  <2>1. CASE seen.journal = NoJournal
    <3>1. pc'[p] \in {"callback", "readLock"}
      BY ZenonT(40), <1>3, <2>1 DEF Callback
    <3>2. QED
      BY ZenonT(40), <1>1, <1>3, <1>4, <2>1, <3>1, LockedOwns DEF Snapshot
  <2>2. CASE seen.journal # NoJournal
    <3>1. /\ pc'[p] \in Locked \cup Snapshot /\ pc'[p] \notin {"callback", "syncRemoval"}
          /\ pc'[p] \notin Snapshot /\ pc'[p] # "wait"
          /\ pc'[p] \notin PastManifest /\ pc'[p] \notin PastLock
      BY ZenonT(40), <1>3, <2>2 DEF Locked, Applying, Snapshot, PastManifest, PastLock
    <3>2. QED
      BY ZenonT(40), <1>1, <1>3, <1>4, <3>1 DEF Own
  <2>3. QED
    BY ZenonT(40), <2>1, <2>2
<1>6. QED
  BY ZenonT(40), <1>3, <1>4, <1>5, QuietBase DEF HolderMoves, Base, Types

LEMMA OpenLockBase ==
    ASSUME Base, NEW p \in Procs, OpenLock(p), faults' = faults
    PROVE  Base'
<1>1. holder # p /\ ~publishing[p]
  BY ZenonT(40), OutsideIsUnlocked DEF OpenLock, Outside
<1>2. Locals' /\ Others(p) /\ publishing'[p] = publishing[p] /\ pc'[p] = "wait"
  BY ZenonT(40), OpenLockEffect DEF Base
<1>3. /\ seen' \in Contents /\ disk' \in Disks /\ seen'.coordinator = TRUE
      /\ seen'.journal = seen.journal /\ disk'.journal = disk.journal
      /\ seen'.manifest = seen.manifest /\ disk'.manifest = disk.manifest
      /\ seen'.lock = seen.lock /\ disk'.lock = disk.lock
  BY ZenonT(40), OpenCoordinator DEF OpenLock, Base, Types
<1>4. UNCHANGED <<txs, claimed, holder>>
  BY ZenonT(40) DEF OpenLock, ghosts
<1>5. Types'
  BY ZenonT(40), <1>3, <1>4 DEF Base, Types
<1>6. Numbered'
  BY ZenonT(40), <1>3, <1>4 DEF Base, Numbered
<1>7. Own(p)'
  BY ZenonT(40), <1>1, <1>2, <1>3, <1>4, UnlockedOwns DEF Outside
<1>8. QED
  BY ZenonT(40), <1>2, <1>3, <1>4, <1>5, <1>6, <1>7, BaseFrame DEF HolderMoves, SameContents

LEMMA WriteJournalBase ==
    ASSUME Base, NEW p \in Procs, WriteJournal(p), faults' = faults
    PROVE  Base'
<1>1. holder = p /\ seen.coordinator
  BY ZenonT(40), HolderFacts DEF WriteJournal, Locked
<1>2. PICK j \in Journals :
        /\ Locals' /\ Others(p) /\ j.id = txs + 1
        /\ pc'[p] = "syncJournal" /\ tx'[p] = j /\ publishing'[p]
        /\ Rename("journal", j)
  BY ZenonT(40), WriteJournalEffect DEF Base
<1>3. /\ seen' \in Contents /\ disk' \in Disks
      /\ seen'.journal = j /\ disk'.journal = disk.journal \cup {j}
      /\ seen'.manifest = seen.manifest /\ disk'.manifest = disk.manifest
      /\ seen'.lock = seen.lock /\ disk'.lock = disk.lock
      /\ seen'.coordinator = seen.coordinator
  BY ZenonT(40), <1>2, RenameJournal DEF Base, Types
<1>4. txs' = txs + 1 /\ UNCHANGED <<claimed, holder>> /\ txs \in Nat
  BY ZenonT(40) DEF WriteJournal, Base, Types
<1>5. Types'
  BY <1>3, <1>4 DEF Base, Types
<1>6. Numbered'
  <2>1. /\ seen.manifest \in Nat /\ seen.lock \in Nat
        /\ disk.manifest \subseteq Nat /\ disk.lock \subseteq Nat
        /\ \A k \in disk.journal : k.id \in Nat
    BY ZenonT(40), Fields DEF Base, Types, Disks, Journals
  <2>2. Numbered
    BY ZenonT(40) DEF Base
  <2>3. seen'.manifest <= txs' /\ seen'.lock <= txs' /\ seen'.journal.id <= txs'
    BY <1>2, <1>3, <1>4, <2>1, <2>2 DEF Numbered
  <2>4. (\A n \in disk'.manifest : n <= txs') /\ (\A n \in disk'.lock : n <= txs')
    BY <1>3, <1>4, <2>1, <2>2 DEF Numbered
  <2>5. \A k \in disk'.journal : k.id <= txs'
    BY <1>2, <1>3, <1>4, <2>1, <2>2 DEF Numbered
  <2>6. QED
    BY ZenonT(40), <2>3, <2>4, <2>5 DEF Numbered
<1>7. Own(p)'
  <2>1. /\ pc'[p] \in Locked /\ pc'[p] \notin {"callback", "syncRemoval"}
        /\ pc'[p] \notin Snapshot /\ pc'[p] \notin PastManifest /\ pc'[p] \notin PastLock
    BY ZenonT(40), <1>2 DEF Locked, Snapshot, PastManifest, PastLock
  <2>2. QED
    BY ZenonT(40), <1>1, <1>2, <1>3, <1>4, <2>1 DEF Own
<1>8. QED
  BY ZenonT(40), <1>1, <1>2, <1>3, <1>4, <1>5, <1>6, <1>7, BaseFrame DEF HolderMoves

LEMMA SyncJournalBase ==
    ASSUME Base, NEW p \in Procs, SyncJournal(p), faults' = faults
    PROVE  Base'
<1>1. holder = p /\ seen.coordinator /\ Own(p)
  BY ZenonT(40), HolderFacts DEF SyncJournal, Locked, Applying
<1>2. /\ Locals' /\ Others(p) /\ publishing'[p] = publishing[p] /\ tx'[p] = tx[p]
      /\ pc'[p] = "applyManifest"
  BY ZenonT(40), SyncJournalEffect DEF Base
<1>3. /\ seen' = seen /\ disk' \in Disks
      /\ disk'.journal = {seen.journal} /\ disk'.manifest = disk.manifest /\ disk'.lock = disk.lock
  BY ZenonT(40), SyncState DEF SyncJournal, Base, Types
<1>4. UNCHANGED <<txs, claimed, holder>>
  BY ZenonT(40) DEF SyncJournal, ghosts
<1>5. Types'
  BY ZenonT(40), <1>3, <1>4 DEF Base, Types
<1>6. Numbered'
  BY ZenonT(40), <1>3, <1>4 DEF Base, Numbered
<1>7. Own(p)'
  <2>1. /\ pc[p] \in Journalled /\ pc'[p] \in Locked /\ pc'[p] \in Applying
        /\ pc'[p] \notin {"callback", "syncRemoval"} /\ pc'[p] \notin Snapshot
        /\ pc'[p] \in PastManifest => pc[p] \in PastManifest
        /\ pc'[p] \in PastLock => pc[p] \in PastLock
    BY ZenonT(40), <1>2 DEF SyncJournal, Journalled, Locked, Applying, Snapshot, PastManifest,
       PastLock
  <2>2. QED
    BY ZenonT(40), <1>1, <1>2, <1>3, <1>4, <2>1 DEF Own, ManifestApplied, LockApplied
<1>8. QED
  BY ZenonT(40), <1>1, <1>2, <1>3, <1>4, <1>5, <1>6, <1>7, BaseFrame DEF HolderMoves

LEMMA SyncProjectBase ==
    ASSUME Base, NEW p \in Procs, SyncProject(p), faults' = faults
    PROVE  Base'
<1>1. holder = p /\ seen.coordinator /\ Own(p)
  BY ZenonT(40), HolderFacts DEF SyncProject, Locked, Applying
<1>2. /\ Locals' /\ Others(p) /\ publishing'[p] = publishing[p] /\ tx'[p] = tx[p]
      /\ pc'[p] = "removeJournal"
  BY ZenonT(40), SyncProjectEffect DEF Base
<1>3. /\ seen' = seen /\ disk' \in Disks
      /\ disk'.journal = disk.journal /\ disk'.manifest = {seen.manifest} /\ disk'.lock = {seen.lock}
  BY ZenonT(40), SyncDocuments DEF SyncProject, Base, Types
<1>4. UNCHANGED <<txs, claimed, holder>>
  BY ZenonT(40) DEF SyncProject, ghosts
<1>5. Types'
  BY ZenonT(40), <1>3, <1>4 DEF Base, Types
<1>6. Numbered'
  BY ZenonT(40), <1>3, <1>4 DEF Base, Numbered
<1>7. Own(p)'
  <2>1. /\ pc[p] \in Journalled /\ pc'[p] \in Locked /\ pc'[p] \in Applying
        /\ pc'[p] \notin {"callback", "syncRemoval"} /\ pc'[p] \notin Snapshot
        /\ pc'[p] \in PastManifest => pc[p] \in PastManifest
        /\ pc'[p] \in PastLock => pc[p] \in PastLock
    BY ZenonT(40), <1>2 DEF SyncProject, Journalled, Locked, Applying, Snapshot, PastManifest,
       PastLock
  <2>2. QED
    BY ZenonT(40), <1>1, <1>2, <1>3, <1>4, <2>1 DEF Own, ManifestApplied, LockApplied
<1>8. QED
  BY ZenonT(40), <1>1, <1>2, <1>3, <1>4, <1>5, <1>6, <1>7, BaseFrame DEF HolderMoves

\* applyJournal writes the manifest: what the files hold afterwards.
LEMMA ApplyManifestFiles ==
    ASSUME Base, NEW p \in Procs, ApplyManifest(p)
    PROVE  /\ seen' \in Contents /\ disk' \in Disks
           /\ tx[p] = seen.journal
           /\ seen'.journal = seen.journal /\ disk'.journal = disk.journal
           /\ seen'.lock = seen.lock /\ disk'.lock = disk.lock
           /\ seen'.coordinator = seen.coordinator
           /\ "manifest" \in tx[p].files =>
                seen'.manifest = tx[p].id /\ disk'.manifest = disk.manifest \cup {tx[p].id}
           /\ "manifest" \notin tx[p].files =>
                seen'.manifest = seen.manifest /\ disk'.manifest = disk.manifest
<1>1. seen \in Contents /\ disk \in Disks /\ tx[p] \in Journals
  BY ZenonT(40) DEF Base, Types, Locals
<1>2. tx[p] = seen.journal
  BY ZenonT(40) DEF Base, Own, ApplyManifest, Journalled
<1>3. CASE "manifest" \in tx[p].files
  <2>1. Rename("manifest", tx[p].id) /\ tx[p].id \in Nat
    BY ZenonT(40), <1>1, <1>3 DEF ApplyManifest, Apply, Journals
  <2>2. QED
    BY ZenonT(40), <1>1, <1>2, <1>3, <2>1, RenameManifest
<1>4. CASE "manifest" \notin tx[p].files
  <2>1. seen' = seen /\ disk' = disk
    BY ZenonT(40), <1>4 DEF ApplyManifest, Apply, files
  <2>2. QED
    BY ZenonT(40), <1>1, <1>2, <1>4, <2>1
<1>5. QED
  BY ZenonT(40), <1>3, <1>4

LEMMA ApplyManifestBase ==
    ASSUME Base, NEW p \in Procs, ApplyManifest(p), faults' = faults
    PROVE  Base'
<1>1. holder = p /\ seen.coordinator /\ Own(p)
  BY ZenonT(40), HolderFacts DEF ApplyManifest, Locked, Applying
<1>2. /\ Locals' /\ Others(p) /\ publishing'[p] = publishing[p] /\ tx'[p] = tx[p]
      /\ pc'[p] = "applyLock"
  BY ZenonT(40), ApplyManifestEffect DEF Base
<1>3. /\ seen' \in Contents /\ disk' \in Disks /\ tx[p] = seen.journal
      /\ seen'.journal = seen.journal /\ disk'.journal = disk.journal
      /\ seen'.lock = seen.lock /\ disk'.lock = disk.lock
      /\ seen'.coordinator = seen.coordinator
  BY ZenonT(40), ApplyManifestFiles
<1>4. /\ "manifest" \in tx[p].files =>
           seen'.manifest = tx[p].id /\ disk'.manifest = disk.manifest \cup {tx[p].id}
      /\ "manifest" \notin tx[p].files =>
           seen'.manifest = seen.manifest /\ disk'.manifest = disk.manifest
  BY ZenonT(40), ApplyManifestFiles
<1>5. UNCHANGED <<txs, claimed, holder>>
  BY ZenonT(40) DEF ApplyManifest, ghosts
<1>6. Types'
  BY ZenonT(40), <1>3, <1>5 DEF Base, Types
<1>7. Numbered'
  <2>1. Numbered
    BY ZenonT(40) DEF Base
  <2>2. seen'.manifest <= txs' /\ \A n \in disk'.manifest : n <= txs'
    BY ZenonT(40), <1>3, <1>4, <1>5, <2>1 DEF Numbered
  <2>3. QED
    BY ZenonT(40), <1>3, <1>5, <2>1, <2>2 DEF Numbered
<1>8. Own(p)'
  <2>1. /\ pc'[p] \in Locked /\ pc'[p] \in Applying /\ pc'[p] \in PastManifest
        /\ pc'[p] \notin {"callback", "syncRemoval"} /\ pc'[p] \notin Snapshot
    BY ZenonT(40), <1>2 DEF Locked, Applying, Snapshot, PastManifest
  <2>2. ManifestApplied(tx[p])'
    BY ZenonT(40), <1>2, <1>4 DEF ManifestApplied
  <2>3. pc'[p] \in PastLock => LockApplied(tx[p])'
    BY ZenonT(40), <1>1, <1>2, <1>3 DEF Own, ApplyManifest, LockApplied, PastLock, PastManifest
  <2>4. QED
    BY ZenonT(40), <1>1, <1>2, <1>3, <1>5, <2>1, <2>2, <2>3 DEF Own
<1>9. QED
  BY ZenonT(40), <1>1, <1>2, <1>3, <1>5, <1>6, <1>7, <1>8, BaseFrame DEF HolderMoves

\* applyJournal writes the lock document: what the files hold afterwards.
LEMMA ApplyLockFiles ==
    ASSUME Base, NEW p \in Procs, ApplyLock(p)
    PROVE  /\ seen' \in Contents /\ disk' \in Disks
           /\ tx[p] = seen.journal
           /\ seen'.journal = seen.journal /\ disk'.journal = disk.journal
           /\ seen'.manifest = seen.manifest /\ disk'.manifest = disk.manifest
           /\ seen'.coordinator = seen.coordinator
           /\ "lock" \in tx[p].files =>
                seen'.lock = tx[p].id /\ disk'.lock = disk.lock \cup {tx[p].id}
           /\ "lock" \notin tx[p].files =>
                seen'.lock = seen.lock /\ disk'.lock = disk.lock
<1>1. seen \in Contents /\ disk \in Disks /\ tx[p] \in Journals
  BY ZenonT(40) DEF Base, Types, Locals
<1>2. tx[p] = seen.journal
  BY ZenonT(40) DEF Base, Own, ApplyLock, Journalled
<1>3. CASE "lock" \in tx[p].files
  <2>1. Rename("lock", tx[p].id) /\ tx[p].id \in Nat
    BY ZenonT(40), <1>1, <1>3 DEF ApplyLock, Apply, Journals
  <2>2. QED
    BY ZenonT(40), <1>1, <1>2, <1>3, <2>1, RenameLock
<1>4. CASE "lock" \notin tx[p].files
  <2>1. seen' = seen /\ disk' = disk
    BY ZenonT(40), <1>4 DEF ApplyLock, Apply, files
  <2>2. QED
    BY ZenonT(40), <1>1, <1>2, <1>4, <2>1
<1>5. QED
  BY ZenonT(40), <1>3, <1>4

LEMMA ApplyLockBase ==
    ASSUME Base, NEW p \in Procs, ApplyLock(p), faults' = faults
    PROVE  Base'
<1>1. holder = p /\ seen.coordinator /\ Own(p)
  BY ZenonT(40), HolderFacts DEF ApplyLock, Locked, Applying
<1>2. /\ Locals' /\ Others(p) /\ publishing'[p] = publishing[p] /\ tx'[p] = tx[p]
      /\ pc'[p] = "syncProject"
  BY ZenonT(40), ApplyLockEffect DEF Base
<1>3. /\ seen' \in Contents /\ disk' \in Disks /\ tx[p] = seen.journal
      /\ seen'.journal = seen.journal /\ disk'.journal = disk.journal
      /\ seen'.manifest = seen.manifest /\ disk'.manifest = disk.manifest
      /\ seen'.coordinator = seen.coordinator
  BY ZenonT(40), ApplyLockFiles
<1>4. /\ "lock" \in tx[p].files =>
           seen'.lock = tx[p].id /\ disk'.lock = disk.lock \cup {tx[p].id}
      /\ "lock" \notin tx[p].files =>
           seen'.lock = seen.lock /\ disk'.lock = disk.lock
  BY ZenonT(40), ApplyLockFiles
<1>5. UNCHANGED <<txs, claimed, holder>>
  BY ZenonT(40) DEF ApplyLock, ghosts
<1>6. Types'
  BY ZenonT(40), <1>3, <1>5 DEF Base, Types
<1>7. Numbered'
  <2>1. Numbered
    BY ZenonT(40) DEF Base
  <2>2. seen'.lock <= txs' /\ \A n \in disk'.lock : n <= txs'
    BY ZenonT(40), <1>3, <1>4, <1>5, <2>1 DEF Numbered
  <2>3. QED
    BY ZenonT(40), <1>3, <1>5, <2>1, <2>2 DEF Numbered
<1>8. Own(p)'
  <2>1. /\ pc'[p] \in Locked /\ pc'[p] \in Applying /\ pc'[p] \in PastManifest
        /\ pc'[p] \notin {"callback", "syncRemoval"} /\ pc'[p] \notin Snapshot
    BY ZenonT(40), <1>2 DEF Locked, Applying, Snapshot, PastManifest
  <2>2. LockApplied(tx[p])'
    BY ZenonT(40), <1>2, <1>4 DEF LockApplied
  <2>3. pc'[p] \in PastManifest => ManifestApplied(tx[p])'
    BY ZenonT(40), <1>1, <1>2, <1>3 DEF Own, ApplyLock, ManifestApplied, PastLock, PastManifest
  <2>4. QED
    BY ZenonT(40), <1>1, <1>2, <1>3, <1>5, <2>1, <2>2, <2>3 DEF Own
<1>9. QED
  BY ZenonT(40), <1>1, <1>2, <1>3, <1>5, <1>6, <1>7, <1>8, BaseFrame DEF HolderMoves

LEMMA RemoveJournalBase ==
    ASSUME Base, NEW p \in Procs, RemoveJournal(p), faults' = faults
    PROVE  Base'
<1>1. holder = p /\ seen.coordinator /\ Own(p)
  BY ZenonT(40), HolderFacts DEF RemoveJournal, Locked, Applying
<1>2. /\ Locals' /\ Others(p) /\ publishing'[p] = publishing[p] /\ tx'[p] = tx[p]
      /\ pc'[p] = "syncRemoval"
  BY ZenonT(40), RemoveJournalEffect DEF Base
<1>3. /\ seen' \in Contents /\ disk' \in Disks
      /\ seen'.journal = NoJournal /\ disk'.journal = disk.journal \cup {NoJournal}
      /\ seen'.manifest = seen.manifest /\ disk'.manifest = disk.manifest
      /\ seen'.lock = seen.lock /\ disk'.lock = disk.lock
      /\ seen'.coordinator = seen.coordinator
  BY ZenonT(40), RenameJournal, Constants DEF RemoveJournal, Base, Types
<1>4. UNCHANGED <<txs, claimed, holder>>
  BY ZenonT(40) DEF RemoveJournal, ghosts
<1>5. Types'
  BY ZenonT(40), <1>3, <1>4 DEF Base, Types
<1>6. Numbered'
  <2>1. NoJournal.id <= txs
    BY Constants DEF Base, Types
  <2>2. QED
    BY ZenonT(40), <1>3, <1>4, <2>1 DEF Base, Numbered
<1>7. Own(p)'
  <2>1. /\ pc[p] \in PastManifest /\ pc[p] \in PastLock
        /\ pc'[p] \in Locked /\ pc'[p] \in Applying
        /\ pc'[p] \notin Journalled /\ pc'[p] \notin Snapshot
    BY ZenonT(40), <1>2 DEF RemoveJournal, Journalled, Locked, Applying, Snapshot, PastManifest,
       PastLock
  <2>2. QED
    BY ZenonT(40), <1>1, <1>2, <1>3, <1>4, <2>1 DEF Own, ManifestApplied, LockApplied
<1>8. QED
  BY ZenonT(40), <1>1, <1>2, <1>3, <1>4, <1>5, <1>6, <1>7, BaseFrame DEF HolderMoves

LEMMA SyncRemovalBase ==
    ASSUME Base, NEW p \in Procs, SyncRemoval(p), faults' = faults
    PROVE  Base'
<1>1. holder = p /\ seen.coordinator /\ Own(p)
  BY ZenonT(40), HolderFacts DEF SyncRemoval, Locked, Applying
<1>2. Locals' /\ Others(p) /\ ~publishing'[p] /\ pc'[p] = Callback(p)
  BY ZenonT(40), SyncRemovalEffect DEF Base
<1>3. /\ seen' = seen /\ disk' \in Disks
      /\ disk'.journal = {seen.journal} /\ disk'.manifest = disk.manifest /\ disk'.lock = disk.lock
  BY ZenonT(40), SyncState DEF SyncRemoval, Base, Types
<1>4. UNCHANGED <<txs, holder>> /\ claimed' \in Pairs
  BY ZenonT(40), ClaimPair DEF SyncRemoval
<1>5. Types'
  BY ZenonT(40), <1>3, <1>4 DEF Base, Types
<1>6. Numbered'
  BY ZenonT(40), <1>3, <1>4 DEF Base, Numbered
<1>7. Own(p)'
  <2>1. pc'[p] \in {"readLock", "callback"}
    BY ZenonT(40), <1>2 DEF Callback
  <2>2. seen.journal = NoJournal
    BY ZenonT(40), <1>1 DEF Own, SyncRemoval
  <2>3. QED
    BY ZenonT(40), <1>1, <1>2, <1>3, <1>4, <2>1, <2>2, LockedOwns DEF Snapshot
<1>8. QED
  BY ZenonT(40), <1>1, <1>2, <1>3, <1>4, <1>5, <1>6, <1>7, BaseFrame DEF HolderMoves

\* What may be found: contents the directories may hold, the journal only under
\* a name .wago.
LEMMA OutcomeFiles ==
    ASSUME disk \in Disks, NEW s \in Outcomes
    PROVE  /\ s \in Contents /\ s.manifest \in disk.manifest /\ s.lock \in disk.lock
           /\ s.journal \in disk.journal \cup {NoJournal}
           /\ disk.wago = {TRUE} => s.journal \in disk.journal
<1>1. PICK t \in [manifest : disk.manifest, lock : disk.lock, wago : disk.wago,
                  journal : disk.journal, coordinator : disk.coordinator] :
        s = Reachable(t)
  BY ZenonT(40) DEF Outcomes
<1>2. /\ t.manifest \in disk.manifest /\ t.lock \in disk.lock /\ t.wago \in disk.wago
      /\ t.journal \in disk.journal /\ t.coordinator \in disk.coordinator
  BY ZenonT(40), <1>1
<1>3. t \in Contents
  BY ZenonT(40), <1>1 DEF Disks, Contents
<1>4. CASE t.wago
  BY ZenonT(40), <1>1, <1>2, <1>3, <1>4 DEF Reachable
<1>5. CASE ~t.wago
  <2>1. s = [t EXCEPT !.journal = NoJournal, !.coordinator = FALSE]
    BY ZenonT(40), <1>1, <1>5 DEF Reachable
  <2>2. s \in Contents /\ s.manifest = t.manifest /\ s.lock = t.lock /\ s.journal = NoJournal
    BY ZenonT(40), <1>3, <2>1, Constants DEF Contents
  <2>3. disk.wago # {TRUE}
    <3>1. t.wago \in {TRUE} => t.wago
      BY ZenonT(40)
    <3>2. QED
      BY ZenonT(40), <1>2, <1>5, <3>1
  <2>4. QED
    BY ZenonT(40), <1>2, <2>2, <2>3
<1>6. QED
  BY ZenonT(40), <1>4, <1>5

\* What a power loss leaves.
LEMMA PowerLossFiles ==
    ASSUME Base, PowerLoss
    PROVE  /\ seen' \in Contents /\ disk' \in Disks
           /\ seen'.manifest \in disk.manifest /\ seen'.lock \in disk.lock
           /\ seen'.journal \in disk.journal \cup {NoJournal}
           /\ disk'.manifest = {seen'.manifest} /\ disk'.lock = {seen'.lock}
           /\ disk'.journal = {seen'.journal}
<1>1. disk \in Disks /\ seen' \in Outcomes /\ disk' = [f \in DOMAIN disk |-> {seen'[f]}]
  BY ZenonT(40) DEF Base, Types, PowerLoss
<1>2. /\ seen' \in Contents /\ seen'.manifest \in disk.manifest /\ seen'.lock \in disk.lock
      /\ seen'.journal \in disk.journal \cup {NoJournal}
  BY ZenonT(40), <1>1, OutcomeFiles
<1>3. DOMAIN disk = {"manifest", "lock", "wago", "journal", "coordinator"}
  BY ZenonT(40), <1>1 DEF Disks
<1>4. /\ disk'.manifest = {seen'.manifest} /\ disk'.lock = {seen'.lock}
      /\ disk'.wago = {seen'.wago}
      /\ disk'.journal = {seen'.journal} /\ disk'.coordinator = {seen'.coordinator}
  BY ZenonT(40), <1>1, <1>3
<1>5. disk' \in Disks
  BY ZenonT(40), <1>1, <1>2, <1>3, <1>4 DEF Disks, Contents
<1>6. QED
  BY ZenonT(40), <1>2, <1>4, <1>5

LEMMA PowerLossBase ==
    ASSUME Base, PowerLoss, faults' = faults
    PROVE  Base'
<1>1. /\ seen' \in Contents /\ disk' \in Disks
      /\ seen'.manifest \in disk.manifest /\ seen'.lock \in disk.lock
      /\ seen'.journal \in disk.journal \cup {NoJournal}
      /\ disk'.manifest = {seen'.manifest} /\ disk'.lock = {seen'.lock}
      /\ disk'.journal = {seen'.journal}
  BY ZenonT(40), PowerLossFiles
<1>2. Types'
  BY ZenonT(40), <1>1 DEF Base, Types, PowerLoss
<1>3. Locals'
  BY ZenonT(40), Constants DEF PowerLoss, Locals
<1>4. Numbered'
  <2>1. NoJournal.id <= txs
    BY Constants DEF Base, Types
  <2>2. QED
    BY ZenonT(40), <1>1, <2>1 DEF Base, Numbered, PowerLoss
<1>5. ASSUME NEW p \in Procs
      PROVE  Own(p)'
  BY ZenonT(40), LockAssumption, UnlockedOwns DEF PowerLoss, Outside
<1>6. QED
  BY ZenonT(40), <1>2, <1>3, <1>4, <1>5 DEF Base

LEMMA InitBase ==
    ASSUME Init
    PROVE  Base
<1>1. seen \in Contents /\ seen.manifest = 0 /\ seen.lock = 0 /\ seen.journal = NoJournal
  <2>1. PICK used \in BOOLEAN :
          seen = [manifest |-> 0, lock |-> 0, wago |-> used,
                  journal |-> NoJournal, coordinator |-> used]
    BY ZenonT(40) DEF Init
  <2>2. 0 \in Nat
    OBVIOUS
  <2>3. QED
    BY ZenonT(40), <2>1, <2>2, Constants DEF Contents
<1>2. DOMAIN seen = {"manifest", "lock", "wago", "journal", "coordinator"}
  BY ZenonT(40) DEF Init
<1>3. /\ disk.manifest = {seen.manifest} /\ disk.lock = {seen.lock}
      /\ disk.wago = {seen.wago}
      /\ disk.journal = {seen.journal} /\ disk.coordinator = {seen.coordinator}
  BY ZenonT(40), <1>2 DEF Init
<1>4. disk \in Disks
  BY ZenonT(40), <1>1, <1>2, <1>3 DEF Init, Disks, Contents
<1>5. Types
  BY ZenonT(40), <1>1, <1>4, Constants DEF Init, Types
<1>6. Locals
  BY ZenonT(40), Constants DEF Init, Locals
<1>7. Numbered
  BY <1>1, <1>3, Constants DEF Init, Numbered
<1>8. ASSUME NEW p \in Procs
      PROVE  Own(p)
  BY ZenonT(40), LockAssumption DEF Init, Own, Locked, Applying, Snapshot, Journalled,
     PastManifest, PastLock
<1>9. QED
  BY ZenonT(40), <1>5, <1>6, <1>7, <1>8 DEF Base

\* A step that changes nothing.
LEMMA StutterBase ==
    ASSUME Base, UNCHANGED vars
    PROVE  Base'
<1>1. /\ UNCHANGED <<seen, disk, holder, pc, reader, again, publishing, tx, got>>
      /\ UNCHANGED <<txs, faults, claimed, floor>>
  BY ZenonT(40) DEF vars, files, locals, ghosts
<1>2. Types' /\ Locals' /\ Numbered'
  BY ZenonT(40), <1>1 DEF Base, Types, Locals, Numbered
<1>3. \A p \in Procs : Own(p)'
  BY ZenonT(40), <1>1 DEF Base, Own, ManifestApplied, LockApplied
<1>4. QED
  BY ZenonT(40), <1>2, <1>3 DEF Base

LEMMA StepBase ==
    ASSUME Base, NEW p \in Procs, Step(p), faults' = faults
    PROVE  Base'
<1>1. CASE BeginRead(p)
  BY ZenonT(40), <1>1, BeginReadBase
<1>2. CASE StatJournal(p)
  BY ZenonT(40), <1>2, StatJournalBase
<1>3. CASE StatLock(p)
  BY ZenonT(40), <1>3, StatLockBase
<1>4. CASE ReturnUnlocked(p)
  BY ZenonT(40), <1>4, ReturnUnlockedBase
<1>5. CASE ReadLock(p)
  BY ZenonT(40), <1>5, ReadLockBase
<1>6. CASE ReadManifest(p)
  BY ZenonT(40), <1>6, ReadManifestBase
<1>7. CASE BeginMutation(p)
  BY ZenonT(40), <1>7, BeginMutationBase
<1>8. CASE OpenLock(p)
  BY ZenonT(40), <1>8, OpenLockBase
<1>9. CASE TakeLock(p)
  BY ZenonT(40), <1>9, TakeLockBase
<1>10. CASE CancelWait(p)
  BY ZenonT(40), <1>10, CancelWaitBase
<1>11. CASE Recover(p)
  BY ZenonT(40), <1>11, RecoverBase
<1>12. CASE EndCallback(p)
  BY ZenonT(40), <1>12, EndCallbackBase
<1>13. CASE Close(p)
  BY ZenonT(40), <1>13, CloseBase
<1>14. CASE WriteJournal(p)
  BY ZenonT(40), <1>14, WriteJournalBase
<1>15. CASE SyncJournal(p)
  BY ZenonT(40), <1>15, SyncJournalBase
<1>16. CASE ApplyManifest(p)
  BY ZenonT(40), <1>16, ApplyManifestBase
<1>17. CASE ApplyLock(p)
  BY ZenonT(40), <1>17, ApplyLockBase
<1>18. CASE SyncProject(p)
  BY ZenonT(40), <1>18, SyncProjectBase
<1>19. CASE RemoveJournal(p)
  BY ZenonT(40), <1>19, RemoveJournalBase
<1>20. CASE SyncRemoval(p)
  BY ZenonT(40), <1>20, SyncRemovalBase
<1>21. CASE ApplyError(p)
  BY ZenonT(40), <1>21, ApplyErrorBase
<1>22. CASE JournalSyncError(p)
  BY ZenonT(40), <1>22, JournalSyncErrorBase
<1>23. CASE ReadError(p)
  BY ZenonT(40), <1>23, ReadErrorBase
<1>24. CASE StatError(p)
  BY ZenonT(40), <1>24, StatErrorBase
<1>25. CASE Kill(p)
  BY ZenonT(40), <1>25, KillBase
<1>26. QED
  BY ZenonT(40), <1>1, <1>2, <1>3, <1>4, <1>5, <1>6, <1>7, <1>8, <1>9, <1>10, <1>11, <1>12,
     <1>13, <1>14, <1>15, <1>16, <1>17, <1>18, <1>19, <1>20, <1>21, <1>22, <1>23, <1>24, <1>25
     DEF Step

LEMMA NextBase ==
    ASSUME Base, [Next]_vars
    PROVE  Base'
<1>1. CASE UNCHANGED vars
  BY ZenonT(40), <1>1, StutterBase
<1>2. CASE Next
  BY ZenonT(40), <1>2, StepBase, PowerLossBase DEF Next
<1>3. QED
  BY ZenonT(40), <1>1, <1>2

LEMMA BaseInvariance == Spec => []Base
<1>1. Init => Base
  BY ZenonT(40), InitBase
<1>2. Base /\ [Next]_vars => Base'
  BY ZenonT(40), NextBase
<1>3. QED
  BY <1>1, <1>2, PTL DEF Spec

-----------------------------------------------------------------------------
(* What is effective only ever gets newer. *)

LEMMA OpenLockKeeps ==
    ASSUME Base, NEW p \in Procs, OpenLock(p)
    PROVE  /\ Effective(seen') = Effective(seen) /\ Pair(seen') = Pair(seen)
           /\ SameContents
           /\ disk'.journal = disk.journal
           /\ disk'.manifest = disk.manifest /\ disk'.lock = disk.lock
           /\ seen'.coordinator = TRUE
<1>1. seen \in Contents /\ disk \in Disks /\ CreateCoordinator
  BY ZenonT(40) DEF Base, Types, OpenLock
<1>2. /\ seen' \in Contents /\ seen'.coordinator = TRUE
      /\ seen'.journal = seen.journal /\ disk'.journal = disk.journal
      /\ seen'.manifest = seen.manifest /\ disk'.manifest = disk.manifest
      /\ seen'.lock = seen.lock /\ disk'.lock = disk.lock
  BY ZenonT(40), <1>1, OpenCoordinator
<1>3. QED
  BY ZenonT(40), <1>1, <1>2, SameEffective DEF SameContents

LEMMA WriteJournalForward ==
    ASSUME Base, NEW p \in Procs, WriteJournal(p)
    PROVE  /\ Effective(seen') \in whole' /\ whole \subseteq whole'
           /\ AtLeast(Effective(seen'), Effective(seen))
           /\ Pair(seen') = Effective(seen)
           /\ seen.journal = NoJournal
           /\ seen'.manifest = seen.manifest /\ disk'.manifest = disk.manifest
           /\ seen'.lock = seen.lock /\ disk'.lock = disk.lock
           /\ disk'.journal = disk.journal \cup {seen'.journal}
           /\ seen'.coordinator = seen.coordinator
<1>1. PICK j \in Journals :
        /\ j.id = txs + 1 /\ Rename("journal", j)
        /\ whole' = whole \cup {Overlay(Effective(seen), j)}
  BY ZenonT(40), WriteJournalEffect DEF Base
<1>2. seen.journal = NoJournal /\ seen \in Contents /\ disk \in Disks
  BY ZenonT(40) DEF Base, Types, Own, WriteJournal
<1>3. /\ seen' \in Contents
      /\ seen'.journal = j /\ disk'.journal = disk.journal \cup {j}
      /\ seen'.manifest = seen.manifest /\ disk'.manifest = disk.manifest
      /\ seen'.lock = seen.lock /\ disk'.lock = disk.lock
      /\ seen'.coordinator = seen.coordinator
  BY ZenonT(40), <1>1, <1>2, RenameJournal
<1>4. Effective(seen) = Pair(seen) /\ Pair(seen') = Pair(seen)
  BY ZenonT(40), <1>2, <1>3, EffectiveWithout, SameEffective
<1>5. /\ Effective(seen')["manifest"] = IF "manifest" \in j.files THEN j.id ELSE seen.manifest
      /\ Effective(seen')["lock"] = IF "lock" \in j.files THEN j.id ELSE seen.lock
      /\ Effective(seen') \in Pairs
  BY ZenonT(40), <1>3, EffectiveAt
<1>6. /\ Pair(seen)["manifest"] = seen.manifest /\ Pair(seen)["lock"] = seen.lock
      /\ Pair(seen) \in Pairs
  BY ZenonT(40), <1>2, EffectiveAt
<1>7. Effective(seen') = Overlay(Effective(seen), j)
  BY <1>4, <1>5, <1>6, OverlayAt, SamePair
<1>8. AtLeast(Effective(seen'), Effective(seen))
  <2>1. /\ seen.manifest \in Nat /\ seen.lock \in Nat /\ txs \in Nat
        /\ seen.manifest <= txs /\ seen.lock <= txs
    BY ZenonT(40), <1>2, Fields DEF Base, Types, Numbered
  <2>2. Effective(seen')["manifest"] >= seen.manifest
    BY <1>1, <1>5, <2>1
  <2>3. Effective(seen')["lock"] >= seen.lock
    BY <1>1, <1>5, <2>1
  <2>4. QED
    BY ZenonT(40), <1>4, <1>6, <2>2, <2>3, AtLeastAt
<1>9. QED
  BY ZenonT(40), <1>1, <1>2, <1>3, <1>4, <1>7, <1>8

LEMMA ApplyManifestKeeps ==
    ASSUME Base, NEW p \in Procs, ApplyManifest(p)
    PROVE  Effective(seen') = Effective(seen)
<1>1. seen \in Contents
  BY ZenonT(40) DEF Base, Types
<1>2. /\ seen' \in Contents /\ seen'.journal = seen.journal /\ seen'.lock = seen.lock
      /\ "manifest" \notin seen.journal.files => seen'.manifest = seen.manifest
  BY ZenonT(40), ApplyManifestFiles
<1>3. /\ Effective(seen')["manifest"] = Effective(seen)["manifest"]
      /\ Effective(seen')["lock"] = Effective(seen)["lock"]
  BY ZenonT(40), <1>1, <1>2, EffectiveAt
<1>4. QED
  BY ZenonT(40), <1>1, <1>2, <1>3, EffectiveAt, SamePair

LEMMA ApplyLockKeeps ==
    ASSUME Base, NEW p \in Procs, ApplyLock(p)
    PROVE  Effective(seen') = Effective(seen)
<1>1. seen \in Contents
  BY ZenonT(40) DEF Base, Types
<1>2. /\ seen' \in Contents /\ seen'.journal = seen.journal /\ seen'.manifest = seen.manifest
      /\ "lock" \notin seen.journal.files => seen'.lock = seen.lock
  BY ZenonT(40), ApplyLockFiles
<1>3. /\ Effective(seen')["manifest"] = Effective(seen)["manifest"]
      /\ Effective(seen')["lock"] = Effective(seen)["lock"]
  BY ZenonT(40), <1>1, <1>2, EffectiveAt
<1>4. QED
  BY ZenonT(40), <1>1, <1>2, <1>3, EffectiveAt, SamePair

LEMMA RemoveJournalKeeps ==
    ASSUME Base, NEW p \in Procs, RemoveJournal(p)
    PROVE  /\ Effective(seen') = Effective(seen)
           /\ seen'.journal = NoJournal /\ disk'.journal = disk.journal \cup {NoJournal}
           /\ seen'.manifest = seen.manifest /\ disk'.manifest = disk.manifest
           /\ seen'.lock = seen.lock /\ disk'.lock = disk.lock
           /\ seen'.coordinator = seen.coordinator
           /\ ManifestApplied(seen.journal) /\ LockApplied(seen.journal)
<1>1. seen \in Contents /\ disk \in Disks /\ Rename("journal", NoJournal)
  BY ZenonT(40) DEF Base, Types, RemoveJournal
<1>2. /\ seen' \in Contents
      /\ seen'.journal = NoJournal /\ disk'.journal = disk.journal \cup {NoJournal}
      /\ seen'.manifest = seen.manifest /\ disk'.manifest = disk.manifest
      /\ seen'.lock = seen.lock /\ disk'.lock = disk.lock
      /\ seen'.coordinator = seen.coordinator
  BY ZenonT(40), <1>1, RenameJournal, Constants
<1>3. ManifestApplied(seen.journal) /\ LockApplied(seen.journal)
  BY ZenonT(40) DEF Base, Own, RemoveJournal, Journalled, PastManifest, PastLock
<1>4. /\ Effective(seen')["manifest"] = Effective(seen)["manifest"]
      /\ Effective(seen')["lock"] = Effective(seen)["lock"]
  BY ZenonT(40), <1>1, <1>2, <1>3, EffectiveAt, Constants DEF ManifestApplied, LockApplied
<1>5. Effective(seen') = Effective(seen)
  BY ZenonT(40), <1>1, <1>2, <1>4, EffectiveAt, SamePair
<1>6. QED
  BY ZenonT(40), <1>2, <1>3, <1>5

\* Every other step leaves what is seen.
LEMMA StepForward ==
    ASSUME Base, NEW p \in Procs, Step(p)
    PROVE  AtLeast(Effective(seen'), Effective(seen))
<1>1. Effective(seen) \in Pairs
  BY ZenonT(40), EffectiveAt DEF Base, Types
<1>2. CASE seen' = seen
  BY ZenonT(40), <1>1, <1>2, AtLeastReflexive
<1>3. CASE WriteJournal(p)
  BY ZenonT(40), <1>3, WriteJournalForward
<1>4. CASE OpenLock(p)
  BY ZenonT(40), <1>1, <1>4, OpenLockKeeps, AtLeastReflexive
<1>5. CASE ApplyManifest(p)
  BY ZenonT(40), <1>1, <1>5, ApplyManifestKeeps, AtLeastReflexive
<1>6. CASE ApplyLock(p)
  BY ZenonT(40), <1>1, <1>6, ApplyLockKeeps, AtLeastReflexive
<1>7. CASE RemoveJournal(p)
  BY ZenonT(40), <1>1, <1>7, RemoveJournalKeeps, AtLeastReflexive
<1>8. CASE BeginRead(p) \/ StatJournal(p) \/ StatLock(p) \/ ReturnUnlocked(p) \/ ReadLock(p)
           \/ ReadManifest(p) \/ BeginMutation(p) \/ TakeLock(p) \/ CancelWait(p) \/ Recover(p)
           \/ EndCallback(p) \/ Close(p)
  <2>1. seen' = seen
    BY ZenonT(40), <1>8 DEF BeginRead, StatJournal, StatLock, ReturnUnlocked, ReadLock,
       ReadManifest,
                BeginMutation, TakeLock, CancelWait, Recover, EndCallback, Close, files
  <2>2. QED
    BY ZenonT(40), <1>2, <2>1
<1>9. CASE SyncJournal(p) \/ SyncProject(p) \/ SyncRemoval(p) \/ ApplyError(p)
           \/ JournalSyncError(p) \/ ReadError(p) \/ StatError(p) \/ Kill(p)
  <2>1. seen' = seen
    BY ZenonT(40), <1>9 DEF SyncJournal, SyncProject, SyncRemoval, SyncDirectory, ApplyError,
                JournalSyncError, ReadError, StatError, Kill, files
  <2>2. QED
    BY ZenonT(40), <1>2, <2>1
<1>10. QED
  BY ZenonT(40), <1>3, <1>4, <1>5, <1>6, <1>7, <1>8, <1>9 DEF Step

\* No step of any process takes back a transaction whose journal was replaced,
\* whatever fails and whoever dies: what the next process will recover only
\* gets newer.  (WithMutation, publish, recover and applyJournal; no assumption
\* on the faults.)
THEOREM NoTransactionIsRolledBack == Spec => NothingIsRolledBack
<1>1. Base /\ [Next]_vars =>
        [PowerLoss \/ AtLeast(Effective(seen'), Effective(seen))]_seen
  BY ZenonT(40), StepForward DEF Next, vars, files
<1>2. QED
  BY <1>1, BaseInvariance, PTL DEF Spec, NothingIsRolledBack

-----------------------------------------------------------------------------
(* The second layer: what the documents mean. *)

\* A step that touches no file and claims nothing.
LEMMA CalmSound ==
    ASSUME Base, Sound, Base', NEW p \in Procs, Others(p), HolderMoves(p),
           UNCHANGED <<seen, disk, whole, claimed, faults>>,
           "latePower" \in faults => pc[p] # "syncJournal",
           pc'[p] \notin {"syncJournal", "removeJournal"},
           Reads(p)'
    PROVE  Sound'
<1>1. AtLeast(claimed', claimed)
  BY ZenonT(40), AtLeastReflexive DEF Base, Types
<1>2. AtLeast(Effective(seen), claimed')
  BY ZenonT(40) DEF Sound, Current
<1>3. QED
  BY ZenonT(40), <1>1, <1>2, QuietSound

\* A process that has read nothing yet.
LEMMA ReadsNothing ==
    ASSUME NEW p \in Procs, AtLeast(claimed', floor'[p]), got'[p] = NoPair,
           pc'[p] # "readManifest",
           pc'[p] \in {"statLock", "readLock"} =>
               seen'.coordinator \/ seen'.journal = NoJournal
    PROVE  Reads(p)'
BY ZenonT(40) DEF Reads, Snapshot

LEMMA FloorKept ==
    ASSUME Base, Sound, NEW p \in Procs, claimed' = claimed, floor'[p] = floor[p]
    PROVE  AtLeast(claimed', floor'[p])
BY ZenonT(40) DEF Sound, Reads

LEMMA ReturnSound ==
    ASSUME Base, Sound, Base', NEW p \in Procs, NEW r, Return(p, r), HolderMoves(p),
           UNCHANGED <<seen, disk, claimed, faults>>,
           "latePower" \in faults => pc[p] # "syncJournal",
           r # NoPair => r \in whole /\ AtLeast(r, floor[p])
    PROVE  Sound'
<1>1. /\ Others(p) /\ whole' = whole /\ pc'[p] = "idle" /\ got'[p] = r
      /\ floor'[p] = IF r = NoPair THEN Zero ELSE floor[p]
  BY ZenonT(40), ReturnEffect DEF Base
<1>2. AtLeast(claimed', floor'[p])
  BY ZenonT(40), <1>1, AtLeastReflexive DEF Base, Types, Sound, Reads
<1>3. Reads(p)'
  <2>1. CASE r = NoPair
    BY ZenonT(40), <1>1, <1>2, <2>1, ReadsNothing
  <2>2. CASE r # NoPair
    <3>1. floor'[p] = floor[p] /\ got'[p] \in whole' /\ AtLeast(got'[p], floor'[p])
      BY ZenonT(40), <1>1, <2>2
    <3>2. pc'[p] \notin Busy /\ pc'[p] \notin Snapshot \cup {"statLock"}
      BY ZenonT(40), <1>1 DEF Busy, Applying, Snapshot
    <3>3. QED
      BY ZenonT(40), <1>1, <1>2, <3>1, <3>2 DEF Reads
  <2>3. QED
    BY ZenonT(40), <2>1, <2>2
<1>4. QED
  BY ZenonT(40), <1>1, <1>3, CalmSound

LEMMA ReturnUnlockedSound ==
    ASSUME Base, Sound, Base', NEW p \in Procs, ReturnUnlocked(p), faults' = faults
    PROVE  Sound'
<1>1. /\ pc[p] = "statLock" /\ ~seen.coordinator /\ again[p] /\ Return(p, got[p])
      /\ UNCHANGED <<seen, disk, claimed, holder>>
  BY ZenonT(40) DEF ReturnUnlocked, files
<1>2. ASSUME got[p] # NoPair
      PROVE  got[p] \in whole /\ AtLeast(got[p], floor[p])
  <2>1. seen.journal = NoJournal /\ got[p] = Pair(seen) /\ AtLeast(claimed, floor[p])
    BY ZenonT(40), <1>1, <1>2 DEF Sound, Reads
  <2>2. got[p] = Effective(seen)
    BY ZenonT(40), <2>1, EffectiveWithout DEF Base, Types
  <2>3. got[p] \in whole /\ AtLeast(got[p], claimed)
    BY ZenonT(40), <2>2 DEF Sound, Current, EffectiveIsWhole
  <2>4. got[p] \in Pairs /\ claimed \in Pairs /\ floor[p] \in Pairs
    BY ZenonT(40), <2>2, EffectiveAt DEF Base, Types, Locals
  <2>5. QED
    BY ZenonT(40), <2>1, <2>3, <2>4, AtLeastTransitive
<1>3. QED
  BY ZenonT(40), <1>1, <1>2, ReturnSound DEF HolderMoves

LEMMA CloseSound ==
    ASSUME Base, Sound, Base', NEW p \in Procs, Close(p), faults' = faults
    PROVE  Sound'
<1>1. /\ pc[p] = "close" /\ holder' = Free /\ Return(p, got[p])
      /\ UNCHANGED <<seen, disk, claimed>>
  BY ZenonT(40) DEF Close, files
<1>2. holder = p
  BY ZenonT(40), <1>1, HolderFacts DEF Locked
<1>3. got[p] # NoPair => got[p] \in whole /\ AtLeast(got[p], floor[p])
  BY ZenonT(40), <1>1 DEF Sound, Reads
<1>4. QED
  BY ZenonT(40), <1>1, <1>2, <1>3, ReturnSound DEF HolderMoves

LEMMA CancelWaitSound ==
    ASSUME Base, Sound, Base', NEW p \in Procs, CancelWait(p), faults' = faults
    PROVE  Sound'
<1>1. /\ pc[p] # "syncJournal" /\ Return(p, NoPair)
      /\ UNCHANGED <<seen, disk, claimed, holder>>
  BY ZenonT(40) DEF CancelWait, files
<1>2. QED
  BY ZenonT(40), <1>1, ReturnSound DEF HolderMoves

LEMMA StatErrorSound ==
    ASSUME Base, Sound, Base', NEW p \in Procs, StatError(p), faults' = faults
    PROVE  Sound'
<1>1. /\ pc[p] # "syncJournal" /\ Return(p, NoPair)
      /\ UNCHANGED <<seen, disk, claimed, holder>>
  BY ZenonT(40) DEF StatError, files
<1>2. QED
  BY ZenonT(40), <1>1, ReturnSound DEF HolderMoves

\* With power failing, a process does not die before its journal is synced.
LEMMA KillSound ==
    ASSUME CoveredFaults, Base, Sound, Base', NEW p \in Procs, Kill(p), faults' = faults
    PROVE  Sound'
<1>1. Return(p, NoPair) /\ UNCHANGED <<seen, disk, claimed>>
      /\ holder' = IF holder = p THEN Free ELSE holder
  BY ZenonT(40) DEF Kill, files
<1>2. "latePower" \in faults => pc[p] # "syncJournal"
  BY ZenonT(40) DEF Kill, CoveredFaults, Base, Types
<1>3. HolderMoves(p)
  BY ZenonT(40), <1>1 DEF HolderMoves
<1>4. QED
  BY ZenonT(40), <1>1, <1>2, <1>3, ReturnSound

LEMMA BeginReadSound ==
    ASSUME Base, Sound, Base', NEW p \in Procs, BeginRead(p), faults' = faults
    PROVE  Sound'
<1>1. /\ Others(p) /\ pc'[p] = "statJournal" /\ got'[p] = NoPair /\ floor'[p] = claimed
  BY ZenonT(40), BeginReadEffect DEF Base, Types
<1>2. UNCHANGED <<seen, disk, whole, claimed, holder>> /\ pc[p] # "syncJournal"
  BY ZenonT(40) DEF BeginRead, files
<1>3. AtLeast(claimed', floor'[p])
  BY ZenonT(40), <1>1, <1>2, AtLeastReflexive DEF Base, Types
<1>4. Reads(p)'
  BY ZenonT(40), <1>1, <1>3, ReadsNothing
<1>5. QED
  BY ZenonT(40), <1>1, <1>2, <1>4, CalmSound DEF HolderMoves

LEMMA BeginMutationSound ==
    ASSUME Base, Sound, Base', NEW p \in Procs, BeginMutation(p), faults' = faults
    PROVE  Sound'
<1>1. /\ Others(p) /\ pc'[p] = "open" /\ got'[p] = NoPair /\ floor'[p] = Zero
  BY ZenonT(40), BeginMutationEffect DEF Base
<1>2. UNCHANGED <<seen, disk, whole, claimed, holder>> /\ pc[p] # "syncJournal"
  BY ZenonT(40) DEF BeginMutation, files
<1>3. AtLeast(claimed', floor'[p])
  BY ZenonT(40), <1>1, <1>2, AtLeastReflexive DEF Base, Types
<1>4. Reads(p)'
  BY ZenonT(40), <1>1, <1>3, ReadsNothing
<1>5. QED
  BY ZenonT(40), <1>1, <1>2, <1>4, CalmSound DEF HolderMoves

LEMMA StatJournalSound ==
    ASSUME Base, Sound, Base', NEW p \in Procs, StatJournal(p), faults' = faults
    PROVE  Sound'
<1>1. /\ Others(p) /\ got'[p] = got[p] /\ floor'[p] = floor[p] /\ again'[p] = again[p]
      /\ pc'[p] = IF seen.journal # NoJournal THEN "open" ELSE "statLock"
  BY ZenonT(40), StatJournalEffect DEF Base
<1>2. UNCHANGED <<seen, disk, whole, claimed, holder>> /\ pc[p] = "statJournal"
  BY ZenonT(40) DEF StatJournal, files, ghosts
<1>3. AtLeast(claimed', floor'[p])
  BY ZenonT(40), <1>1, <1>2, FloorKept
<1>4. Reads(p)'
  <2>1. /\ pc'[p] \notin Busy /\ pc'[p] \notin {"idle", "close"} /\ pc'[p] # "readManifest"
        /\ pc'[p] \in Snapshot \cup {"statLock"} => seen.journal = NoJournal
    BY ZenonT(40), <1>1 DEF Busy, Applying, Snapshot
  <2>2. ~seen.coordinator /\ again[p] /\ got[p] # NoPair => got[p] = Pair(seen)
    BY ZenonT(40), <1>2 DEF Sound, Reads
  <2>3. Pair(seen)' = Pair(seen)
    BY ZenonT(40), <1>2 DEF Pair
  <2>4. QED
    BY ZenonT(40), <1>1, <1>2, <1>3, <2>1, <2>2, <2>3 DEF Reads
<1>5. pc'[p] \notin {"syncJournal", "removeJournal"}
  BY ZenonT(40), <1>1
<1>6. QED
  BY ZenonT(40), <1>1, <1>2, <1>4, <1>5, CalmSound DEF HolderMoves

LEMMA StatLockSound ==
    ASSUME Base, Sound, Base', NEW p \in Procs, StatLock(p), faults' = faults
    PROVE  Sound'
<1>1. /\ Others(p) /\ got'[p] = got[p] /\ floor'[p] = floor[p]
      /\ pc'[p] = IF seen.coordinator THEN "open" ELSE "readLock"
  BY ZenonT(40), StatLockEffect DEF Base
<1>2. UNCHANGED <<seen, disk, whole, claimed, holder>> /\ pc[p] = "statLock"
  BY ZenonT(40) DEF StatLock, files, ghosts
<1>3. AtLeast(claimed', floor'[p])
  BY ZenonT(40), <1>1, <1>2, FloorKept
<1>4. Reads(p)'
  <2>1. /\ pc'[p] \notin Busy /\ pc'[p] \notin {"idle", "close"} /\ pc'[p] # "readManifest"
        /\ pc'[p] \notin {"statJournal", "statLock"}
    BY ZenonT(40), <1>1 DEF Busy, Applying
  <2>2. ~seen.coordinator => seen.journal = NoJournal
    BY ZenonT(40), <1>2 DEF Sound, Reads
  <2>3. QED
    BY ZenonT(40), <1>1, <1>2, <1>3, <2>1, <2>2 DEF Reads
<1>5. pc'[p] \notin {"syncJournal", "removeJournal"}
  BY ZenonT(40), <1>1
<1>6. QED
  BY ZenonT(40), <1>1, <1>2, <1>4, <1>5, CalmSound DEF HolderMoves

LEMMA ReadLockSound ==
    ASSUME Base, Sound, Base', NEW p \in Procs, ReadLock(p), faults' = faults
    PROVE  Sound'
<1>1. /\ Others(p) /\ got'[p] = [lock |-> seen.lock] /\ floor'[p] = floor[p]
      /\ pc'[p] = "readManifest"
  BY ZenonT(40), ReadLockEffect DEF Base
<1>2. UNCHANGED <<seen, disk, whole, claimed, holder>> /\ pc[p] = "readLock"
  BY ZenonT(40) DEF ReadLock, files, ghosts
<1>3. AtLeast(claimed', floor'[p])
  BY ZenonT(40), <1>1, <1>2, FloorKept
<1>4. Reads(p)'
  <2>1. /\ pc'[p] \notin Busy /\ pc'[p] \notin {"idle", "close"}
        /\ pc'[p] \notin {"statJournal", "statLock"}
    BY ZenonT(40), <1>1 DEF Busy, Applying
  <2>2. ~seen.coordinator => seen.journal = NoJournal
    BY ZenonT(40), <1>2 DEF Sound, Reads, Snapshot
  <2>3. got'[p].lock = seen'.lock
    BY <1>1, <1>2
  <2>4. QED
    BY ZenonT(40), <1>1, <1>2, <1>3, <2>1, <2>2, <2>3 DEF Reads
<1>5. QED
  BY ZenonT(40), <1>1, <1>2, <1>4, CalmSound DEF HolderMoves

LEMMA ReadManifestSound ==
    ASSUME Base, Sound, Base', NEW p \in Procs, ReadManifest(p), faults' = faults
    PROVE  Sound'
<1>1. /\ Others(p) /\ got'[p] = [manifest |-> seen.manifest, lock |-> got[p].lock]
      /\ floor'[p] = floor[p] /\ pc'[p] = IF holder = p THEN "close" ELSE "statJournal"
  BY ZenonT(40), ReadManifestEffect DEF Base
<1>2. UNCHANGED <<seen, disk, whole, claimed, holder>> /\ pc[p] = "readManifest"
  BY ZenonT(40) DEF ReadManifest, files, ghosts
<1>3. AtLeast(claimed', floor'[p]) /\ AtLeast(claimed, floor[p])
  BY ZenonT(40), <1>1, <1>2, FloorKept DEF Sound, Reads
<1>4. ASSUME holder = p \/ ~seen.coordinator
      PROVE  got'[p] = Pair(seen)
  <2>1. got[p].lock = seen.lock
    BY ZenonT(40), <1>2, <1>4 DEF Sound, Reads
  <2>2. [manifest |-> seen.manifest, lock |-> seen.lock] = Pair(seen)
    BY DEF Pair, Documents
  <2>3. QED
    BY ZenonT(40), <1>1, <2>1, <2>2
<1>5. Reads(p)'
  <2>1. CASE holder = p
    <3>1. pc'[p] = "close" /\ got'[p] = Pair(seen)
      BY ZenonT(40), <1>1, <1>4, <2>1
    <3>2. seen.journal = NoJournal
      BY ZenonT(40), <1>2, <2>1 DEF Base, Own, Snapshot
    <3>3. got'[p] = Effective(seen)
      BY ZenonT(40), <3>1, <3>2, EffectiveWithout DEF Base, Types
    <3>4. got'[p] \in whole' /\ AtLeast(got'[p], claimed)
      BY ZenonT(40), <1>2, <3>3 DEF Sound, Current, EffectiveIsWhole
    <3>5. got'[p] \in Pairs /\ claimed \in Pairs /\ floor[p] \in Pairs
      BY ZenonT(40), <3>3, EffectiveAt DEF Base, Types, Locals
    <3>6. AtLeast(got'[p], floor'[p])
      BY ZenonT(40), <1>1, <1>3, <3>4, <3>5, AtLeastTransitive
    <3>7. /\ pc'[p] \notin Busy /\ pc'[p] \notin Snapshot \cup {"statLock"}
          /\ pc'[p] \notin {"statJournal", "statLock"} /\ pc'[p] # "readManifest"
      BY ZenonT(40), <3>1 DEF Busy, Applying, Snapshot
    <3>8. QED
      BY ZenonT(40), <1>3, <3>4, <3>6, <3>7 DEF Reads
  <2>2. CASE holder # p
    <3>1. pc'[p] = "statJournal" /\ (~seen'.coordinator => got'[p] = Pair(seen)')
      BY ZenonT(40), <1>1, <1>2, <1>4, <2>2 DEF Pair
    <3>2. /\ pc'[p] \notin Busy /\ pc'[p] \notin Snapshot \cup {"statLock"}
          /\ pc'[p] \notin {"idle", "close"} /\ pc'[p] # "readManifest"
      BY ZenonT(40), <3>1 DEF Busy, Applying, Snapshot
    <3>3. QED
      BY ZenonT(40), <1>3, <3>1, <3>2 DEF Reads
  <2>3. QED
    BY ZenonT(40), <2>1, <2>2
<1>6. pc'[p] \notin {"syncJournal", "removeJournal"}
  BY ZenonT(40), <1>1
<1>7. QED
  BY ZenonT(40), <1>1, <1>2, <1>5, <1>6, CalmSound DEF HolderMoves

LEMMA ReadErrorSound ==
    ASSUME Base, Sound, Base', NEW p \in Procs, ReadError(p), faults' = faults
    PROVE  Sound'
<1>1. /\ Others(p) /\ got'[p] = NoPair /\ floor'[p] = floor[p]
      /\ pc'[p] = IF holder = p THEN "close" ELSE "statJournal"
  BY ZenonT(40), ReadErrorEffect DEF Base
<1>2. UNCHANGED <<seen, disk, whole, claimed, holder>> /\ pc[p] # "syncJournal"
  BY ZenonT(40) DEF ReadError, files, ghosts
<1>3. AtLeast(claimed', floor'[p])
  BY ZenonT(40), <1>1, <1>2, FloorKept
<1>4. pc'[p] \in {"close", "statJournal"}
  BY ZenonT(40), <1>1
<1>5. Reads(p)'
  BY ZenonT(40), <1>1, <1>3, <1>4, ReadsNothing
<1>6. QED
  BY ZenonT(40), <1>1, <1>2, <1>4, <1>5, CalmSound DEF HolderMoves

LEMMA TakeLockSound ==
    ASSUME Base, Sound, Base', NEW p \in Procs, TakeLock(p), faults' = faults
    PROVE  Sound'
<1>1. Others(p) /\ got'[p] = got[p] /\ floor'[p] = floor[p] /\ pc'[p] = "recover"
  BY ZenonT(40), TakeLockEffect DEF Base
<1>2. UNCHANGED <<seen, disk, whole, claimed>> /\ pc[p] = "wait"
  BY ZenonT(40) DEF TakeLock, files, ghosts
<1>3. AtLeast(claimed', floor'[p])
  BY ZenonT(40), <1>1, <1>2, FloorKept
<1>4. got[p] = NoPair
  BY ZenonT(40), <1>2 DEF Sound, Reads, Busy
<1>5. HolderMoves(p)
  BY ZenonT(40) DEF TakeLock, HolderMoves
<1>6. Reads(p)'
  BY ZenonT(40), <1>1, <1>3, <1>4, ReadsNothing
<1>7. QED
  BY ZenonT(40), <1>1, <1>2, <1>5, <1>6, CalmSound

LEMMA EndCallbackSound ==
    ASSUME Base, Sound, Base', NEW p \in Procs, EndCallback(p), faults' = faults
    PROVE  Sound'
<1>1. Others(p) /\ got'[p] = got[p] /\ floor'[p] = floor[p] /\ pc'[p] = "close"
  BY ZenonT(40), EndCallbackEffect DEF Base
<1>2. UNCHANGED <<seen, disk, whole, claimed>> /\ pc[p] = "callback"
  BY ZenonT(40) DEF EndCallback, files, ghosts
<1>3. AtLeast(claimed', floor'[p])
  BY ZenonT(40), <1>1, <1>2, FloorKept
<1>4. got[p] = NoPair
  BY ZenonT(40), <1>2 DEF Sound, Reads, Busy
<1>5. HolderMoves(p)
  BY ZenonT(40) DEF EndCallback, HolderMoves
<1>6. Reads(p)'
  BY ZenonT(40), <1>1, <1>3, <1>4, ReadsNothing
<1>7. QED
  BY ZenonT(40), <1>1, <1>2, <1>5, <1>6, CalmSound

LEMMA RecoverSound ==
    ASSUME Base, Sound, Base', NEW p \in Procs, Recover(p), faults' = faults
    PROVE  Sound'
<1>1. /\ Others(p) /\ got'[p] = got[p] /\ floor'[p] = floor[p]
      /\ pc'[p] = IF seen.journal = NoJournal THEN Callback(p) ELSE "applyManifest"
  BY ZenonT(40), RecoverEffect, Fields DEF Base, Types
<1>2. UNCHANGED <<seen, disk, whole, claimed, holder>> /\ pc[p] = "recover"
  BY ZenonT(40) DEF Recover, files, ghosts
<1>3. AtLeast(claimed', floor'[p])
  BY ZenonT(40), <1>1, <1>2, FloorKept
<1>4. got[p] = NoPair /\ seen.coordinator
  BY ZenonT(40), <1>2, HolderFacts DEF Sound, Reads, Busy, Locked
<1>5. pc'[p] \in {"readLock", "callback", "applyManifest"}
  BY ZenonT(40), <1>1 DEF Callback
<1>6. Reads(p)'
  BY ZenonT(40), <1>1, <1>2, <1>3, <1>4, <1>5, ReadsNothing
<1>7. QED
  BY ZenonT(40), <1>1, <1>2, <1>5, <1>6, CalmSound DEF HolderMoves


-----------------------------------------------------------------------------
(* Claims. *)

\* What a process may claim is effective: its journal is there, or its
\* documents are.
LEMMA ClaimIsEffective ==
    ASSUME Base, Sound, NEW p \in Procs, Claim(p),
           pc[p] \in Applying \cup {"recover", "syncJournal"}
    PROVE  AtLeast(claimed', claimed) /\ AtLeast(Effective(seen), claimed')
<1>1. claimed \in Pairs /\ tx[p] \in Journals /\ seen \in Contents /\ Own(p)
  BY ZenonT(40) DEF Base, Types, Locals
<1>2. AtLeast(Effective(seen), claimed)
  BY ZenonT(40) DEF Sound, Current
<1>3. CASE ~publishing[p]
  <2>1. claimed' = claimed
    BY ZenonT(40), <1>3 DEF Claim
  <2>2. QED
    BY ZenonT(40), <1>1, <1>2, <2>1, AtLeastReflexive
<1>4. CASE publishing[p]
  <2>1. claimed' = Overlay(claimed, tx[p])
    BY ZenonT(40), <1>4 DEF Claim
  <2>2. pc[p] \in Journalled \cup {"syncRemoval"}
    BY ZenonT(40), <1>1, <1>4 DEF Own, Applying, Journalled
  <2>3. /\ "manifest" \in tx[p].files => Effective(seen)["manifest"] = tx[p].id
        /\ "lock" \in tx[p].files => Effective(seen)["lock"] = tx[p].id
    <3>1. CASE pc[p] \in Journalled
      <4>1. tx[p] = seen.journal
        BY ZenonT(40), <1>1, <3>1 DEF Own
      <4>2. QED
        BY ZenonT(40), <1>1, <4>1, EffectiveAt
    <3>2. CASE pc[p] = "syncRemoval"
      <4>1. seen.journal = NoJournal /\ ManifestApplied(tx[p]) /\ LockApplied(tx[p])
        BY ZenonT(40), <1>1, <3>2 DEF Own, PastManifest, PastLock
      <4>2. /\ Effective(seen)["manifest"] = seen.manifest
            /\ Effective(seen)["lock"] = seen.lock
        BY ZenonT(40), <1>1, <4>1, EffectiveAt, Constants
      <4>3. QED
        BY ZenonT(40), <4>1, <4>2 DEF ManifestApplied, LockApplied
    <3>3. QED
      BY ZenonT(40), <2>2, <3>1, <3>2
  <2>4. /\ claimed'["manifest"] = IF "manifest" \in tx[p].files THEN tx[p].id ELSE claimed["manifest"]
        /\ claimed'["lock"] = IF "lock" \in tx[p].files THEN tx[p].id ELSE claimed["lock"]
        /\ claimed["manifest"] \in Nat /\ claimed["lock"] \in Nat
    BY ZenonT(40), <1>1, <2>1, OverlayAt
  <2>5. /\ Effective(seen)["manifest"] \in Nat /\ Effective(seen)["lock"] \in Nat
        /\ Effective(seen)["manifest"] >= claimed["manifest"]
        /\ Effective(seen)["lock"] >= claimed["lock"]
    BY ZenonT(40), <1>1, <1>2, EffectiveAt, AtLeastAt DEF Pairs, Documents
  <2>6. claimed'["manifest"] >= claimed["manifest"] /\ claimed'["lock"] >= claimed["lock"]
    BY <2>3, <2>4, <2>5
  <2>7. /\ Effective(seen)["manifest"] >= claimed'["manifest"]
        /\ Effective(seen)["lock"] >= claimed'["lock"]
    BY <2>3, <2>4, <2>5
  <2>8. QED
    BY ZenonT(40), <2>6, <2>7, AtLeastAt
<1>5. QED
  BY ZenonT(40), <1>3, <1>4

\* Only the holder is at a locked label.
LEMMA HolderIsAlone ==
    ASSUME Base, NEW p \in Procs, holder = p, NEW q \in Procs, q # p
    PROVE  pc[q] \notin Locked
BY ZenonT(40) DEF Base, Own

LEMMA FloorStays ==
    ASSUME Base, Sound, Base', NEW p \in Procs, AtLeast(claimed', claimed), floor'[p] = floor[p]
    PROVE  AtLeast(claimed', floor'[p])
<1>1. claimed \in Pairs /\ claimed' \in Pairs /\ floor[p] \in Pairs /\ AtLeast(claimed, floor[p])
  BY ZenonT(40) DEF Base, Types, Locals, Sound, Reads
<1>2. QED
  BY ZenonT(40), <1>1, AtLeastTransitive

LEMMA ApplyErrorSound ==
    ASSUME Base, Sound, Base', NEW p \in Procs, ApplyError(p), faults' = faults
    PROVE  Sound'
<1>1. Others(p) /\ got'[p] = got[p] /\ floor'[p] = floor[p] /\ pc'[p] = "close"
  BY ZenonT(40), ApplyErrorEffect DEF Base
<1>2. UNCHANGED <<seen, disk, whole, holder>> /\ Claim(p) /\ pc[p] \in Applying \cup {"recover"}
  BY ZenonT(40) DEF ApplyError, files
<1>3. AtLeast(claimed', claimed) /\ AtLeast(Effective(seen), claimed')
  BY ZenonT(40), <1>2, ClaimIsEffective
<1>4. "latePower" \in faults => pc[p] # "syncJournal"
  BY ZenonT(40) DEF ApplyError, Applying
<1>5. holder = p /\ got[p] = NoPair
  BY ZenonT(40), <1>2, HolderFacts DEF Locked, Sound, Reads, Busy
<1>6. \A q \in Procs : pc[q] = "syncJournal" => claimed' = claimed \/ q = p
  BY ZenonT(40), <1>5, HolderIsAlone DEF Locked
<1>7. Reads(p)'
  BY ZenonT(40), <1>1, <1>3, <1>5, FloorStays, ReadsNothing
<1>8. QED
  BY ZenonT(40), <1>1, <1>2, <1>3, <1>4, <1>6, <1>7, QuietSound DEF HolderMoves

\* With power failing, the sync of the journal does not fail.
LEMMA JournalSyncErrorSound ==
    ASSUME CoveredFaults, Base, Sound, Base', NEW p \in Procs, JournalSyncError(p), faults' = faults
    PROVE  Sound'
<1>1. Others(p) /\ got'[p] = got[p] /\ floor'[p] = floor[p] /\ pc'[p] = "close"
  BY ZenonT(40), JournalSyncErrorEffect DEF Base
<1>2. UNCHANGED <<seen, disk, whole, holder>> /\ Claim(p) /\ pc[p] \in {"syncJournal"}
  BY ZenonT(40) DEF JournalSyncError, files
<1>3. AtLeast(claimed', claimed) /\ AtLeast(Effective(seen), claimed')
  BY ZenonT(40), <1>2, ClaimIsEffective
<1>4. "latePower" \in faults => pc[p] # "syncJournal"
  BY ZenonT(40) DEF JournalSyncError, CoveredFaults, Base, Types
<1>5. holder = p /\ got[p] = NoPair
  BY ZenonT(40), <1>2, HolderFacts DEF Locked, Sound, Reads, Busy
<1>6. \A q \in Procs : pc[q] = "syncJournal" => claimed' = claimed \/ q = p
  BY ZenonT(40), <1>5, HolderIsAlone DEF Locked
<1>7. Reads(p)'
  BY ZenonT(40), <1>1, <1>3, <1>5, FloorStays, ReadsNothing
<1>8. QED
  BY ZenonT(40), <1>1, <1>2, <1>3, <1>4, <1>6, <1>7, QuietSound DEF HolderMoves

-----------------------------------------------------------------------------
(* Steps on the files. *)

LEMMA OpenLockSound ==
    ASSUME Base, Sound, Base', NEW p \in Procs, OpenLock(p), faults' = faults
    PROVE  Sound'
<1>1. Others(p) /\ got'[p] = NoPair /\ floor'[p] = floor[p] /\ pc'[p] = "wait"
  BY ZenonT(40), OpenLockEffect DEF Base
<1>2. /\ Effective(seen') = Effective(seen) /\ Pair(seen') = Pair(seen)
      /\ SameContents /\ SameDisk /\ seen'.coordinator = TRUE
  BY ZenonT(40), OpenLockKeeps DEF SameDisk
<1>3. UNCHANGED <<whole, claimed, holder>> /\ pc[p] = "open"
  BY ZenonT(40) DEF OpenLock, ghosts
<1>4. Current'
  <2>1. Effective(seen)' = Effective(seen)
    BY ZenonT(40), <1>2 DEF Effective, Overlay, Pair
  <2>2. QED
    BY ZenonT(40), <1>3, <2>1 DEF Sound, Current, EffectiveIsWhole
<1>5. ASSUME NEW q \in Procs
      PROVE  Revocable(q)'
  <2>1. Pair(seen)' = Pair(seen)
    BY ZenonT(40), <1>2 DEF Pair
  <2>2. pc'[q] = "syncJournal" => pc[q] = "syncJournal"
    BY ZenonT(40), <1>1 DEF Others
  <2>3. QED
    BY ZenonT(40), <1>3, <2>1, <2>2 DEF Sound, Revocable
<1>6. ASSUME NEW q \in Procs, q # p
      PROVE  Reads(q)'
  <2>1. Types' /\ Locals' /\ Reads(q) /\ whole \subseteq whole' /\ AtLeast(claimed', claimed)
    BY ZenonT(40), <1>3, AtLeastReflexive DEF Base, Types, Sound
  <2>2. HolderMoves(p) /\ (seen.coordinator => seen'.coordinator)
    BY ZenonT(40), <1>2, <1>3 DEF HolderMoves
  <2>3. QED
    BY ZenonT(40), <1>1, <1>2, <1>6, <2>1, <2>2, ReadsFrame
<1>7. Reads(p)'
  BY ZenonT(40), <1>1, <1>3, FloorKept, ReadsNothing
<1>8. ASSUME "latePower" \in faults'
      PROVE  Durable'
  BY ZenonT(40), <1>1, <1>2, <1>3, <1>8, DurableFrame DEF Sound
<1>9. QED
  BY ZenonT(40), <1>4, <1>5, <1>6, <1>7, <1>8 DEF Sound

\* A step of the holder on the files: what remains to be shown.
LEMMA HolderSound ==
    ASSUME Base, Sound, Base', NEW p \in Procs, Others(p), holder = p, holder' = holder,
           seen'.coordinator = seen.coordinator, whole \subseteq whole',
           AtLeast(claimed', claimed), Current',
           pc'[p] = "syncJournal" => Revocable(p)',
           got[p] = NoPair, got'[p] = got[p], floor'[p] = floor[p],
           pc'[p] \notin {"readManifest", "statLock"},
           "latePower" \in faults' => Durable'
    PROVE  Sound'
<1>1. seen.coordinator /\ HolderMoves(p) /\ Types' /\ Locals'
  BY ZenonT(40) DEF Base, Own, HolderMoves
<1>2. ASSUME NEW q \in Procs
      PROVE  Revocable(q)'
  <2>1. CASE q = p
    BY ZenonT(40), <2>1 DEF Revocable
  <2>2. CASE q # p
    <3>1. pc'[q] # "syncJournal"
      BY ZenonT(40), <2>2, HolderIsAlone DEF Others, Locked
    <3>2. QED
      BY ZenonT(40), <3>1 DEF Revocable
  <2>3. QED
    BY ZenonT(40), <2>1, <2>2
<1>3. ASSUME NEW q \in Procs, q # p
      PROVE  Reads(q)'
  <2>1. Reads(q)
    BY ZenonT(40) DEF Sound
  <2>2. QED
    BY ZenonT(40), <1>1, <1>3, <2>1, ReadsFrame
<1>4. Reads(p)'
  BY ZenonT(40), <1>1, FloorStays, ReadsNothing
<1>5. QED
  BY ZenonT(40), <1>2, <1>3, <1>4 DEF Sound

\* While the holder is past the sync of its journal, no journal is unsynced.
LEMMA HolderSyncs ==
    ASSUME Base, NEW p \in Procs, holder = p, pc[p] # "syncJournal"
    PROVE  Unsynced <=> seen.journal = NoJournal
<1>1. \A q \in Procs : pc[q] # "syncJournal"
  BY ZenonT(40), HolderIsAlone DEF Locked
<1>2. QED
  BY ZenonT(40), <1>1 DEF Unsynced

\* The holder's part of Durable: the disk is settled, or the journal is there.
LEMMA SettledIsDurable ==
    ASSUME Settled', \A j \in disk'.journal :
             j = seen'.journal \/ (ManifestApplied(j)' /\ LockApplied(j)'),
           ~Unsynced' => disk'.journal = {seen'.journal}
    PROVE  Durable'
BY ZenonT(40) DEF Durable, Settled

LEMMA WriteJournalSound ==
    ASSUME Base, Sound, Base', NEW p \in Procs, WriteJournal(p), faults' = faults
    PROVE  Sound'
<1>1. /\ Others(p) /\ got'[p] = got[p] /\ floor'[p] = floor[p] /\ pc'[p] = "syncJournal"
  BY ZenonT(40), WriteJournalEffect DEF Base
<1>2. /\ Effective(seen') \in whole' /\ whole \subseteq whole'
      /\ AtLeast(Effective(seen'), Effective(seen))
      /\ Pair(seen') = Effective(seen)
      /\ seen.journal = NoJournal
      /\ seen'.manifest = seen.manifest /\ disk'.manifest = disk.manifest
      /\ seen'.lock = seen.lock /\ disk'.lock = disk.lock
      /\ disk'.journal = disk.journal \cup {seen'.journal}
      /\ seen'.coordinator = seen.coordinator
  BY ZenonT(40), WriteJournalForward
<1>3. UNCHANGED <<claimed, holder>> /\ pc[p] = "callback"
  BY ZenonT(40) DEF WriteJournal
<1>4. holder = p /\ got[p] = NoPair
  BY ZenonT(40), <1>3, HolderFacts DEF Locked, Sound, Reads, Busy
<1>5. Effective(seen)' = Effective(seen') /\ Pair(seen)' = Pair(seen')
  BY ZenonT(40) DEF Effective, Overlay, Pair
<1>6. Effective(seen) \in Pairs /\ Effective(seen') \in Pairs /\ claimed \in Pairs
  BY ZenonT(40), EffectiveAt DEF Base, Types
<1>7. Effective(seen) \in whole /\ AtLeast(Effective(seen), claimed)
  BY ZenonT(40) DEF Sound, Current, EffectiveIsWhole
<1>8. Current'
  BY ZenonT(40), <1>2, <1>3, <1>5, <1>6, <1>7, AtLeastTransitive DEF Current, EffectiveIsWhole
<1>9. Revocable(p)'
  BY ZenonT(40), <1>2, <1>3, <1>5, <1>7 DEF Revocable
<1>10. AtLeast(claimed', claimed)
  BY ZenonT(40), <1>3, <1>6, AtLeastReflexive
<1>11. ASSUME "latePower" \in faults'
       PROVE  Durable'
  <2>1. /\ Settled
        /\ \A j \in disk.journal : j = NoJournal \/ (ManifestApplied(j) /\ LockApplied(j))
    BY ZenonT(40), <1>2, <1>11 DEF Sound, Durable, Unsynced
  <2>2. Settled'
    BY ZenonT(40), <1>2, <2>1 DEF Settled
  <2>3. \A j : (ManifestApplied(j)' <=> ManifestApplied(j)) /\ (LockApplied(j)' <=> LockApplied(j))
    BY ZenonT(40), <1>2 DEF ManifestApplied, LockApplied
  <2>4. ManifestApplied(NoJournal) /\ LockApplied(NoJournal)
    BY ZenonT(40), Constants DEF ManifestApplied, LockApplied
  <2>5. \A j \in disk'.journal : j = seen'.journal \/ (ManifestApplied(j)' /\ LockApplied(j)')
    BY ZenonT(40), <1>2, <2>1, <2>3, <2>4
  <2>6. Unsynced'
    BY ZenonT(40), <1>1 DEF Unsynced
  <2>7. QED
    BY ZenonT(40), <2>2, <2>5, <2>6, SettledIsDurable
<1>12. QED
  BY ZenonT(40), <1>1, <1>2, <1>3, <1>4, <1>8, <1>9, <1>10, <1>11, HolderSound

LEMMA SyncJournalSound ==
    ASSUME Base, Sound, Base', NEW p \in Procs, SyncJournal(p), faults' = faults
    PROVE  Sound'
<1>1. /\ Others(p) /\ got'[p] = got[p] /\ floor'[p] = floor[p] /\ pc'[p] = "applyManifest"
  BY ZenonT(40), SyncJournalEffect DEF Base
<1>2. /\ seen' = seen /\ disk'.journal = {seen.journal}
      /\ disk'.manifest = disk.manifest /\ disk'.lock = disk.lock
  BY ZenonT(40), SyncState DEF SyncJournal, Base, Types
<1>3. UNCHANGED <<whole, claimed, holder>> /\ pc[p] = "syncJournal"
  BY ZenonT(40) DEF SyncJournal, ghosts
<1>4. holder = p /\ got[p] = NoPair
  BY ZenonT(40), <1>3, HolderFacts DEF Locked, Sound, Reads, Busy
<1>5. Current'
  BY ZenonT(40), <1>2, <1>3 DEF Sound, Current, EffectiveIsWhole
<1>6. AtLeast(claimed', claimed)
  BY ZenonT(40), <1>3, AtLeastReflexive DEF Base, Types
<1>7. ASSUME "latePower" \in faults'
      PROVE  Durable'
  <2>1. Settled
    BY ZenonT(40), <1>3, <1>7 DEF Sound, Durable, Unsynced
  <2>2. Settled'
    BY ZenonT(40), <1>2, <2>1 DEF Settled
  <2>3. QED
    BY ZenonT(40), <1>2, <2>2, SettledIsDurable
<1>8. QED
  BY ZenonT(40), <1>1, <1>2, <1>3, <1>4, <1>5, <1>6, <1>7, HolderSound

LEMMA ApplyManifestSound ==
    ASSUME Base, Sound, Base', NEW p \in Procs, ApplyManifest(p), faults' = faults
    PROVE  Sound'
<1>1. /\ Others(p) /\ got'[p] = got[p] /\ floor'[p] = floor[p] /\ pc'[p] = "applyLock"
  BY ZenonT(40), ApplyManifestEffect DEF Base
<1>2. /\ tx[p] = seen.journal
      /\ seen'.journal = seen.journal /\ disk'.journal = disk.journal
      /\ seen'.lock = seen.lock /\ disk'.lock = disk.lock
      /\ seen'.coordinator = seen.coordinator
      /\ "manifest" \notin seen.journal.files =>
           seen'.manifest = seen.manifest /\ disk'.manifest = disk.manifest
  BY ZenonT(40), ApplyManifestFiles
<1>3. UNCHANGED <<whole, claimed, holder>> /\ pc[p] = "applyManifest"
  BY ZenonT(40) DEF ApplyManifest, ghosts
<1>4. holder = p /\ got[p] = NoPair
  BY ZenonT(40), <1>3, HolderFacts DEF Locked, Applying, Sound, Reads, Busy
<1>5. Current'
  <2>1. Effective(seen)' = Effective(seen)
    BY ZenonT(40), ApplyManifestKeeps DEF Effective, Overlay, Pair
  <2>2. QED
    BY ZenonT(40), <1>3, <2>1 DEF Sound, Current, EffectiveIsWhole
<1>6. AtLeast(claimed', claimed)
  BY ZenonT(40), <1>3, AtLeastReflexive DEF Base, Types
<1>7. ASSUME "latePower" \in faults'
      PROVE  Durable'
  <2>1. CASE seen.journal = NoJournal
    <3>1. SameContents /\ SameDisk
      BY ZenonT(40), <1>2, <2>1, Constants DEF SameContents, SameDisk
    <3>2. QED
      BY ZenonT(40), <1>1, <1>3, <1>7, <3>1, DurableFrame DEF Sound
  <2>2. CASE seen.journal # NoJournal
    <3>1. ~Unsynced
      BY ZenonT(40), <1>3, <1>4, <2>2, HolderSyncs
    <3>2. /\ disk.journal = {seen.journal}
          /\ "manifest" \notin seen.journal.files => disk.manifest = {seen.manifest}
          /\ "lock" \notin seen.journal.files => disk.lock = {seen.lock}
      BY ZenonT(40), <1>7, <3>1 DEF Sound, Durable
    <3>3. \A q \in Procs : pc'[q] \notin {"syncJournal", "removeJournal"}
      BY ZenonT(40), <1>1, <1>4, HolderIsAlone DEF Others, Locked, Applying
    <3>4. ~Unsynced'
      BY ZenonT(40), <1>2, <2>2, <3>3 DEF Unsynced
    <3>5. /\ disk'.journal = {seen'.journal}
          /\ "manifest" \notin seen'.journal.files => disk'.manifest = {seen'.manifest}
          /\ "lock" \notin seen'.journal.files => disk'.lock = {seen'.lock}
      BY ZenonT(40), <1>2, <3>2
    <3>6. QED
      BY ZenonT(40), <3>3, <3>4, <3>5 DEF Durable
  <2>3. QED
    BY ZenonT(40), <2>1, <2>2
<1>8. QED
  BY ZenonT(40), <1>1, <1>2, <1>3, <1>4, <1>5, <1>6, <1>7, HolderSound

LEMMA ApplyLockSound ==
    ASSUME Base, Sound, Base', NEW p \in Procs, ApplyLock(p), faults' = faults
    PROVE  Sound'
<1>1. /\ Others(p) /\ got'[p] = got[p] /\ floor'[p] = floor[p] /\ pc'[p] = "syncProject"
  BY ZenonT(40), ApplyLockEffect DEF Base
<1>2. /\ tx[p] = seen.journal
      /\ seen'.journal = seen.journal /\ disk'.journal = disk.journal
      /\ seen'.manifest = seen.manifest /\ disk'.manifest = disk.manifest
      /\ seen'.coordinator = seen.coordinator
      /\ "lock" \notin seen.journal.files =>
           seen'.lock = seen.lock /\ disk'.lock = disk.lock
  BY ZenonT(40), ApplyLockFiles
<1>3. UNCHANGED <<whole, claimed, holder>> /\ pc[p] = "applyLock"
  BY ZenonT(40) DEF ApplyLock, ghosts
<1>4. holder = p /\ got[p] = NoPair
  BY ZenonT(40), <1>3, HolderFacts DEF Locked, Applying, Sound, Reads, Busy
<1>5. Current'
  <2>1. Effective(seen)' = Effective(seen)
    BY ZenonT(40), ApplyLockKeeps DEF Effective, Overlay, Pair
  <2>2. QED
    BY ZenonT(40), <1>3, <2>1 DEF Sound, Current, EffectiveIsWhole
<1>6. AtLeast(claimed', claimed)
  BY ZenonT(40), <1>3, AtLeastReflexive DEF Base, Types
<1>7. ASSUME "latePower" \in faults'
      PROVE  Durable'
  <2>1. CASE seen.journal = NoJournal
    <3>1. SameContents /\ SameDisk
      BY ZenonT(40), <1>2, <2>1, Constants DEF SameContents, SameDisk
    <3>2. QED
      BY ZenonT(40), <1>1, <1>3, <1>7, <3>1, DurableFrame DEF Sound
  <2>2. CASE seen.journal # NoJournal
    <3>1. ~Unsynced
      BY ZenonT(40), <1>3, <1>4, <2>2, HolderSyncs
    <3>2. /\ disk.journal = {seen.journal}
          /\ "manifest" \notin seen.journal.files => disk.manifest = {seen.manifest}
          /\ "lock" \notin seen.journal.files => disk.lock = {seen.lock}
      BY ZenonT(40), <1>7, <3>1 DEF Sound, Durable
    <3>3. \A q \in Procs : pc'[q] \notin {"syncJournal", "removeJournal"}
      BY ZenonT(40), <1>1, <1>4, HolderIsAlone DEF Others, Locked, Applying
    <3>4. ~Unsynced'
      BY ZenonT(40), <1>2, <2>2, <3>3 DEF Unsynced
    <3>5. /\ disk'.journal = {seen'.journal}
          /\ "manifest" \notin seen'.journal.files => disk'.manifest = {seen'.manifest}
          /\ "lock" \notin seen'.journal.files => disk'.lock = {seen'.lock}
      BY ZenonT(40), <1>2, <3>2
    <3>6. QED
      BY ZenonT(40), <3>3, <3>4, <3>5 DEF Durable
  <2>3. QED
    BY ZenonT(40), <2>1, <2>2
<1>8. QED
  BY ZenonT(40), <1>1, <1>2, <1>3, <1>4, <1>5, <1>6, <1>7, HolderSound

LEMMA SyncProjectSound ==
    ASSUME Base, Sound, Base', NEW p \in Procs, SyncProject(p), faults' = faults
    PROVE  Sound'
<1>1. /\ Others(p) /\ got'[p] = got[p] /\ floor'[p] = floor[p] /\ pc'[p] = "removeJournal"
  BY ZenonT(40), SyncProjectEffect DEF Base
<1>2. /\ seen' = seen /\ disk'.journal = disk.journal
      /\ disk'.manifest = {seen.manifest} /\ disk'.lock = {seen.lock}
  BY ZenonT(40), SyncDocuments DEF SyncProject, Base, Types
<1>3. UNCHANGED <<whole, claimed, holder>> /\ pc[p] = "syncProject"
  BY ZenonT(40) DEF SyncProject, ghosts
<1>4. holder = p /\ got[p] = NoPair
  BY ZenonT(40), <1>3, HolderFacts DEF Locked, Applying, Sound, Reads, Busy
<1>5. Current'
  BY ZenonT(40), <1>2, <1>3 DEF Sound, Current, EffectiveIsWhole
<1>6. AtLeast(claimed', claimed)
  BY ZenonT(40), <1>3, AtLeastReflexive DEF Base, Types
<1>7. ASSUME "latePower" \in faults'
      PROVE  Durable'
  <2>1. Settled'
    BY ZenonT(40), <1>2 DEF Settled
  <2>2. \A j : (ManifestApplied(j)' <=> ManifestApplied(j)) /\ (LockApplied(j)' <=> LockApplied(j))
    BY ZenonT(40), <1>2 DEF ManifestApplied, LockApplied
  <2>3. \A j \in disk.journal : j = seen.journal \/ (ManifestApplied(j) /\ LockApplied(j))
    BY ZenonT(40), <1>7 DEF Sound, Durable
  <2>4. \A j \in disk'.journal : j = seen'.journal \/ (ManifestApplied(j)' /\ LockApplied(j)')
    BY ZenonT(40), <1>2, <2>2, <2>3
  <2>5. ~Unsynced' => disk'.journal = {seen'.journal}
    <3>1. ~Unsynced' => seen.journal # NoJournal
      BY ZenonT(40), <1>2 DEF Unsynced
    <3>2. ~Unsynced' => ~Unsynced
      BY ZenonT(40), <1>3, <1>4, <3>1, HolderSyncs
    <3>3. QED
      BY ZenonT(40), <1>2, <1>7, <3>2 DEF Sound, Durable
  <2>6. QED
    BY ZenonT(40), <2>1, <2>4, <2>5, SettledIsDurable
<1>8. QED
  BY ZenonT(40), <1>1, <1>2, <1>3, <1>4, <1>5, <1>6, <1>7, HolderSound

LEMMA RemoveJournalSound ==
    ASSUME Base, Sound, Base', NEW p \in Procs, RemoveJournal(p), faults' = faults
    PROVE  Sound'
<1>1. /\ Others(p) /\ got'[p] = got[p] /\ floor'[p] = floor[p] /\ pc'[p] = "syncRemoval"
  BY ZenonT(40), RemoveJournalEffect DEF Base
<1>2. /\ Effective(seen') = Effective(seen)
      /\ seen'.journal = NoJournal /\ disk'.journal = disk.journal \cup {NoJournal}
      /\ seen'.manifest = seen.manifest /\ disk'.manifest = disk.manifest
      /\ seen'.lock = seen.lock /\ disk'.lock = disk.lock
      /\ seen'.coordinator = seen.coordinator
      /\ ManifestApplied(seen.journal) /\ LockApplied(seen.journal)
  BY ZenonT(40), RemoveJournalKeeps
<1>3. UNCHANGED <<whole, claimed, holder>> /\ pc[p] = "removeJournal"
  BY ZenonT(40) DEF RemoveJournal, ghosts
<1>4. holder = p /\ got[p] = NoPair
  BY ZenonT(40), <1>3, HolderFacts DEF Locked, Applying, Sound, Reads, Busy
<1>5. Current'
  <2>1. Effective(seen)' = Effective(seen)
    BY ZenonT(40), <1>2 DEF Effective, Overlay, Pair
  <2>2. QED
    BY ZenonT(40), <1>3, <2>1 DEF Sound, Current, EffectiveIsWhole
<1>6. AtLeast(claimed', claimed)
  BY ZenonT(40), <1>3, AtLeastReflexive DEF Base, Types
<1>7. ASSUME "latePower" \in faults'
      PROVE  Durable'
  <2>1. Settled
    BY ZenonT(40), <1>3, <1>7 DEF Sound, Durable
  <2>2. Settled'
    BY ZenonT(40), <1>2, <2>1 DEF Settled
  <2>3. \A j : (ManifestApplied(j)' <=> ManifestApplied(j)) /\ (LockApplied(j)' <=> LockApplied(j))
    BY ZenonT(40), <1>2 DEF ManifestApplied, LockApplied
  <2>4. \A j \in disk.journal : ManifestApplied(j) /\ LockApplied(j)
    BY ZenonT(40), <1>2, <1>7 DEF Sound, Durable
  <2>5. \A j \in disk'.journal : j = seen'.journal \/ (ManifestApplied(j)' /\ LockApplied(j)')
    BY ZenonT(40), <1>2, <2>3, <2>4
  <2>6. Unsynced'
    BY ZenonT(40), <1>2 DEF Unsynced
  <2>7. QED
    BY ZenonT(40), <2>2, <2>5, <2>6, SettledIsDurable
<1>8. QED
  BY ZenonT(40), <1>1, <1>2, <1>3, <1>4, <1>5, <1>6, <1>7, HolderSound

LEMMA SyncRemovalSound ==
    ASSUME Base, Sound, Base', NEW p \in Procs, SyncRemoval(p), faults' = faults
    PROVE  Sound'
<1>1. /\ Others(p) /\ got'[p] = got[p] /\ floor'[p] = floor[p] /\ pc'[p] = Callback(p)
  BY ZenonT(40), SyncRemovalEffect DEF Base
<1>2. /\ seen' = seen /\ disk'.journal = {seen.journal}
      /\ disk'.manifest = disk.manifest /\ disk'.lock = disk.lock
  BY ZenonT(40), SyncState DEF SyncRemoval, Base, Types
<1>3. UNCHANGED <<whole, holder>> /\ pc[p] = "syncRemoval" /\ Claim(p)
  BY ZenonT(40) DEF SyncRemoval
<1>4. holder = p /\ got[p] = NoPair /\ seen.journal = NoJournal
  BY ZenonT(40), <1>3, HolderFacts DEF Locked, Applying, Sound, Reads, Busy, Own
<1>5. AtLeast(claimed', claimed) /\ AtLeast(Effective(seen), claimed')
  BY ZenonT(40), <1>3, ClaimIsEffective DEF Applying
<1>6. Current'
  BY ZenonT(40), <1>2, <1>3, <1>5 DEF Sound, Current, EffectiveIsWhole
<1>7. ASSUME "latePower" \in faults'
      PROVE  Durable'
  <2>1. Settled
    BY ZenonT(40), <1>4, <1>7 DEF Sound, Durable, Unsynced
  <2>2. Settled'
    BY ZenonT(40), <1>2, <2>1 DEF Settled
  <2>3. QED
    BY ZenonT(40), <1>2, <2>2, SettledIsDurable
<1>8. pc'[p] \in {"readLock", "callback"}
  BY ZenonT(40), <1>1 DEF Callback
<1>9. QED
  BY ZenonT(40), <1>1, <1>2, <1>3, <1>4, <1>5, <1>6, <1>7, <1>8, HolderSound

-----------------------------------------------------------------------------
(* Power loss. *)

\* Whatever the disk may hold is what is effective, or what was before a
\* journal that is not synced yet.
LEMMA OutcomeIsCurrent ==
    ASSUME CoveredFaults, Base, Sound, PowerMayFail, NEW s \in Outcomes
    PROVE  Effective(s) \in whole /\ AtLeast(Effective(s), claimed)
<1>1. /\ s \in Contents /\ s.manifest \in disk.manifest /\ s.lock \in disk.lock
      /\ s.journal \in disk.journal /\ seen \in Contents
  <2>1. disk.wago = {TRUE}
    BY ZenonT(40) DEF CoveredFaults, Base, Types, PowerMayFail
  <2>2. QED
    BY ZenonT(40), <2>1, OutcomeFiles DEF Base, Types
<1>2. Effective(seen) \in whole /\ AtLeast(Effective(seen), claimed)
  BY ZenonT(40) DEF Sound, Current, EffectiveIsWhole
<1>3. Durable
  BY ZenonT(40) DEF CoveredFaults, Base, Types, PowerMayFail, Sound
<1>4. CASE ~Unsynced
  <2>1. /\ s.journal = seen.journal
        /\ "manifest" \notin seen.journal.files => s.manifest = seen.manifest
        /\ "lock" \notin seen.journal.files => s.lock = seen.lock
    BY ZenonT(40), <1>1, <1>3, <1>4 DEF Durable
  <2>2. /\ Effective(s)["manifest"] = Effective(seen)["manifest"]
        /\ Effective(s)["lock"] = Effective(seen)["lock"]
    BY ZenonT(40), <1>1, <2>1, EffectiveAt
  <2>3. Effective(s) = Effective(seen)
    BY ZenonT(40), <1>1, <2>2, EffectiveAt, SamePair
  <2>4. QED
    BY ZenonT(40), <1>2, <2>3
<1>5. CASE Unsynced
  <2>1. /\ s.manifest = seen.manifest /\ s.lock = seen.lock
        /\ s.journal = seen.journal \/ (ManifestApplied(s.journal) /\ LockApplied(s.journal))
    BY ZenonT(40), <1>1, <1>3, <1>5 DEF Durable, Settled
  <2>2. CASE s.journal = seen.journal
    <3>1. Effective(s) = Effective(seen)
      BY ZenonT(40), <1>1, <2>1, <2>2, SameEffective
    <3>2. QED
      BY ZenonT(40), <1>2, <3>1
  <2>3. CASE ManifestApplied(s.journal) /\ LockApplied(s.journal)
    <3>1. /\ Effective(s)["manifest"] = Pair(seen)["manifest"]
          /\ Effective(s)["lock"] = Pair(seen)["lock"]
      BY ZenonT(40), <1>1, <2>1, <2>3, EffectiveAt DEF ManifestApplied, LockApplied
    <3>2. Effective(s) = Pair(seen)
      BY ZenonT(40), <1>1, <3>1, EffectiveAt, SamePair
    <3>3. CASE seen.journal = NoJournal
      <4>1. Effective(seen) = Pair(seen)
        BY ZenonT(40), <1>1, <3>3, EffectiveWithout
      <4>2. QED
        BY ZenonT(40), <1>2, <3>2, <4>1
    <3>4. CASE \E p \in Procs : pc[p] = "syncJournal"
      <4>1. Pair(seen) \in whole /\ AtLeast(Pair(seen), claimed)
        BY ZenonT(40), <3>4 DEF Sound, Revocable
      <4>2. QED
        BY ZenonT(40), <3>2, <4>1
    <3>5. QED
      BY ZenonT(40), <1>5, <3>3, <3>4 DEF Unsynced
  <2>4. QED
    BY ZenonT(40), <2>1, <2>2, <2>3
<1>6. QED
  BY ZenonT(40), <1>4, <1>5

LEMMA PowerLossSound ==
    ASSUME CoveredFaults, Base, Sound, Base', PowerLoss, faults' = faults
    PROVE  Sound'
<1>1. PowerMayFail /\ seen' \in Outcomes /\ UNCHANGED <<whole, claimed>>
  BY ZenonT(40) DEF PowerLoss
<1>2. Effective(seen') \in whole /\ AtLeast(Effective(seen'), claimed)
  BY ZenonT(40), <1>1, OutcomeIsCurrent
<1>3. Effective(seen)' = Effective(seen')
  BY ZenonT(40) DEF Effective, Overlay, Pair
<1>4. Current'
  BY ZenonT(40), <1>1, <1>2, <1>3 DEF Current, EffectiveIsWhole
<1>5. ASSUME NEW p \in Procs
      PROVE  Revocable(p)' /\ Reads(p)'
  <2>1. pc'[p] = "idle" /\ got'[p] = NoPair /\ floor'[p] = Zero
    BY ZenonT(40) DEF PowerLoss
  <2>2. AtLeast(claimed', floor'[p])
    BY ZenonT(40), <1>1, <2>1, AtLeastReflexive DEF Base, Types
  <2>3. QED
    BY ZenonT(40), <2>1, <2>2, ReadsNothing DEF Revocable
<1>6. Durable'
  <2>1. /\ disk'.manifest = {seen'.manifest} /\ disk'.lock = {seen'.lock}
        /\ disk'.journal = {seen'.journal}
    BY ZenonT(40), PowerLossFiles
  <2>2. QED
    BY ZenonT(40), <2>1, SettledIsDurable DEF Settled
<1>7. QED
  BY ZenonT(40), <1>4, <1>5, <1>6 DEF Sound

-----------------------------------------------------------------------------
(* The theorems. *)

LEMMA InitSound ==
    ASSUME Init
    PROVE  Sound
<1>1. Base
  BY ZenonT(40), InitBase
<1>2. seen.journal = NoJournal /\ seen.manifest = 0 /\ seen.lock = 0 /\ seen \in Contents
  <2>1. PICK used \in BOOLEAN :
          seen = [manifest |-> 0, lock |-> 0, wago |-> used,
                  journal |-> NoJournal, coordinator |-> used]
    BY ZenonT(40) DEF Init
  <2>2. seen.journal = NoJournal /\ seen.manifest = 0 /\ seen.lock = 0
    BY ZenonT(40), <2>1
  <2>3. QED
    BY ZenonT(40), <1>1, <2>2 DEF Base, Types
<1>3. Effective(seen) = Zero
  <2>1. Effective(seen)["manifest"] = 0 /\ Effective(seen)["lock"] = 0
    BY ZenonT(40), <1>2, EffectiveAt, Constants
  <2>2. Effective(seen) \in Pairs
    BY ZenonT(40), <1>2, EffectiveAt
  <2>3. QED
    BY ZenonT(40), <2>1, <2>2, Constants, SamePair
<1>4. Current
  BY ZenonT(40), <1>3, Constants, AtLeastReflexive DEF Init, Current, EffectiveIsWhole
<1>5. ASSUME NEW p \in Procs
      PROVE  Revocable(p) /\ Reads(p)
  <2>1. pc[p] = "idle" /\ got[p] = NoPair /\ floor[p] = Zero /\ claimed = Zero
    BY ZenonT(40) DEF Init
  <2>2. AtLeast(claimed, floor[p])
    BY ZenonT(40), <2>1, Constants, AtLeastReflexive
  <2>3. QED
    BY ZenonT(40), <2>1, <2>2 DEF Revocable, Reads, Busy, Applying, Snapshot
<1>6. Durable
  <2>1. DOMAIN seen = {"manifest", "lock", "wago", "journal", "coordinator"}
    BY ZenonT(40) DEF Init
  <2>2. /\ disk.manifest = {seen.manifest} /\ disk.lock = {seen.lock}
        /\ disk.journal = {seen.journal}
    BY ZenonT(40), <2>1 DEF Init
  <2>3. QED
    BY ZenonT(40), <2>2 DEF Durable, Settled
<1>7. QED
  BY ZenonT(40), <1>4, <1>5, <1>6 DEF Sound

LEMMA StutterSound ==
    ASSUME Sound, UNCHANGED vars
    PROVE  Sound'
<1>1. /\ UNCHANGED <<seen, disk, holder, pc, reader, again, publishing, tx, got>>
      /\ UNCHANGED <<txs, faults, whole, claimed, floor>>
  BY ZenonT(40) DEF vars, files, locals, ghosts
<1>2. Current'
  BY ZenonT(40), <1>1 DEF Sound, Current, EffectiveIsWhole
<1>3. \A p \in Procs : Revocable(p)' /\ Reads(p)'
  BY ZenonT(40), <1>1 DEF Sound, Revocable, Reads
<1>4. Durable' <=> Durable
  BY ZenonT(40), <1>1 DEF Durable, Settled, Unsynced, ManifestApplied, LockApplied
<1>5. QED
  BY ZenonT(40), <1>1, <1>2, <1>3, <1>4 DEF Sound

LEMMA StepSound ==
    ASSUME CoveredFaults, Base, Sound, Base', NEW p \in Procs, Step(p), faults' = faults
    PROVE  Sound'
<1>1. CASE BeginRead(p)
  BY ZenonT(40), <1>1, BeginReadSound
<1>2. CASE StatJournal(p)
  BY ZenonT(40), <1>2, StatJournalSound
<1>3. CASE StatLock(p)
  BY ZenonT(40), <1>3, StatLockSound
<1>4. CASE ReturnUnlocked(p)
  BY ZenonT(40), <1>4, ReturnUnlockedSound
<1>5. CASE ReadLock(p)
  BY ZenonT(40), <1>5, ReadLockSound
<1>6. CASE ReadManifest(p)
  BY ZenonT(40), <1>6, ReadManifestSound
<1>7. CASE BeginMutation(p)
  BY ZenonT(40), <1>7, BeginMutationSound
<1>8. CASE OpenLock(p)
  BY ZenonT(40), <1>8, OpenLockSound
<1>9. CASE TakeLock(p)
  BY ZenonT(40), <1>9, TakeLockSound
<1>10. CASE CancelWait(p)
  BY ZenonT(40), <1>10, CancelWaitSound
<1>11. CASE Recover(p)
  BY ZenonT(40), <1>11, RecoverSound
<1>12. CASE EndCallback(p)
  BY ZenonT(40), <1>12, EndCallbackSound
<1>13. CASE Close(p)
  BY ZenonT(40), <1>13, CloseSound
<1>14. CASE WriteJournal(p)
  BY ZenonT(40), <1>14, WriteJournalSound
<1>15. CASE SyncJournal(p)
  BY ZenonT(40), <1>15, SyncJournalSound
<1>16. CASE ApplyManifest(p)
  BY ZenonT(40), <1>16, ApplyManifestSound
<1>17. CASE ApplyLock(p)
  BY ZenonT(40), <1>17, ApplyLockSound
<1>18. CASE SyncProject(p)
  BY ZenonT(40), <1>18, SyncProjectSound
<1>19. CASE RemoveJournal(p)
  BY ZenonT(40), <1>19, RemoveJournalSound
<1>20. CASE SyncRemoval(p)
  BY ZenonT(40), <1>20, SyncRemovalSound
<1>21. CASE ApplyError(p)
  BY ZenonT(40), <1>21, ApplyErrorSound
<1>22. CASE JournalSyncError(p)
  BY ZenonT(40), <1>22, JournalSyncErrorSound
<1>23. CASE ReadError(p)
  BY ZenonT(40), <1>23, ReadErrorSound
<1>24. CASE StatError(p)
  BY ZenonT(40), <1>24, StatErrorSound
<1>25. CASE Kill(p)
  BY ZenonT(40), <1>25, KillSound
<1>26. QED
  BY ZenonT(40), <1>1, <1>2, <1>3, <1>4, <1>5, <1>6, <1>7, <1>8, <1>9, <1>10, <1>11, <1>12,
     <1>13, <1>14, <1>15, <1>16, <1>17, <1>18, <1>19, <1>20, <1>21, <1>22, <1>23, <1>24, <1>25
     DEF Step

LEMMA NextSound ==
    ASSUME CoveredFaults, Base, Sound, Base', [Next]_vars
    PROVE  Sound'
<1>1. CASE UNCHANGED vars
  BY ZenonT(40), <1>1, StutterSound
<1>2. CASE Next
  BY ZenonT(40), <1>2, StepSound, PowerLossSound DEF Next
<1>3. QED
  BY ZenonT(40), <1>1, <1>2

LEMMA SoundInvariance ==
    ASSUME CoveredFaults
    PROVE  Spec => [](Base /\ Sound)
<1>1. Init => Base /\ Sound
  BY ZenonT(40), InitBase, InitSound
<1>2. Base /\ Sound /\ [Next]_vars => (Base /\ Sound)'
  BY ZenonT(40), NextBase, NextSound
<1>3. QED
  BY <1>1, <1>2, PTL DEF Spec

\* At every moment the documents, with the journal that waits to be applied
\* laid over them, are what whole transactions produced (publish, recover and
\* applyJournal, after any failure, death or covered power loss).
THEOREM MetadataStaysWhole ==
    ASSUME CoveredFaults
    PROVE  Spec => []EffectiveIsWhole
<1>1. Base /\ Sound => EffectiveIsWhole
  BY ZenonT(40) DEF Sound, Current
<1>2. QED
  BY <1>1, SoundInvariance, PTL

\* What PluginSelections returns is the work of whole transactions and no older
\* than what was committed when it was called, with the lock or without.
THEOREM SnapshotsAreCurrent ==
    ASSUME CoveredFaults
    PROVE  Spec => []ReadsAreCurrent
<1>1. Base /\ Sound => ReadsAreCurrent
  BY ZenonT(40) DEF Sound, Reads, ReadsAreCurrent
<1>2. QED
  BY <1>1, SoundInvariance, PTL

\* Whatever a covered power loss leaves is the work of whole transactions: the
\* directory syncs of publish and applyJournal are in the right order.
THEOREM PowerLossLeavesWholes ==
    ASSUME CoveredFaults
    PROVE  Spec => []EveryOutcomeIsWhole
<1>1. Base /\ Sound => EveryOutcomeIsWhole
  BY ZenonT(40), OutcomeIsCurrent DEF EveryOutcomeIsWhole
<1>2. QED
  BY <1>1, SoundInvariance, PTL

\* A publication that returned nil, or an error TransactionCommitted accepts,
\* survives every covered power loss.
THEOREM CommitsSurvivePowerLoss ==
    ASSUME CoveredFaults
    PROVE  Spec => []CommittedIsDurable
<1>1. Base /\ Sound => CommittedIsDurable
  BY ZenonT(40), OutcomeIsCurrent DEF CommittedIsDurable
<1>2. QED
  BY <1>1, SoundInvariance, PTL

=============================================================================
