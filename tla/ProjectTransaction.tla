------------------------- MODULE ProjectTransaction -------------------------
(***************************************************************************)
(* The crash-recoverable publication of project metadata: WithMutation,    *)
(* publish, recover and applyJournal, and the snapshot read that avoids    *)
(* the lock (src/cli/internal/project/transaction.go).                     *)
(*                                                                         *)
(* The file system is modelled by what a process sees (seen) and by what   *)
(* may be found after the machine loses power (disk: per name, the set of  *)
(* contents the directory may hold).  A rename changes the first at once   *)
(* and adds a possibility to the second; syncing a directory settles its   *)
(* names.  The directory .wago, which holds the journal and the lock file, *)
(* is itself a name of the project directory: a fresh project is without   *)
(* it, and what it holds is lost with it.  The data of a file is synced    *)
(* before the rename, so no content is ever partial.  A metadata document  *)
(* is the number of the transaction that wrote it, and a journal is the    *)
(* documents it carries.                                                   *)
(***************************************************************************)
EXTENDS Integers, FiniteSets

CONSTANTS
    Procs,      \* processes that use one project
    Free,       \* the lock's holder when there is none
    NoPair,     \* the result of a process that has not read
    MaxTx,      \* bound on the number of publications
    FaultModels \* the combinations of faults to consider

ASSUME FaultsAssumption ==
    FaultModels \subseteq
        SUBSET {"io", "journalSync", "kill", "lateKill", "power", "latePower"}

ASSUME LockAssumption == Free \notin Procs

VARIABLES
    seen,       \* what a process finds: manifest, lock, .wago, journal, lock file
    disk,       \* per name, what a power loss may leave
    holder,     \* the process that holds the project lock
    pc,
    reader,     \* the process runs PluginSelections, not a mutation
    again,      \* the snapshot read is in its second check
    publishing, \* the journal being applied is the process's own
    tx,         \* the journal being written or applied
    got,        \* the pair a reader has read, by name
    txs,        \* publications so far
    faults,     \* what may go wrong, fixed at the start
    \* What the checks remember; the program has no such state.
    whole,      \* the pairs that whole transactions produce
    claimed,    \* the newest documents whose publication returned nil, or
                \* an error that TransactionCommitted accepts
    floor       \* claimed when the process began to read

files == <<seen, disk>>
locals == <<reader, again, publishing, tx, got>>
ghosts == <<whole, claimed, floor>>
vars == <<files, holder, pc, locals, txs, faults, ghosts>>

Documents == {"manifest", "lock"}
Project == Documents \cup {"wago"}       \* the names in the project directory
State == {"journal", "coordinator"}     \* the names in the directory .wago
NoJournal == [files |-> {}, id |-> 0]

\* The documents as they will be once journal j is applied to pair.
Overlay(pair, j) ==
    [f \in Documents |-> IF f \in j.files THEN j.id ELSE pair[f]]

Pair(s) == [f \in Documents |-> s[f]]
Effective(s) == Overlay(Pair(s), s.journal)
AtLeast(new, old) == \A f \in Documents : new[f] >= old[f]

Zero == [f \in Documents |-> 0]

\* A fresh project, or one that has been used and is at rest.
Init ==
    /\ faults \in FaultModels
    /\ \E used \in BOOLEAN :
         seen = [manifest |-> 0, lock |-> 0, wago |-> used,
                 journal |-> NoJournal, coordinator |-> used]
    /\ disk = [f \in DOMAIN seen |-> {seen[f]}]
    /\ holder = Free
    /\ pc = [p \in Procs |-> "idle"]
    /\ reader = [p \in Procs |-> FALSE]
    /\ again = [p \in Procs |-> FALSE]
    /\ publishing = [p \in Procs |-> FALSE]
    /\ tx = [p \in Procs |-> NoJournal]
    /\ got = [p \in Procs |-> NoPair]
    /\ floor = [p \in Procs |-> Zero]
    /\ txs = 0
    /\ whole = {Zero} /\ claimed = Zero

-----------------------------------------------------------------------------
(* The file system. *)

\* Replace, create or remove a name.
Rename(f, content) ==
    /\ seen' = [seen EXCEPT ![f] = content]
    /\ disk' = [disk EXCEPT ![f] = @ \cup {content}]

SyncDirectory(names) ==
    /\ disk' = [f \in DOMAIN disk |-> IF f \in names THEN {seen[f]} ELSE disk[f]]
    /\ UNCHANGED seen

\* MkdirAll and the open of the lock file create what does not exist.
CreateCoordinator ==
    /\ seen' = [seen EXCEPT !.wago = TRUE, !.coordinator = TRUE]
    /\ disk' = [disk EXCEPT !.wago = @ \cup {TRUE}, !.coordinator = @ \cup {TRUE}]

\* Without its name, the directory .wago cannot be found, whatever it holds.
Reachable(s) ==
    IF s.wago THEN s ELSE [s EXCEPT !.journal = NoJournal, !.coordinator = FALSE]

\* What a power loss may leave.
Outcomes ==
    {Reachable(s) : s \in [manifest : disk.manifest, lock : disk.lock, wago : disk.wago,
                           journal : disk.journal, coordinator : disk.coordinator]}

\* A late power loss comes once the name .wago is durable.
PowerMayFail ==
    "power" \in faults \/ ("latePower" \in faults /\ disk.wago = {TRUE})

Go(p, label) == pc' = [pc EXCEPT ![p] = label]

\* The call returns (or its process is gone); only its result is kept.
Return(p, result) ==
    /\ Go(p, "idle")
    /\ reader' = [reader EXCEPT ![p] = FALSE]
    /\ again' = [again EXCEPT ![p] = FALSE]
    /\ publishing' = [publishing EXCEPT ![p] = FALSE]
    /\ tx' = [tx EXCEPT ![p] = NoJournal]
    /\ got' = [got EXCEPT ![p] = result]
    /\ floor' = [floor EXCEPT ![p] = IF result = NoPair THEN Zero ELSE @]
    /\ UNCHANGED whole

-----------------------------------------------------------------------------
(* PluginSelections: lock and manifest as one snapshot. *)

BeginRead(p) ==
    /\ pc[p] = "idle"
    /\ Go(p, "statJournal")
    /\ reader' = [reader EXCEPT ![p] = TRUE]
    /\ got' = [got EXCEPT ![p] = NoPair]
    /\ floor' = [floor EXCEPT ![p] = claimed]
    /\ UNCHANGED <<files, holder, again, publishing, tx, txs, whole, claimed>>

\* projectMetadataCoordinated asks for the journal first ...
StatJournal(p) ==
    /\ pc[p] = "statJournal"
    /\ Go(p, IF seen.journal # NoJournal THEN "open" ELSE "statLock")
    /\ UNCHANGED <<files, holder, locals, txs, ghosts>>

\* ... and then for the lock file.
StatLock(p) ==
    /\ pc[p] = "statLock"
    /\ seen.coordinator \/ ~again[p]
    /\ Go(p, IF seen.coordinator THEN "open" ELSE "readLock")
    /\ UNCHANGED <<files, holder, locals, txs, ghosts>>

\* The second check found no writer: the unlocked read is returned.
ReturnUnlocked(p) ==
    /\ pc[p] = "statLock"
    /\ ~seen.coordinator /\ again[p]
    /\ Return(p, got[p])
    /\ UNCHANGED <<files, holder, txs, claimed>>

ReadLock(p) ==
    /\ pc[p] = "readLock"
    /\ Go(p, "readManifest")
    /\ got' = [got EXCEPT ![p] = [lock |-> seen.lock]]
    /\ UNCHANGED <<files, holder, reader, again, publishing, tx, txs, ghosts>>

\* Fault: an unlocked read is returned without the second check.
ReadManifestUnchecked(p) ==
    /\ pc[p] = "readManifest"
    /\ Go(p, IF holder = p THEN "close" ELSE "idle")
    /\ got' = [got EXCEPT ![p] = [manifest |-> seen.manifest, lock |-> @.lock]]
    /\ UNCHANGED <<files, holder, reader, again, publishing, tx, txs, ghosts>>

ReadManifest(p) ==
    /\ pc[p] = "readManifest"
    /\ Go(p, IF holder = p THEN "close" ELSE "statJournal")
    /\ again' = [again EXCEPT ![p] = holder # p]
    /\ got' = [got EXCEPT ![p] = [manifest |-> seen.manifest, lock |-> @.lock]]
    /\ UNCHANGED <<files, holder, reader, publishing, tx, txs, ghosts>>

-----------------------------------------------------------------------------
(* WithMutation: the lock, recovery, the callback, the unlock. *)

BeginMutation(p) ==
    /\ pc[p] = "idle"
    /\ Go(p, "open")
    /\ got' = [got EXCEPT ![p] = NoPair]
    /\ floor' = [floor EXCEPT ![p] = Zero]
    /\ UNCHANGED <<files, holder, reader, again, publishing, tx, txs, whole, claimed>>

\* Acquire makes the directory .wago, and opens the lock file.  One step: no
\* process looks at .wago but for the names in it.  A result read before is
\* dropped: the callback runs anew.
OpenLock(p) ==
    /\ pc[p] = "open"
    /\ Go(p, "wait")
    /\ CreateCoordinator
    /\ got' = [got EXCEPT ![p] = NoPair]
    /\ again' = [again EXCEPT ![p] = FALSE]
    /\ UNCHANGED <<holder, reader, publishing, tx, txs, ghosts>>

TakeLock(p) ==
    /\ pc[p] = "wait"
    /\ holder = Free
    /\ holder' = p
    /\ Go(p, "recover")
    /\ UNCHANGED <<files, locals, txs, ghosts>>

\* The context is cancelled while the lock is polled.
CancelWait(p) ==
    /\ pc[p] = "wait"
    /\ Return(p, NoPair)
    /\ UNCHANGED <<files, holder, txs, claimed>>

\* The callback of a reader, or of a mutation that may publish.
Callback(p) == IF reader[p] THEN "readLock" ELSE "callback"

\* Fault: a journal that is found is left where it is.
RecoverIgnores(p) ==
    /\ pc[p] = "recover"
    /\ Go(p, Callback(p))
    /\ UNCHANGED <<files, holder, locals, txs, ghosts>>

\* Fault: a journal that is found is taken for an update to be undone.
RecoverDiscards(p) ==
    /\ pc[p] = "recover"
    /\ Go(p, Callback(p))
    /\ Rename("journal", NoJournal)
    /\ UNCHANGED <<holder, locals, txs, ghosts>>

\* recover: apply the journal that is found, if any.
Recover(p) ==
    /\ pc[p] = "recover"
    /\ Go(p, IF seen.journal = NoJournal THEN Callback(p) ELSE "applyManifest")
    /\ tx' = [tx EXCEPT ![p] = seen.journal]
    /\ UNCHANGED <<files, holder, reader, again, publishing, got, txs, ghosts>>

\* The callback returns: nothing to publish, a refusal before the journal
\* (locked mode, invalid or oversized metadata), or nothing more to publish.
EndCallback(p) ==
    /\ pc[p] = "callback"
    /\ Go(p, "close")
    /\ UNCHANGED <<files, holder, locals, txs, ghosts>>

\* The deferred unlock.
Close(p) ==
    /\ pc[p] = "close"
    /\ holder' = Free
    /\ Return(p, got[p])
    /\ UNCHANGED <<files, txs, claimed>>

-----------------------------------------------------------------------------
(* publish and applyJournal. *)

\* publish up to the replaced journal, which carries one document or both.
WriteJournal(p) ==
    /\ pc[p] = "callback"
    /\ txs < MaxTx
    /\ \E fs \in SUBSET Documents \ {{}} :
         LET journal == [files |-> fs, id |-> txs + 1] IN
         /\ tx' = [tx EXCEPT ![p] = journal]
         /\ Rename("journal", journal)
         /\ whole' = whole \cup {Overlay(Effective(seen), journal)}
    /\ txs' = txs + 1
    /\ publishing' = [publishing EXCEPT ![p] = TRUE]
    /\ Go(p, "syncJournal")
    /\ UNCHANGED <<holder, reader, again, got, claimed, floor>>

\* publish returns nil, or an error that TransactionCommitted accepts.
Claim(p) ==
    claimed' = IF publishing[p] THEN Overlay(claimed, tx[p]) ELSE claimed

\* Fault: the transaction is reported as committed with no sync of the journal.
SyncJournalSkipped(p) ==
    /\ pc[p] = "syncJournal"
    /\ Claim(p)
    /\ Go(p, "close")
    /\ UNCHANGED <<files, holder, locals, txs, whole, floor>>

\* The names in .wago, not its own.
SyncJournal(p) ==
    /\ pc[p] = "syncJournal"
    /\ SyncDirectory(State)
    /\ Go(p, "applyManifest")
    /\ UNCHANGED <<holder, locals, txs, ghosts>>

\* applyJournal, for publish and for recover alike.
Apply(p, f) ==
    IF f \in tx[p].files THEN Rename(f, tx[p].id) ELSE UNCHANGED files

ApplyManifest(p) ==
    /\ pc[p] = "applyManifest"
    /\ Apply(p, "manifest")
    /\ Go(p, "applyLock")
    /\ UNCHANGED <<holder, locals, txs, ghosts>>

ApplyLock(p) ==
    /\ pc[p] = "applyLock"
    /\ Apply(p, "lock")
    /\ Go(p, "syncProject")
    /\ UNCHANGED <<holder, locals, txs, ghosts>>

\* Fault: the journal is removed before the documents are durable.
SyncProjectSkipped(p) ==
    /\ pc[p] = "syncProject"
    /\ Go(p, "removeJournal")
    /\ UNCHANGED <<files, holder, locals, txs, ghosts>>

\* The first sync of the project directory, and so of the name .wago.
SyncProject(p) ==
    /\ pc[p] = "syncProject"
    /\ SyncDirectory(Project)
    /\ Go(p, "removeJournal")
    /\ UNCHANGED <<holder, locals, txs, ghosts>>

RemoveJournal(p) ==
    /\ pc[p] = "removeJournal"
    /\ Rename("journal", NoJournal)
    /\ Go(p, "syncRemoval")
    /\ UNCHANGED <<holder, locals, txs, ghosts>>

\* The last step of applyJournal: publish returns nil, or recover does and
\* the callback starts.
SyncRemoval(p) ==
    /\ pc[p] = "syncRemoval"
    /\ SyncDirectory(State)
    /\ Go(p, Callback(p))
    /\ Claim(p)
    /\ publishing' = [publishing EXCEPT ![p] = FALSE]
    /\ tx' = [tx EXCEPT ![p] = NoJournal]
    /\ UNCHANGED <<holder, reader, again, got, txs, whole, floor>>

-----------------------------------------------------------------------------
(* Failures. *)

Applying == {"applyManifest", "applyLock", "syncProject", "removeJournal", "syncRemoval"}

\* A read, write or sync of recover or applyJournal fails and leaves its file
\* as it was; the journal stays for the next process.
ApplyError(p) ==
    /\ "io" \in faults
    /\ pc[p] \in Applying \cup {"recover"}
    /\ Claim(p)
    /\ Go(p, "close")
    /\ UNCHANGED <<files, holder, locals, txs, whole, floor>>

\* The directory of the journal cannot be synced.
JournalSyncError(p) ==
    /\ "journalSync" \in faults
    /\ pc[p] = "syncJournal"
    /\ Claim(p)
    /\ Go(p, "close")
    /\ UNCHANGED <<files, holder, locals, txs, whole, floor>>

\* A snapshot callback fails; without the lock the second check still runs.
ReadError(p) ==
    /\ "io" \in faults
    /\ pc[p] \in {"readLock", "readManifest"}
    /\ Go(p, IF holder = p THEN "close" ELSE "statJournal")
    /\ again' = [again EXCEPT ![p] = holder # p]
    /\ got' = [got EXCEPT ![p] = NoPair]
    /\ UNCHANGED <<files, holder, reader, publishing, tx, txs, ghosts>>

\* The state of the project cannot be inspected, or the lock not be opened.
StatError(p) ==
    /\ "io" \in faults
    /\ pc[p] \in {"statJournal", "statLock", "open"}
    /\ Return(p, NoPair)
    /\ UNCHANGED <<files, holder, txs, claimed>>

\* The process dies; the operating system drops its lock.  A late kill does
\* not come between the rename of the journal and its sync.
Kill(p) ==
    /\ "kill" \in faults \/ ("lateKill" \in faults /\ pc[p] # "syncJournal")
    /\ pc[p] # "idle"
    /\ Return(p, NoPair)
    /\ holder' = IF holder = p THEN Free ELSE holder
    /\ UNCHANGED <<files, txs, claimed>>

PowerLoss ==
    /\ PowerMayFail
    /\ seen' \in Outcomes
    /\ disk' = [f \in DOMAIN disk |-> {seen'[f]}]
    /\ holder' = Free
    /\ pc' = [p \in Procs |-> "idle"]
    /\ reader' = [p \in Procs |-> FALSE]
    /\ again' = [p \in Procs |-> FALSE]
    /\ publishing' = [p \in Procs |-> FALSE]
    /\ tx' = [p \in Procs |-> NoJournal]
    /\ got' = [p \in Procs |-> NoPair]
    /\ floor' = [p \in Procs |-> Zero]
    /\ UNCHANGED <<txs, whole, claimed>>

Step(p) ==
    \/ BeginRead(p) \/ StatJournal(p) \/ StatLock(p) \/ ReturnUnlocked(p)
    \/ ReadLock(p) \/ ReadManifest(p)
    \/ BeginMutation(p) \/ OpenLock(p) \/ TakeLock(p) \/ CancelWait(p)
    \/ Recover(p) \/ EndCallback(p) \/ Close(p)
    \/ WriteJournal(p) \/ SyncJournal(p) \/ ApplyManifest(p) \/ ApplyLock(p)
    \/ SyncProject(p) \/ RemoveJournal(p) \/ SyncRemoval(p)
    \/ ApplyError(p) \/ JournalSyncError(p) \/ ReadError(p) \/ StatError(p) \/ Kill(p)

Next == (PowerLoss \/ \E p \in Procs : Step(p)) /\ UNCHANGED faults

Spec == Init /\ [][Next]_vars

-----------------------------------------------------------------------------
(* Properties. *)

\* The documents, with the journal that waits to be applied laid over them,
\* are at every moment what whole transactions produced: whichever step of
\* publish or applyJournal fails or is the last one of a killed process.
EffectiveIsWhole == Effective(seen) \in whole

\* No step of any process takes back a transaction whose journal was
\* replaced: what the next process will recover only ever gets newer, so a
\* caller told by TransactionCommitted to go forward is right to.  (A power
\* loss may take back a journal that no directory sync has covered.)
NothingIsRolledBack ==
    [][PowerLoss \/ AtLeast(Effective(seen'), Effective(seen))]_seen

\* What PluginSelections returns is the work of whole transactions, and not
\* older than what was committed before it was called: with the lock
\* because recover ran, without it because the second check found no writer.
ReadsAreCurrent ==
    \A p \in Procs : pc[p] = "idle" /\ got[p] # NoPair =>
        got[p] \in whole /\ AtLeast(got[p], floor[p])

\* Whatever a power loss leaves is the work of whole transactions.
EveryOutcomeIsWhole == PowerMayFail => \A s \in Outcomes : Effective(s) \in whole

\* A publication that returned nil, or an error TransactionCommitted accepts,
\* is there after every power loss.
CommittedIsDurable == PowerMayFail => \A s \in Outcomes : AtLeast(Effective(s), claimed)
=============================================================================
