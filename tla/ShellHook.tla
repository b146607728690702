------------------------------ MODULE ShellHook ------------------------------
(***************************************************************************)
(* internal/shell/hook.go: processes (hook install, hook remove, the web   *)
(* interface) that rewrite the user's startup files under an flock, with a *)
(* backup of each file they change.  Programs that know nothing of the     *)
(* lock, an editor for one, are not in the model.                          *)
(*                                                                         *)
(* A backup is found by the prefix of its name.  The temporary file that   *)
(* becomes a backup has that prefix too: base.tuxproxy.bak.<time>.tmp.<n>. *)
(***************************************************************************)
EXTENDS HookText, SequencesExt

CONSTANTS
  Procs,       \* the processes that install, remove and restore
  Files,       \* the startup files: .bashrc, .zshrc
  Default,     \* the file made when there is none: .bashrc
  Ops,         \* the operations called: "install", "remove", "restore"
  maxBackups,  \* how many backups of a file are kept
  InitTexts,   \* what the files may contain at first
  MaxCalls,    \* how many operations are called: a bound for TLC
  Nobody,      \* the holder of a free lock
  Absent       \* a file that does not exist

ASSUME FilesAssumption   == IsFiniteSet(Files) /\ Default \in Files
ASSUME BackupsAssumption == maxBackups \in Nat \ {0}
ASSUME OpsAssumption     == Ops \subseteq {"install", "remove", "restore"}
ASSUME LockAssumption    == Nobody \notin Procs
ASSUME CallsAssumption   == MaxCalls \in Nat
ASSUME TextsAssumption   == InitTexts \subseteq Texts \cup {Absent} /\ Absent \notin Texts

\* Nobody has edited between the markers, or away one of them.
ASSUME WellFormedAssumption == \A t \in InitTexts \ {Absent} : WellFormed(t)

VARIABLES
  rc,       \* the startup files
  backups,  \* for each file its backups, oldest first: a name and a text
  lock,     \* who holds the flock on ~/.tuxproxy.lock
  pc,       \* the next step of each process
  op,       \* the operation it runs
  files,    \* the files it was called for, in the order it does them
  at,       \* the place in files of the one being done
  buf,      \* the new content for that file
  saved,    \* the content it read for the backup
  result,   \* what its operation returns: "ok" or "err"
  calls     \* the operations called so far

diskVars  == <<rc, backups>>
procVars  == <<op, files, at, buf, saved, result>>
shellVars == <<rc, backups, lock, pc, op, files, at, buf, saved, result, calls>>

PCs == {"idle", "lock", "file", "backup.read", "backup.write", "backup.rename",
        "prune", "rename", "rename.unsaved", "unlock"}
Renames   == {"rename", "rename.unsaved"}
UnderLock == PCs \ {"idle", "lock"}

Go(p, from, to) == pc[p] = from /\ pc' = [pc EXCEPT ![p] = to]

\* The file p works on, and the newest entry among its backups.
Cur(p) == files[p][at[p]]
Busy(p) == at[p] <= Len(files[p])
NewestBackup(f) == Last(backups[f])

Init ==
  /\ rc \in [Files -> InitTexts]
  /\ backups = [f \in Files |-> <<>>]
  /\ lock = Nobody
  /\ pc = [p \in Procs |-> "idle"]
  /\ op = [p \in Procs |-> "none"]
  /\ files = [p \in Procs |-> <<>>]
  /\ at = [p \in Procs |-> 1]
  /\ buf = [p \in Procs |-> <<>>]
  /\ saved = [p \in Procs |-> <<>>]
  /\ result = [p \in Procs |-> "ok"]
  /\ calls = 0

-----------------------------------------------------------------------------
(***************************************************************************)
(* The caller.  InstallHook and RemoveHook take the files that exist, in   *)
(* some fixed order; without any InstallHook makes the default one.        *)
(***************************************************************************)
Orders(fs) == {s \in [1..Cardinality(fs) -> fs] : \A f \in fs : \E i \in DOMAIN s : s[i] = f}
Existing   == {f \in Files : rc[f] # Absent}

ConfigFiles(o) ==
  CASE o = "restore" -> {<<f>> : f \in Files}
    [] o = "install" /\ Existing = {} -> {<<Default>>}
    [] OTHER -> Orders(Existing)

Call(p, o) ==
  /\ calls < MaxCalls
  /\ Go(p, "idle", "lock")
  /\ calls' = calls + 1
  /\ op' = [op EXCEPT ![p] = o]
  /\ \E fs \in ConfigFiles(o) : files' = [files EXCEPT ![p] = fs]
  /\ at' = [at EXCEPT ![p] = 1]
  /\ result' = [result EXCEPT ![p] = "ok"]
  /\ UNCHANGED <<rc, backups, lock, buf, saved>>

\* Mutant: the lock file is opened and not locked.
LockNothing(p) ==
  /\ Go(p, "lock", "file")
  /\ lock' = p
  /\ UNCHANGED <<diskVars, procVars, calls>>

\* withShellLock: flock LOCK_EX.
Lock(p) ==
  /\ lock = Nobody
  /\ Go(p, "lock", "file")
  /\ lock' = p
  /\ UNCHANGED <<diskVars, procVars, calls>>

\* What is left of the variables of a process whose operation has returned.
Forget(p) ==
  /\ op' = [op EXCEPT ![p] = "none"]
  /\ files' = [files EXCEPT ![p] = <<>>]
  /\ at' = [at EXCEPT ![p] = 1]
  /\ buf' = [buf EXCEPT ![p] = <<>>]
  /\ saved' = [saved EXCEPT ![p] = <<>>]
  /\ result' = [result EXCEPT ![p] = "ok"]

\* The lock file cannot be made or locked: the call returns an error.
LockFails(p) ==
  /\ Go(p, "lock", "idle")
  /\ Forget(p)
  /\ UNCHANGED <<diskVars, lock, calls>>

-----------------------------------------------------------------------------
(***************************************************************************)
(* One file: installHookToFile and removeHookFromFile.                     *)
(***************************************************************************)
\* A missing file is an empty one to install, and nothing to remove.
Content(f) == IF rc[f] = Absent THEN <<>> ELSE rc[f]

NextFile(p, from) ==
  /\ Go(p, from, "file")
  /\ at' = [at EXCEPT ![p] = @ + 1]

\* Mutant: the loop returns after the first file.
FilesDoneEarly(p) ==
  /\ pc[p] = "file" /\ (~Busy(p) \/ (op[p] = "install" /\ Installed(Content(Cur(p)))))
  /\ pc' = [pc EXCEPT ![p] = "unlock"]
  /\ UNCHANGED <<diskVars, lock, procVars, calls>>

FilesDone(p) ==
  /\ pc[p] = "file" /\ ~Busy(p)
  /\ pc' = [pc EXCEPT ![p] = "unlock"]
  /\ UNCHANGED <<diskVars, lock, procVars, calls>>

Edited(o, text) == IF o = "install" THEN Inject(text) ELSE Strip(text)

\* The file is as it should be: no backup, no write.
ReadUnchanged(p) ==
  /\ pc[p] = "file" /\ Busy(p) /\ op[p] \in {"install", "remove"}
  /\ Edited(op[p], Content(Cur(p))) = Content(Cur(p))
  /\ NextFile(p, "file")
  /\ UNCHANGED <<diskVars, lock, op, files, buf, saved, result, calls>>

ReadChanged(p) ==
  /\ Busy(p) /\ op[p] \in {"install", "remove"}
  /\ Edited(op[p], Content(Cur(p))) # Content(Cur(p))
  /\ Go(p, "file", IF rc[Cur(p)] = Absent THEN "rename" ELSE "backup.read")
  /\ buf' = [buf EXCEPT ![p] = Edited(op[p], Content(Cur(p)))]
  /\ UNCHANGED <<diskVars, lock, op, files, at, saved, result, calls>>

\* installHookToFile takes a file whose Stat fails for one that does not exist:
\* it is replaced without a backup.
StatFails(p) ==
  /\ op[p] = "install"
  /\ Go(p, "backup.read", "rename.unsaved")
  /\ UNCHANGED <<diskVars, lock, procVars, calls>>

\* createBackupWithRetention reads the file once more, and atomicWrite makes
\* an empty temporary file, whose name sorts after every earlier backup.
BackupRead(p) ==
  /\ Go(p, "backup.read", "backup.write")
  /\ saved' = [saved EXCEPT ![p] = rc[Cur(p)]]
  /\ backups' = [backups EXCEPT ![Cur(p)] = Append(@, [name |-> "tmp", text |-> <<>>])]
  /\ UNCHANGED <<rc, lock, op, files, at, buf, result, calls>>

BackupWrite(p) ==
  /\ Go(p, "backup.write", "backup.rename")
  /\ backups' = [backups EXCEPT ![Cur(p)] =
                   Append(Front(@), [name |-> "tmp", text |-> saved[p]])]
  /\ UNCHANGED <<rc, lock, procVars, calls>>

BackupRename(p) ==
  /\ Go(p, "backup.rename", "prune")
  /\ backups' = [backups EXCEPT ![Cur(p)] =
                   Append(Front(@), [name |-> "bak", text |-> saved[p]])]
  /\ UNCHANGED <<rc, lock, procVars, calls>>

\* Mutant: the names are sorted newest first.
PruneNewest(p) ==
  /\ pc[p] = "prune" /\ Len(backups[Cur(p)]) > maxBackups
  /\ backups' = [backups EXCEPT ![Cur(p)] = Front(@)]
  /\ UNCHANGED <<rc, lock, pc, procVars, calls>>

\* pruneOldBackups removes the oldest names one after the other, down to
\* maxBackups.  A removal that fails is ignored: any of them may stay.
PruneOne(p) ==
  /\ pc[p] = "prune"
  /\ \E i \in 1..(Len(backups[Cur(p)]) - maxBackups) :
       backups' = [backups EXCEPT ![Cur(p)] = RemoveAt(@, i)]
  /\ UNCHANGED <<rc, lock, pc, procVars, calls>>

PruneDone(p) ==
  /\ Go(p, "prune", "rename")
  /\ UNCHANGED <<diskVars, lock, procVars, calls>>

\* atomicWriteFileWithFsync of the file itself: until the rename nobody sees
\* its temporary file.
Rename(p) ==
  /\ pc[p] \in Renames
  /\ NextFile(p, pc[p])
  /\ rc' = [rc EXCEPT ![Cur(p)] = buf[p]]
  /\ UNCHANGED <<backups, lock, op, files, buf, saved, result, calls>>

\* RestoreLatestBackup: the newest name that has the prefix.
RestoreRead(p) ==
  /\ Busy(p) /\ op[p] = "restore" /\ backups[Cur(p)] # <<>>
  /\ Go(p, "file", "rename")
  /\ buf' = [buf EXCEPT ![p] = NewestBackup(Cur(p)).text]
  /\ UNCHANGED <<diskVars, lock, op, files, at, saved, result, calls>>

\* Mutant: an error returns without unlocking.
FailHoldingLock(p) ==
  /\ pc[p] \in UnderLock \ {"unlock"} /\ Busy(p)
  /\ pc' = [pc EXCEPT ![p] = "idle"]
  /\ result' = [result EXCEPT ![p] = "err"]
  /\ UNCHANGED <<diskVars, lock, op, files, at, buf, saved, calls>>

\* Mutant: a prune that fails takes the new backup away.
FailRemovesBackup(p) ==
  /\ pc[p] \in UnderLock \ {"unlock"} /\ Busy(p)
  /\ pc' = [pc EXCEPT ![p] = "unlock"]
  /\ result' = [result EXCEPT ![p] = "err"]
  /\ backups' = IF pc[p] \in {"backup.write", "backup.rename", "prune"}
                THEN [backups EXCEPT ![Cur(p)] = Front(@)] ELSE backups
  /\ UNCHANGED <<rc, lock, op, files, at, buf, saved, calls>>

(***************************************************************************)
(* Any step may fail (a full disk, permissions, no backup to restore): the *)
(* deferred Remove deletes a temporary file, and the other files are left  *)
(* as they are.                                                            *)
(***************************************************************************)
Fail(p) ==
  /\ pc[p] \in UnderLock \ {"unlock"} /\ Busy(p)
  /\ pc' = [pc EXCEPT ![p] = "unlock"]
  /\ result' = [result EXCEPT ![p] = "err"]
  /\ backups' = IF pc[p] \in {"backup.write", "backup.rename"}
                THEN [backups EXCEPT ![Cur(p)] = Front(@)] ELSE backups
  /\ UNCHANGED <<rc, lock, op, files, at, buf, saved, calls>>

\* The deferred LOCK_UN and Close.
Unlock(p) ==
  /\ Go(p, "unlock", "idle")
  /\ lock' = Nobody
  /\ Forget(p)
  /\ UNCHANGED <<diskVars, calls>>

-----------------------------------------------------------------------------
(***************************************************************************)
(* A process is killed: the kernel releases its flock, its temporary file  *)
(* stays.  The next call under its name is another process.                *)
(***************************************************************************)
Crash(p) ==
  /\ pc[p] # "idle"
  /\ pc' = [pc EXCEPT ![p] = "idle"]
  /\ lock' = IF lock = p THEN Nobody ELSE lock
  /\ Forget(p)
  /\ UNCHANGED <<diskVars, calls>>

-----------------------------------------------------------------------------
Step(p) ==
  \/ FilesDone(p) \/ ReadUnchanged(p) \/ ReadChanged(p) \/ StatFails(p) \/ BackupRead(p)
  \/ BackupWrite(p) \/ BackupRename(p) \/ PruneOne(p) \/ PruneDone(p)
  \/ Rename(p) \/ RestoreRead(p) \/ Fail(p) \/ Unlock(p)

Next == \E p \in Procs : (\E o \in Ops : Call(p, o)) \/ Lock(p) \/ LockFails(p)
                         \/ Step(p) \/ Crash(p)
Spec == Init /\ [][Next]_shellVars

\* A process that can take a step takes one; calls are finitely many, so one
\* that waits for the lock needs no more than that.
FairSpec == Spec /\ \A p \in Procs : WF_shellVars(Lock(p)) /\ WF_shellVars(Step(p))

-----------------------------------------------------------------------------
\* Mutual exclusion.
LockExcludes == \A p \in Procs : lock = p <=> pc[p] \in UnderLock

DiskTypeOK ==
  /\ rc \in [Files -> Texts \cup {Absent}]
  /\ backups \in [Files -> Seq([name : {"bak", "tmp"}, text : Texts])]

ProcTypeOK ==
  /\ op \in [Procs -> Ops \cup {"none"}]
  /\ files \in [Procs -> Seq(Files)]
  /\ at \in [Procs -> Nat \ {0}]
  /\ buf \in [Procs -> Texts] /\ saved \in [Procs -> Texts]
  /\ result \in [Procs -> {"ok", "err"}]

(***************************************************************************)
(* Type invariant: who holds the lock is under it, and nobody else.        *)
(***************************************************************************)
ShellHookTypeOK ==
  /\ DiskTypeOK /\ ProcTypeOK /\ LockExcludes
  /\ lock \in Procs \cup {Nobody}
  /\ pc \in [Procs -> PCs]
  /\ calls \in 0..MaxCalls

\* RestoreLatestBackup is about to replace f, which it does not back up ...
Restores(f) == \E p \in Procs : pc[p] = "rename" /\ op[p] = "restore" /\ Cur(p) = f

\* ... nor does an installation that could not Stat it.
Unsaved(f) == \E p \in Procs : pc[p] = "rename.unsaved" /\ Cur(p) = f

(***************************************************************************)
(* A file is replaced whole and with the user's own text unchanged,        *)
(* wherever processes crash and in whatever order they run, unless by a    *)
(* restoration, which brings back an older text.                           *)
(***************************************************************************)
UserTextKept ==
  [][\A f \in Files : rc[f] # Absent /\ ~Restores(f) =>
       rc'[f] # Absent /\ UserText(rc'[f]) = UserText(rc[f])]_shellVars

(***************************************************************************)
(* Whenever an installation or a removal replaces a file, the newest       *)
(* backup is the file it replaces: a crashed backup, a prune or another    *)
(* process does not come between.  An installation whose Stat of the file  *)
(* fails (hook.go:360) makes no backup and is left out.                    *)
(***************************************************************************)
ReplacedIsBackedUp ==
  [][\A f \in Files : rc[f] # Absent /\ rc'[f] # rc[f] /\ ~Restores(f) /\ ~Unsaved(f) =>
       backups[f] # <<>> /\ NewestBackup(f) = [name |-> "bak", text |-> rc[f]]]_shellVars

(***************************************************************************)
(* A backup among the newest maxBackups files of its prefix stays: neither *)
(* a prune, in which any removal may fail, nor the clean-up of an error,   *)
(* nor a crash takes it.  (There may be more than maxBackups: removals     *)
(* that fail are ignored.  And what a crash has left counts as one.)       *)
(***************************************************************************)
BackupsRetained ==
  [][\A f \in Files : \A k \in DOMAIN backups[f] :
       backups[f][k].name = "bak" /\ k > Len(backups[f]) - maxBackups =>
         \E j \in {k - 1, k} \cap DOMAIN backups'[f] : backups'[f][j] = backups[f][k]]_shellVars

(***************************************************************************)
(* An operation that returns nil has done every file it was called for:    *)
(* all of them have the hook, or none has.                                 *)
(***************************************************************************)
SuccessIsComplete ==
  \A p \in Procs : pc[p] = "unlock" /\ result[p] = "ok" /\ op[p] \in {"install", "remove"} =>
    \A i \in DOMAIN files[p] : Installed(rc[files[p][i]]) <=> op[p] = "install"

(***************************************************************************)
(* Every call returns (or its process dies): no error path and no crash    *)
(* keeps the lock.                                                         *)
(***************************************************************************)
CallsReturn == \A p \in Procs : pc[p] # "idle" ~> pc[p] = "idle"

-----------------------------------------------------------------------------
(***************************************************************************)
(* What a comment says, and the code does not do:                          *)
(* "RestoreLatestBackup restores targetPath from its newest backup file":  *)
(* what replaces the file is a backup, not what a process that crashed     *)
(* left behind.                                                            *)
(***************************************************************************)
RestoresABackup ==
  \A p \in Procs : pc[p] = "rename" /\ op[p] = "restore" =>
    \E i \in 1..Len(backups[Cur(p)]) :
      backups[Cur(p)][i] = [name |-> "bak", text |-> buf[p]]
=============================================================================
