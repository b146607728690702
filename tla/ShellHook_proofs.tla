-------------------------- MODULE ShellHook_proofs --------------------------
(***************************************************************************)
(* Proofs about ShellHook, for any number of processes, any finite set of  *)
(* startup files and any number of backups kept: the lock excludes, what   *)
(* is replaced is backed up, the user's text survives, and an operation    *)
(* that succeeds has done every file.                                      *)
(***************************************************************************)
EXTENDS ShellHook, HookText_proofs

-----------------------------------------------------------------------------
(***************************************************************************)
(* The file a process works on, at each of its steps: what it has read of  *)
(* it, what it will write, and the backup in between.  Nobody else changes *)
(* any of these meanwhile.                                                 *)
(***************************************************************************)
Saving    == {"backup.read", "backup.write", "backup.rename", "prune"}
Replacing == Saving \cup Renames
Edits(p)  == op[p] \in {"install", "remove"}

BackedUp(f) == backups[f] # <<>> /\ NewestBackup(f) = [name |-> "bak", text |-> rc[f]]

Staged(p) ==
  /\ pc[p] # "idle" => op[p] \in Ops
  /\ pc[p] \in Replacing => Busy(p)
  /\ pc[p] \in Replacing \ {"rename"} => Edits(p) /\ rc[Cur(p)] # Absent
  /\ pc[p] \in {"backup.write", "backup.rename"} =>
       saved[p] = rc[Cur(p)] /\ backups[Cur(p)] # <<>> /\ NewestBackup(Cur(p)).name = "tmp"
  /\ pc[p] = "prune" => BackedUp(Cur(p))
  /\ pc[p] = "rename" /\ Edits(p) /\ rc[Cur(p)] # Absent => BackedUp(Cur(p))
  /\ pc[p] \in Replacing /\ Edits(p) => buf[p] = Edited(op[p], Content(Cur(p)))

ShellInv ==
  /\ ShellHookTypeOK
  /\ \A p \in Procs : Staged(p)
  /\ \A f \in Files : rc[f] = Absent => backups[f] = <<>>

-----------------------------------------------------------------------------
(***************************************************************************)
(* Sequences of backups, the files of a call and the edits of a file.      *)
(***************************************************************************)
Backup == [name : {"bak", "tmp"}, text : Texts]

LEMMA BackupAdded ==
  ASSUME NEW S, NEW s \in Seq(S), NEW e \in S
  PROVE  /\ Append(s, e) \in Seq(S) /\ Append(s, e) # << >>
         /\ Last(Append(s, e)) = e
         /\ Front(s) \in Seq(S)
<1>1. Append(s, e) \in Seq(S) /\ Len(Append(s, e)) = Len(s) + 1
      /\ Append(s, e)[Len(s) + 1] = e
  OBVIOUS
<1>2. Append(s, e) # << >>
  BY <1>1
<1>3. Front(s) \in Seq(S)
  BY DEF Front
<1> QED BY <1>1, <1>2, <1>3 DEF Last

\* All but the last one are where they were.
LEMMA FrontKeeps ==
  ASSUME NEW S, NEW s \in Seq(S), s # << >>
  PROVE  /\ Len(s) \in Nat \ {0} /\ Len(Front(s)) = Len(s) - 1
         /\ \A k \in 1..Len(s) - 1 : Front(s)[k] = s[k]
<1>1. Len(s) \in Nat \ {0}
  <2>1. Len(s) \in Nat /\ (Len(s) = 0 => s = << >>)
    OBVIOUS
  <2> QED BY <2>1
<1>2. /\ Len(SubSeq(s, 1, Len(s) - 1)) = Len(s) - 1
      /\ \A k \in 1..Len(s) - 1 : SubSeq(s, 1, Len(s) - 1)[k] = s[k]
  <2> DEFINE n == Len(s) - 1
  <2>1. n \in Nat /\ n + 1 = Len(s) /\ \A k \in 1..n : s[k] \in S
    BY <1>1
  <2> HIDE DEF n
  <2>2. Len(SubSeq(s, 1, n)) = (IF 1 <= n THEN n - 1 + 1 ELSE 0)
        /\ \A k \in 1..n - 1 + 1 : SubSeq(s, 1, n)[k] = s[1 + k - 1]
    BY <2>1, SubSeqProperties
  <2>3. Len(SubSeq(s, 1, n)) = n /\ \A k \in 1..n : SubSeq(s, 1, n)[k] = s[k]
    BY <2>1, <2>2
  <2> QED BY <2>3 DEF n
<1> QED BY <1>1, <1>2 DEF Front

\* Those after the one removed move up.
LEMMA BackupRemoved ==
  ASSUME NEW S, NEW s \in Seq(S), NEW i \in 1..Len(s) - 1
  PROVE  /\ RemoveAt(s, i) \in Seq(S) /\ RemoveAt(s, i) # << >>
         /\ Len(RemoveAt(s, i)) = Len(s) - 1
         /\ \A k \in i + 1..Len(s) : RemoveAt(s, i)[k - 1] = s[k]
         /\ Last(RemoveAt(s, i)) = Last(s)
<1> DEFINE a == SubSeq(s, 1, i - 1)
           b == SubSeq(s, i + 1, Len(s))
           r == a \o b
<1>1. Len(s) \in Nat /\ i \in Nat /\ 1 <= i /\ i <= Len(s) - 1
  OBVIOUS
<1>2. a \in Seq(S) /\ Len(a) = i - 1
  BY <1>1
<1>3. b \in Seq(S) /\ Len(b) = Len(s) - i /\ \A k \in 1..Len(s) - i : b[k] = s[i + k]
  BY <1>1
<1> HIDE DEF a, b
<1>4. /\ r \in Seq(S) /\ Len(r) = Len(a) + Len(b)
      /\ \A k \in 1..Len(a) + Len(b) : r[k] = IF k <= Len(a) THEN a[k] ELSE b[k - Len(a)]
  BY <1>2, <1>3, ConcatProperties
<1> HIDE DEF r
<1>5. Len(r) = Len(s) - 1 /\ \A k \in i + 1..Len(s) : r[k - 1] = s[k]
  <2>1. Len(r) = Len(s) - 1
    BY <1>1, <1>2, <1>3, <1>4
  <2>2. ASSUME NEW k \in i + 1..Len(s) PROVE r[k - 1] = s[k]
    <3>1. k - i \in 1..Len(s) - i /\ k - 1 \in 1..Len(a) + Len(b)
          /\ ~(k - 1 <= Len(a)) /\ (k - 1) - Len(a) = k - i /\ i + (k - i) = k
      BY <1>1, <1>2, <1>3
    <3>2. r[k - 1] = b[k - i]
      BY <1>4, <3>1
    <3> QED BY <1>3, <3>1, <3>2
  <2> QED BY <2>1, <2>2
<1>6. r # << >> /\ Last(r) = Last(s)
  <2>1. Len(s) \in i + 1..Len(s) /\ Len(r) # 0
    BY <1>1, <1>5
  <2> QED BY <1>4, <1>5, <2>1 DEF Last
<1>7. RemoveAt(s, i) = r
  BY DEF RemoveAt, a, b, r
<1> QED BY <1>4, <1>5, <1>6, <1>7

LEMMA FilesAreCalled ==
  ASSUME NEW o, NEW fs \in ConfigFiles(o)
  PROVE  fs \in Seq(Files)
<1>1. Existing \in SUBSET Files
  BY DEF Existing
<1>2. Cardinality(Existing) \in Nat
  BY <1>1, FilesAssumption, FS_Subset, FS_CardinalityType
<1>3. Orders(Existing) \subseteq Seq(Files)
  BY <1>1, <1>2 DEF Orders
<1>4. \A f \in Files : <<f>> \in Seq(Files)
  OBVIOUS
<1>5. CASE o = "restore"
  <2>1. fs \in {<<f>> : f \in Files}
    BY <1>5 DEF ConfigFiles
  <2> QED BY <1>4, <2>1
<1>6. CASE o = "install" /\ Existing = {}
  <2>1. fs = <<Default>>
    BY <1>6 DEF ConfigFiles
  <2> QED BY <1>4, <2>1, FilesAssumption
<1>7. CASE ~(o = "restore") /\ ~(o = "install" /\ Existing = {})
  <2>1. ConfigFiles(o) = Orders(Existing)
    BY <1>7 DEF ConfigFiles
  <2> QED BY <1>3, <2>1
<1> QED BY <1>5, <1>6, <1>7

LEMMA EditedIsText ==
  ASSUME ShellHookTypeOK, NEW f \in Files, NEW o
  PROVE  Content(f) \in Texts /\ Edited(o, Content(f)) \in Texts
<1>1. Content(f) \in Texts
  BY DEF Content, ShellHookTypeOK, DiskTypeOK, Texts
<1> QED BY <1>1, EditsAreTexts DEF Edited

-----------------------------------------------------------------------------
(***************************************************************************)
(* What a process leaves alone.                                            *)
(***************************************************************************)
\* Its variables are q's own, and it is where it was.
Stays(q) ==
  /\ pc'[q] = pc[q] /\ op'[q] = op[q] /\ files'[q] = files[q] /\ at'[q] = at[q]
  /\ buf'[q] = buf[q] /\ saved'[q] = saved[q] /\ result'[q] = result[q]

\* While one holds the lock the others are idle or wait for it.
LEMMA OthersWait ==
  ASSUME ShellHookTypeOK, NEW p \in Procs, pc[p] \in UnderLock,
         NEW q \in Procs, q # p
  PROVE  pc[q] \in {"idle", "lock"}
  BY DEF ShellHookTypeOK, LockExcludes, UnderLock, PCs

LEMMA WaitingIsStaged ==
  ASSUME NEW q \in Procs, Staged(q), pc[q] \in {"idle", "lock"}, Stays(q)
  PROVE  Staged(q)'
  BY DEF Staged, Stays, Replacing, Saving, Renames

LEMMA UndisturbedIsStaged ==
  ASSUME NEW q \in Procs, Staged(q), Stays(q), UNCHANGED diskVars
  PROVE  Staged(q)'
  BY DEF Staged, Stays, Replacing, diskVars, Busy, Cur, Edits, BackedUp, NewestBackup, Last,
    Edited, Content

-----------------------------------------------------------------------------
(***************************************************************************)
(* The steps of one process, from the lock to the unlock.                  *)
(***************************************************************************)
LEMMA InitShell == Init => ShellInv
<1> SUFFICES ASSUME Init PROVE ShellInv
  OBVIOUS
<1>1. << >> \in Texts /\ << >> \in Seq(Files)
      /\ << >> \in Seq([name : {"bak", "tmp"}, text : Texts])
  BY DEF Texts
<1>2. ShellHookTypeOK
  BY <1>1, LockAssumption, TextsAssumption, CallsAssumption
  DEF Init, ShellHookTypeOK, DiskTypeOK, ProcTypeOK, LockExcludes, PCs, UnderLock
<1>3. \A p \in Procs : Staged(p)
  BY DEF Init, Staged, Replacing, Saving, Renames
<1> QED BY <1>2, <1>3 DEF ShellInv, Init

LEMMA CallShell ==
  ASSUME ShellInv, NEW p \in Procs, NEW o \in Ops, Call(p, o)
  PROVE  ShellInv'
<1>1. ShellHookTypeOK'
  <2> PICK fs \in ConfigFiles(o) : files' = [files EXCEPT ![p] = fs]
    BY DEF Call
  <2>1. fs \in Seq(Files)
    BY FilesAreCalled
  <2>2. LockExcludes'
    BY DEF Call, Go, ShellInv, ShellHookTypeOK, LockExcludes, PCs, UnderLock
  <2>3. calls' \in 0..MaxCalls
    BY CallsAssumption DEF Call, ShellInv, ShellHookTypeOK
  <2>4. ProcTypeOK'
    BY <2>1 DEF Call, ShellInv, ShellHookTypeOK, ProcTypeOK
  <2> QED BY <2>2, <2>3, <2>4 DEF DiskTypeOK, Call, Go, ShellInv, ShellHookTypeOK, PCs
<1>2. \A q \in Procs \ {p} : Stays(q)
  BY DEF Call, Go, Stays, ShellInv, ShellHookTypeOK, ProcTypeOK
<1>3. \A q \in Procs \ {p} : Staged(q)'
  BY <1>2, UndisturbedIsStaged DEF Call, ShellInv, diskVars
<1>4. Staged(p)'
  BY DEF Call, Go, Staged, Replacing, Saving, Renames, ShellInv, ShellHookTypeOK, ProcTypeOK
<1> QED BY <1>1, <1>3, <1>4 DEF ShellInv, Call

LEMMA LockShell ==
  ASSUME ShellInv, NEW p \in Procs, Lock(p)
  PROVE  ShellInv'
<1>1. ShellHookTypeOK'
  BY LockAssumption DEF Lock, Go, ShellInv, ShellHookTypeOK, DiskTypeOK, ProcTypeOK,
    LockExcludes, PCs, UnderLock, diskVars, procVars
<1>2. \A q \in Procs \ {p} : Stays(q)
  BY DEF Lock, Go, Stays, ShellInv, ShellHookTypeOK, ProcTypeOK, procVars
<1>3. \A q \in Procs \ {p} : Staged(q)'
  BY <1>2, UndisturbedIsStaged DEF Lock, ShellInv
<1>4. Staged(p)'
  BY DEF Lock, Go, Staged, Replacing, Saving, Renames, ShellInv, ShellHookTypeOK, ProcTypeOK, procVars
<1> QED BY <1>1, <1>3, <1>4 DEF ShellInv, Lock, diskVars

LEMMA ForgetIsTyped ==
  ASSUME ProcTypeOK, NEW p \in Procs, Forget(p)
  PROVE  ProcTypeOK'
<1>1. << >> \in Texts /\ << >> \in Seq(Files) /\ 1 \in Nat \ {0}
  BY DEF Texts
<1>2. buf' \in [Procs -> Texts] /\ saved' \in [Procs -> Texts] /\ files' \in [Procs -> Seq(Files)]
  BY <1>1 DEF Forget, ProcTypeOK
<1>3. op' \in [Procs -> Ops \cup {"none"}] /\ at' \in [Procs -> Nat \ {0}]
      /\ result' \in [Procs -> {"ok", "err"}]
  BY <1>1 DEF Forget, ProcTypeOK
<1> QED BY <1>2, <1>3 DEF ProcTypeOK

LEMMA CrashShell ==
  ASSUME ShellInv, NEW p \in Procs, Crash(p) \/ Unlock(p) \/ LockFails(p)
  PROVE  ShellInv'
<1>1. /\ lock' = (IF lock = p THEN Nobody ELSE lock)
      /\ pc' = [pc EXCEPT ![p] = "idle"]
      /\ Forget(p) /\ UNCHANGED <<diskVars, calls>>
  BY DEF Crash, Unlock, LockFails, Go, ShellInv, ShellHookTypeOK, LockExcludes, PCs, UnderLock
<1>2. ShellHookTypeOK'
  <2>1. LockExcludes'
    BY <1>1, LockAssumption DEF ShellInv, ShellHookTypeOK, LockExcludes, PCs, UnderLock
  <2>2. ProcTypeOK'
    BY <1>1, ForgetIsTyped DEF ShellInv, ShellHookTypeOK
  <2> QED BY <1>1, <2>1, <2>2 DEF ShellInv, ShellHookTypeOK, DiskTypeOK, PCs, diskVars
<1>3. \A q \in Procs \ {p} : Stays(q)
  BY <1>1 DEF Forget, Stays, ShellInv, ShellHookTypeOK, ProcTypeOK
<1>4. \A q \in Procs \ {p} : Staged(q)'
  BY <1>1, <1>3, UndisturbedIsStaged DEF ShellInv
<1>5. Staged(p)'
  BY <1>1 DEF Staged, Replacing, Saving, Renames, ShellInv, ShellHookTypeOK
<1> QED BY <1>1, <1>2, <1>4, <1>5 DEF ShellInv, diskVars

-----------------------------------------------------------------------------
(***************************************************************************)
(* The steps under the lock.                                               *)
(***************************************************************************)
LEMMA CurIsFile ==
  ASSUME ShellHookTypeOK, NEW p \in Procs, Busy(p)
  PROVE  Cur(p) \in Files
  BY DEF ShellHookTypeOK, ProcTypeOK, Busy, Cur

\* What is left to show of a step that keeps the lock.
KeepsLock(p) ==
  /\ pc[p] \in UnderLock
  /\ pc' = [pc EXCEPT ![p] = pc'[p]] /\ pc'[p] \in UnderLock
  /\ UNCHANGED <<lock, calls>>
  /\ \A q \in Procs \ {p} : Stays(q)

NoneOfAbsent == \A f \in Files : rc[f] = Absent => backups[f] = << >>

LEMMA KeptShell ==
  ASSUME ShellInv, NEW p \in Procs, KeepsLock(p),
         DiskTypeOK', ProcTypeOK', Staged(p)', NoneOfAbsent'
  PROVE  ShellInv'
<1>1. LockExcludes'
  BY DEF KeepsLock, ShellInv, ShellHookTypeOK, LockExcludes, UnderLock, PCs
<1>2. pc' \in [Procs -> PCs]
  BY DEF KeepsLock, ShellInv, ShellHookTypeOK, UnderLock
<1>3. ShellHookTypeOK'
  BY <1>1, <1>2 DEF KeepsLock, ShellInv, ShellHookTypeOK
<1>4. \A q \in Procs \ {p} : Staged(q)'
  BY OthersWait, WaitingIsStaged DEF KeepsLock, ShellInv
<1> QED BY <1>3, <1>4 DEF ShellInv, NoneOfAbsent

LEMMA NextIndex ==
  ASSUME NEW a \in [Procs -> Nat \ {0}], NEW p \in Procs
  PROVE  [a EXCEPT ![p] = @ + 1] \in [Procs -> Nat \ {0}]
OBVIOUS

\* The end of the loop, and the file that is as it should be.
LEMMA PassShell ==
  ASSUME ShellInv, NEW p \in Procs, FilesDone(p) \/ ReadUnchanged(p)
  PROVE  ShellInv'
<1> USE DEF FilesDone, ReadUnchanged, NextFile, Go, ShellInv, ShellHookTypeOK
<1>1. KeepsLock(p)
  BY DEF KeepsLock, Stays, UnderLock, PCs, procVars, ProcTypeOK
<1>2. DiskTypeOK' /\ NoneOfAbsent'
  BY DEF DiskTypeOK, NoneOfAbsent, diskVars
<1>3. ProcTypeOK'
  <2>1. UNCHANGED <<op, files, buf, saved, result>>
    BY DEF procVars
  <2>2. at' \in [Procs -> Nat \ {0}]
    <3>1. at' = at \/ at' = [at EXCEPT ![p] = @ + 1]
      BY DEF procVars
    <3>2. at \in [Procs -> Nat \ {0}]
      BY DEF ProcTypeOK
    <3> QED BY <3>1, <3>2, NextIndex
  <2> QED BY <2>1, <2>2 DEF ProcTypeOK
<1>4. Staged(p)'
  BY DEF Staged, Replacing, Saving, Renames, procVars, ProcTypeOK
<1> QED BY <1>1, <1>2, <1>3, <1>4, KeptShell

\* The new content is computed from the old.
LEMMA ReadShell ==
  ASSUME ShellInv, NEW p \in Procs, ReadChanged(p)
  PROVE  ShellInv'
<1>1. ShellHookTypeOK /\ Cur(p) \in Files
  BY CurIsFile DEF ReadChanged, ShellInv
<1>2. Edited(op[p], Content(Cur(p))) \in Texts
  BY <1>1, EditedIsText
<1>3. KeepsLock(p)
  BY <1>1 DEF ReadChanged, Go, KeepsLock, Stays, UnderLock, PCs, ShellHookTypeOK, ProcTypeOK
<1>4. DiskTypeOK' /\ NoneOfAbsent'
  BY DEF ReadChanged, ShellInv, ShellHookTypeOK, DiskTypeOK, NoneOfAbsent, diskVars
<1>5. ProcTypeOK'
  BY <1>1, <1>2 DEF ReadChanged, ShellHookTypeOK, ProcTypeOK
<1>6. /\ Cur(p)' = Cur(p) /\ Busy(p)' /\ op' = op /\ UNCHANGED diskVars
      /\ op[p] \in {"install", "remove"} /\ op[p] \in Ops
      /\ buf'[p] = Edited(op[p], Content(Cur(p)))
      /\ pc'[p] = IF rc[Cur(p)] = Absent THEN "rename" ELSE "backup.read"
  BY <1>1 DEF ReadChanged, Go, Cur, Busy, ShellHookTypeOK, ProcTypeOK, ShellInv, Staged
<1>7. Edited(op[p], Content(Cur(p)))' = Edited(op[p], Content(Cur(p)))
  BY <1>6 DEF Edited, Content, diskVars
<1>8. Staged(p)'
  BY <1>6, <1>7 DEF Staged, Replacing, Saving, Renames, Edits, diskVars
<1> QED BY <1>3, <1>4, <1>5, <1>8, KeptShell

\* A step of the backup of the file that p replaces.
BacksUp(p, s) ==
  /\ backups' = [backups EXCEPT ![Cur(p)] = s]
  /\ UNCHANGED <<rc, lock, op, files, at, buf, result, calls>>

LEMMA BackupShell ==
  ASSUME ShellInv, NEW p \in Procs, pc[p] \in Saving,
         NEW s \in Seq(Backup), BacksUp(p, s)
  PROVE  /\ DiskTypeOK' /\ NoneOfAbsent'
         /\ Busy(p)' /\ Edits(p)' /\ Cur(p)' = Cur(p) /\ Cur(p) \in Files
         /\ backups'[Cur(p)] = s /\ rc'[Cur(p)] = rc[Cur(p)] /\ rc[Cur(p)] # Absent
         /\ op'[p] \in Ops /\ buf'[p] = Edited(op[p], Content(Cur(p)))'
<1>1. Busy(p) /\ Edits(p) /\ rc[Cur(p)] # Absent /\ Cur(p) \in Files
  BY CurIsFile DEF ShellInv, Staged, Replacing, Saving, Renames
<1>2. Cur(p)' = Cur(p) /\ Busy(p)' /\ Edits(p)'
  BY <1>1 DEF BacksUp, Cur, Busy, Edits
<1>3. backups' \in [Files -> Seq(Backup)] /\ backups'[Cur(p)] = s
  BY <1>1 DEF BacksUp, ShellInv, ShellHookTypeOK, DiskTypeOK, Backup
<1>4. DiskTypeOK' /\ NoneOfAbsent'
  BY <1>1, <1>3 DEF BacksUp, ShellInv, ShellHookTypeOK, DiskTypeOK, NoneOfAbsent, Backup
<1>5. op[p] \in Ops /\ buf[p] = Edited(op[p], Content(Cur(p)))
  BY <1>1 DEF ShellInv, Staged, Replacing, Saving, Renames
<1>6. op'[p] \in Ops /\ buf'[p] = Edited(op[p], Content(Cur(p)))'
  BY <1>1, <1>2, <1>5 DEF BacksUp, Edited, Content
<1> QED BY <1>1, <1>2, <1>3, <1>4, <1>6 DEF BacksUp

LEMMA BackupReadShell ==
  ASSUME ShellInv, NEW p \in Procs, BackupRead(p)
  PROVE  ShellInv'
<1> DEFINE s == Append(backups[Cur(p)], [name |-> "tmp", text |-> << >>])
<1>1. pc[p] \in Saving /\ Cur(p) \in Files /\ rc[Cur(p)] # Absent
  BY CurIsFile DEF BackupRead, Go, Replacing, Saving, Renames, ShellInv, Staged
<1>2. s \in Seq(Backup) /\ s # << >> /\ Last(s).name = "tmp"
  <2>1. [name |-> "tmp", text |-> << >>] \in Backup
    BY DEF Backup, Texts
  <2>2. backups[Cur(p)] \in Seq(Backup)
    BY <1>1 DEF ShellInv, ShellHookTypeOK, DiskTypeOK, Backup
  <2>3. s \in Seq(Backup) /\ s # << >> /\ Last(s) = [name |-> "tmp", text |-> << >>]
    BY <2>1, <2>2, BackupAdded
  <2> QED BY <2>3
<1>3. BacksUp(p, s)
  BY DEF BackupRead, BacksUp
<1> HIDE DEF s
<1>4. KeepsLock(p)
  BY DEF BackupRead, Go, KeepsLock, Stays, UnderLock, PCs, ShellInv, ShellHookTypeOK, ProcTypeOK
<1>5. ProcTypeOK' /\ saved'[p] = rc[Cur(p)] /\ pc'[p] = "backup.write"
  BY <1>1 DEF BackupRead, Go, ShellInv, ShellHookTypeOK, ProcTypeOK, DiskTypeOK
<1>6. Staged(p)'
  BY <1>1, <1>2, <1>3, <1>5, BackupShell DEF NewestBackup, Staged, Replacing, Saving, Renames
<1> QED BY <1>1, <1>2, <1>3, <1>4, <1>5, <1>6, BackupShell, KeptShell

LEMMA BackupWriteShell ==
  ASSUME ShellInv, NEW p \in Procs, BackupWrite(p) \/ BackupRename(p)
  PROVE  ShellInv'
<1> DEFINE name == IF pc[p] = "backup.write" THEN "tmp" ELSE "bak"
           s == Append(Front(backups[Cur(p)]), [name |-> name, text |-> saved[p]])
<1>1. /\ pc[p] \in Saving /\ Cur(p) \in Files /\ rc[Cur(p)] # Absent
      /\ saved[p] = rc[Cur(p)] /\ saved[p] \in Texts
  BY CurIsFile DEF BackupWrite, BackupRename, Go, Replacing, Saving, Renames, ShellInv, Staged,
    ShellHookTypeOK, ProcTypeOK
<1>2. s \in Seq(Backup) /\ s # << >> /\ Last(s) = [name |-> name, text |-> saved[p]]
  <2>1. [name |-> name, text |-> saved[p]] \in Backup
    BY <1>1 DEF Backup
  <2>2. backups[Cur(p)] \in Seq(Backup)
    BY <1>1 DEF ShellInv, ShellHookTypeOK, DiskTypeOK, Backup
  <2>3. Front(backups[Cur(p)]) \in Seq(Backup)
    BY <2>1, <2>2, BackupAdded
  <2> HIDE DEF name
  <2> QED BY <2>1, <2>3, BackupAdded
<1>3. BacksUp(p, s)
  BY DEF BackupWrite, BackupRename, Go, BacksUp, procVars
<1> HIDE DEF s
<1>4. KeepsLock(p)
  BY DEF BackupWrite, BackupRename, Go, KeepsLock, Stays, UnderLock, PCs, ShellInv,
    ShellHookTypeOK, procVars
<1>5. ProcTypeOK' /\ saved'[p] = rc[Cur(p)]
  BY <1>1 DEF BackupWrite, BackupRename, ShellInv, ShellHookTypeOK, ProcTypeOK, procVars
<1>6. \/ pc'[p] = "backup.rename" /\ name = "tmp"
      \/ pc'[p] = "prune" /\ name = "bak"
  BY DEF BackupWrite, BackupRename, Go, ShellInv, ShellHookTypeOK
<1> HIDE DEF name
<1>7. /\ Busy(p)' /\ Edits(p)' /\ Cur(p)' = Cur(p) /\ Cur(p) \in Files
      /\ backups'[Cur(p)] = s /\ rc'[Cur(p)] = rc[Cur(p)]
      /\ op'[p] \in Ops /\ buf'[p] = Edited(op[p], Content(Cur(p)))'
      /\ DiskTypeOK' /\ NoneOfAbsent'
  BY <1>1, <1>2, <1>3, BackupShell
<1>8. name = "bak" => BackedUp(Cur(p))'
  BY <1>1, <1>2, <1>7 DEF BackedUp, NewestBackup
<1>9. Staged(p)'
  BY <1>1, <1>2, <1>5, <1>6, <1>7, <1>8 DEF NewestBackup, Staged, Replacing, Saving, Renames
<1> QED BY <1>4, <1>5, <1>7, <1>9, KeptShell

\* Pruning leaves the newest backup: it stops at maxBackups, one at least.
LEMMA Doomed ==
  ASSUME NEW n \in Nat, NEW i \in 1..(n - maxBackups)
  PROVE  i \in 1..n - 1 /\ \A k \in 1..n : k > n - maxBackups => k \in i + 1..n
BY BackupsAssumption

LEMMA PruneOneShell ==
  ASSUME ShellInv, NEW p \in Procs, PruneOne(p)
  PROVE  ShellInv'
<1> PICK i \in 1..(Len(backups[Cur(p)]) - maxBackups) :
      backups' = [backups EXCEPT ![Cur(p)] = RemoveAt(@, i)]
  BY DEF PruneOne
<1> DEFINE s == RemoveAt(backups[Cur(p)], i)
<1>1. /\ pc[p] \in Saving /\ Cur(p) \in Files
      /\ rc[Cur(p)] # Absent /\ BackedUp(Cur(p))
  BY CurIsFile DEF PruneOne, Replacing, Saving, Renames, ShellInv, Staged
<1>2. s \in Seq(Backup) /\ s # << >> /\ Last(s) = Last(backups[Cur(p)])
  <2>0. backups[Cur(p)] \in Seq(Backup)
    BY <1>1 DEF ShellInv, ShellHookTypeOK, DiskTypeOK, Backup
  <2>1. Len(backups[Cur(p)]) \in Nat
    BY <2>0
  <2>2. i \in 1..Len(backups[Cur(p)]) - 1
    BY <2>1, Doomed
  <2> QED BY <2>0, <2>2, BackupRemoved
<1>3. BacksUp(p, s)
  BY DEF PruneOne, BacksUp, procVars
<1> HIDE DEF s
<1>4. KeepsLock(p)
  BY DEF PruneOne, KeepsLock, Stays, UnderLock, PCs, ShellInv, ShellHookTypeOK, procVars
<1>5. ProcTypeOK' /\ pc'[p] = "prune"
  BY DEF PruneOne, ShellInv, ShellHookTypeOK, ProcTypeOK, procVars
<1>6. /\ Busy(p)' /\ Edits(p)' /\ Cur(p)' = Cur(p)
      /\ backups'[Cur(p)] = s /\ rc'[Cur(p)] = rc[Cur(p)]
      /\ op'[p] \in Ops /\ buf'[p] = Edited(op[p], Content(Cur(p)))'
      /\ DiskTypeOK' /\ NoneOfAbsent'
  BY <1>1, <1>2, <1>3, BackupShell
<1>7. BackedUp(Cur(p))'
  BY <1>1, <1>2, <1>6 DEF BackedUp, NewestBackup
<1>8. Staged(p)'
  BY <1>1, <1>5, <1>6, <1>7 DEF Staged, Replacing, Saving, Renames
<1> QED BY <1>4, <1>5, <1>6, <1>8, KeptShell

LEMMA PruneDoneShell ==
  ASSUME ShellInv, NEW p \in Procs, PruneDone(p)
  PROVE  ShellInv'
<1>1. pc[p] \in Saving /\ BackedUp(Cur(p))
  BY DEF PruneDone, Go, Replacing, Saving, Renames, ShellInv, Staged
<1>2. BacksUp(p, backups[Cur(p)]) /\ backups[Cur(p)] \in Seq(Backup)
  BY <1>1, CurIsFile DEF PruneDone, BacksUp, procVars, diskVars, ShellInv, ShellHookTypeOK,
    DiskTypeOK, Backup, Staged, Replacing, Saving, Renames
<1>3. KeepsLock(p)
  BY DEF PruneDone, Go, KeepsLock, Stays, UnderLock, PCs, ShellInv, ShellHookTypeOK, procVars
<1>4. ProcTypeOK' /\ pc'[p] = "rename"
  BY DEF PruneDone, Go, ShellInv, ShellHookTypeOK, ProcTypeOK, procVars
<1>5. /\ Busy(p)' /\ Edits(p)' /\ Cur(p)' = Cur(p)
      /\ backups'[Cur(p)] = backups[Cur(p)] /\ rc'[Cur(p)] = rc[Cur(p)]
      /\ op'[p] \in Ops /\ buf'[p] = Edited(op[p], Content(Cur(p)))'
      /\ DiskTypeOK' /\ NoneOfAbsent'
  BY <1>1, <1>2, BackupShell
<1>6. BackedUp(Cur(p))'
  BY <1>1, <1>5 DEF BackedUp, NewestBackup
<1>7. Staged(p)'
  BY <1>1, <1>4, <1>5, <1>6 DEF Staged, Replacing, Saving, Renames
<1> QED BY <1>3, <1>4, <1>5, <1>7, KeptShell

\* The file is replaced without a backup.
LEMMA StatFailsShell ==
  ASSUME ShellInv, NEW p \in Procs, StatFails(p)
  PROVE  ShellInv'
<1>1. KeepsLock(p)
  BY DEF StatFails, Go, KeepsLock, Stays, UnderLock, PCs, ShellInv, ShellHookTypeOK, procVars
<1>2. DiskTypeOK' /\ NoneOfAbsent' /\ ProcTypeOK'
  BY DEF StatFails, ShellInv, ShellHookTypeOK, DiskTypeOK, ProcTypeOK, NoneOfAbsent, diskVars,
    procVars
<1>3. /\ Busy(p) /\ Edits(p) /\ rc[Cur(p)] # Absent /\ op[p] \in Ops
      /\ buf[p] = Edited(op[p], Content(Cur(p)))
  BY DEF StatFails, Go, ShellInv, Staged, Replacing, Saving, Renames
<1>4. /\ Busy(p)' /\ Edits(p)' /\ rc'[Cur(p)'] # Absent /\ op'[p] \in Ops
      /\ buf'[p] = Edited(op[p], Content(Cur(p)))'
  BY <1>3 DEF StatFails, Busy, Edits, Cur, Edited, Content, diskVars, procVars
<1>5. pc'[p] = "rename.unsaved"
  BY DEF StatFails, Go, ShellInv, ShellHookTypeOK
<1>6. Staged(p)'
  BY <1>4, <1>5 DEF Staged, Replacing, Saving, Renames
<1> QED BY <1>1, <1>2, <1>6, KeptShell

LEMMA RenameShell ==
  ASSUME ShellInv, NEW p \in Procs, Rename(p)
  PROVE  ShellInv'
<1>1. pc[p] \in Renames /\ Cur(p) \in Files /\ buf[p] \in Texts /\ buf[p] # Absent
  BY CurIsFile, TextsAssumption DEF Rename, NextFile, Go, Replacing, Saving, Renames, ShellInv, Staged,
    ShellHookTypeOK, ProcTypeOK
<1>2. KeepsLock(p)
  BY DEF Rename, NextFile, Go, KeepsLock, Stays, Renames, UnderLock, PCs, ShellInv, ShellHookTypeOK,
    ProcTypeOK
<1>3. DiskTypeOK' /\ NoneOfAbsent'
  BY <1>1 DEF Rename, ShellInv, ShellHookTypeOK, DiskTypeOK, NoneOfAbsent
<1>4. ProcTypeOK'
  BY DEF Rename, NextFile, ShellInv, ShellHookTypeOK, ProcTypeOK
<1>5. pc'[p] = "file" /\ op'[p] \in Ops
  BY <1>1 DEF Rename, Renames, NextFile, Go, ShellInv, ShellHookTypeOK, Staged
<1>6. Staged(p)'
  BY <1>5 DEF Staged, Replacing, Saving, Renames
<1> QED BY <1>2, <1>3, <1>4, <1>6, KeptShell

LEMMA RestoreShell ==
  ASSUME ShellInv, NEW p \in Procs, RestoreRead(p)
  PROVE  ShellInv'
<1>1. Cur(p) \in Files /\ NewestBackup(Cur(p)).text \in Texts
  <2>1. Cur(p) \in Files
    BY CurIsFile DEF RestoreRead, ShellInv
  <2>2. backups[Cur(p)] \in Seq(Backup) /\ backups[Cur(p)] # << >>
    BY <2>1 DEF RestoreRead, ShellInv, ShellHookTypeOK, DiskTypeOK, Backup
  <2>3. NewestBackup(Cur(p)) \in Backup
    BY <2>2 DEF NewestBackup, Last
  <2> QED BY <2>1, <2>3 DEF Backup
<1>2. KeepsLock(p)
  BY DEF RestoreRead, Go, KeepsLock, Stays, UnderLock, PCs, ShellInv, ShellHookTypeOK, ProcTypeOK
<1>3. DiskTypeOK' /\ NoneOfAbsent'
  BY DEF RestoreRead, ShellInv, ShellHookTypeOK, DiskTypeOK, NoneOfAbsent, diskVars
<1>4. ProcTypeOK'
  BY <1>1 DEF RestoreRead, ShellInv, ShellHookTypeOK, ProcTypeOK
<1>5. pc'[p] = "rename" /\ op'[p] \in Ops /\ op'[p] = "restore" /\ Busy(p)'
  BY DEF RestoreRead, Go, ShellInv, ShellHookTypeOK, Staged, Busy
<1>6. Staged(p)'
  BY <1>5 DEF Staged, Replacing, Saving, Renames, Edits
<1> QED BY <1>2, <1>3, <1>4, <1>6, KeptShell

\* A step that fails takes its temporary file away.
LEMMA FailShell ==
  ASSUME ShellInv, NEW p \in Procs, Fail(p)
  PROVE  ShellInv'
<1>1. ShellHookTypeOK /\ Cur(p) \in Files
  BY CurIsFile DEF Fail, ShellInv
<1>2. Front(backups[Cur(p)]) \in Seq(Backup)
  <2>1. backups[Cur(p)] \in Seq(Backup)
    BY <1>1 DEF ShellHookTypeOK, DiskTypeOK, Backup
  <2>2. [name |-> "tmp", text |-> << >>] \in Backup
    BY DEF Backup, Texts
  <2> QED BY <2>1, <2>2, BackupAdded
<1>3. KeepsLock(p)
  BY DEF Fail, KeepsLock, Stays, UnderLock, PCs, ShellInv, ShellHookTypeOK, ProcTypeOK
<1>4. DiskTypeOK'
  <2>1. rc' = rc /\ backups' \in [Files -> Seq(Backup)]
    BY <1>1, <1>2 DEF Fail, ShellHookTypeOK, DiskTypeOK, Backup
  <2> QED BY <1>1, <2>1 DEF ShellHookTypeOK, DiskTypeOK, Backup
<1>5. NoneOfAbsent'
  <2>1. pc[p] \in {"backup.write", "backup.rename"} => rc[Cur(p)] # Absent
    BY DEF ShellInv, Staged, Replacing, Saving, Renames
  <2> QED BY <1>1, <2>1 DEF Fail, ShellInv, ShellHookTypeOK, DiskTypeOK, NoneOfAbsent
<1>6. ProcTypeOK'
  BY DEF Fail, ShellInv, ShellHookTypeOK, ProcTypeOK
<1>7. pc'[p] = "unlock" /\ op'[p] \in Ops
  BY DEF Fail, ShellInv, ShellHookTypeOK, Staged, UnderLock
<1>8. Staged(p)'
  BY <1>7 DEF Staged, Replacing, Saving, Renames
<1> QED BY <1>3, <1>4, <1>5, <1>6, <1>8, KeptShell

LEMMA ShellStep == ShellInv /\ [Next]_shellVars => ShellInv'
<1> SUFFICES ASSUME ShellInv, [Next]_shellVars PROVE ShellInv'
  OBVIOUS
<1>1. CASE UNCHANGED shellVars
  <2>1. ShellHookTypeOK'
    BY <1>1 DEF shellVars, ShellInv, ShellHookTypeOK, DiskTypeOK, ProcTypeOK, LockExcludes
  <2>2. \A p \in Procs : Staged(p)'
    BY <1>1, UndisturbedIsStaged DEF shellVars, diskVars, Stays, ShellInv
  <2> QED BY <1>1, <2>1, <2>2 DEF shellVars, ShellInv
<1>2. ASSUME NEW p \in Procs, NEW o \in Ops, Call(p, o) PROVE ShellInv'
  BY <1>2, CallShell
<1>3. ASSUME NEW p \in Procs, Lock(p) PROVE ShellInv'
  BY <1>3, LockShell
<1>4. ASSUME NEW p \in Procs, Step(p) PROVE ShellInv'
  BY <1>4, PassShell, ReadShell, StatFailsShell, BackupReadShell, BackupWriteShell, PruneOneShell,
    PruneDoneShell, RenameShell, RestoreShell, FailShell, CrashShell DEF Step
<1>5. ASSUME NEW p \in Procs, Crash(p) \/ LockFails(p) PROVE ShellInv'
  BY <1>5, CrashShell
<1> QED BY <1>1, <1>2, <1>3, <1>4, <1>5 DEF Next

LEMMA ShellInvariant == Spec => []ShellInv
<1>1. Init => ShellInv
  BY InitShell
<1>2. ShellInv /\ [Next]_shellVars => ShellInv'
  BY ShellStep
<1> QED BY <1>1, <1>2, PTL DEF Spec

(***************************************************************************)
(* The disk, the lock and every process are always of their types, and     *)
(* exactly the one that holds the lock is under it.                        *)
(***************************************************************************)
THEOREM ShellHookTypeCorrect == Spec => []ShellHookTypeOK
<1>1. ShellInv => ShellHookTypeOK
  BY DEF ShellInv
<1> QED BY <1>1, ShellInvariant, PTL

(***************************************************************************)
(* A backup among the newest maxBackups files of its prefix stays.  Only a *)
(* prune, the replacement of a temporary file and the clean-up of an error *)
(* take a file away, and the last two take the newest, a temporary one.    *)
(***************************************************************************)
Retained(s, t) ==
  \A k \in DOMAIN s : s[k].name = "bak" /\ k > Len(s) - maxBackups =>
    \E j \in {k - 1, k} \cap DOMAIN t : t[j] = s[k]

\* What is added at the end disturbs none; nor does taking a temporary file.
LEMMA AddedRetains ==
  ASSUME NEW s \in Seq(Backup), NEW e \in Backup
  PROVE  Retained(s, s) /\ Retained(s, Append(s, e))
BY DEF Retained

LEMMA TakenRetains ==
  ASSUME NEW s \in Seq(Backup), NEW e \in Backup, s # << >>, Last(s).name = "tmp"
  PROVE  Retained(s, Front(s)) /\ Retained(s, Append(Front(s), e))
<1>1. Front(s) \in Seq(Backup) /\ Len(s) \in Nat \ {0} /\ Len(Front(s)) = Len(s) - 1
      /\ \A k \in 1..Len(s) - 1 : Front(s)[k] = s[k]
  BY FrontKeeps, BackupAdded
<1>2. \A k \in 1..Len(s) : s[k].name = "bak" => k \in 1..Len(s) - 1
  BY <1>1 DEF Last
<1>3. \A k \in 1..Len(s) - 1 : Append(Front(s), e)[k] = s[k]
  BY <1>1
<1>4. DOMAIN Front(s) = 1..Len(s) - 1 /\ DOMAIN Append(Front(s), e) = 1..Len(s)
  BY <1>1
<1> QED BY <1>1, <1>2, <1>3, <1>4 DEF Retained

LEMMA PrunedRetains ==
  ASSUME NEW s \in Seq(Backup), NEW i \in 1..(Len(s) - maxBackups)
  PROVE  Retained(s, RemoveAt(s, i))
<1>1. Len(s) \in Nat /\ i \in 1..Len(s) - 1
      /\ \A k \in 1..Len(s) : k > Len(s) - maxBackups => k \in i + 1..Len(s)
  BY Doomed
<1>2. /\ RemoveAt(s, i) \in Seq(Backup) /\ Len(RemoveAt(s, i)) = Len(s) - 1
      /\ \A k \in i + 1..Len(s) : RemoveAt(s, i)[k - 1] = s[k]
  BY <1>1, BackupRemoved
<1>3. \A k \in i + 1..Len(s) : k - 1 \in DOMAIN RemoveAt(s, i)
  BY <1>1, <1>2
<1> QED BY <1>1, <1>2, <1>3 DEF Retained

THEOREM BackupsRetainedCorrect == Spec => BackupsRetained
<1>1. ShellInv /\ [Next]_shellVars =>
        [\A f \in Files : \A k \in DOMAIN backups[f] :
           backups[f][k].name = "bak" /\ k > Len(backups[f]) - maxBackups =>
             \E j \in {k - 1, k} \cap DOMAIN backups'[f] : backups'[f][j] = backups[f][k]]_shellVars
  <2> SUFFICES ASSUME ShellInv, [Next]_shellVars, NEW f \in Files
               PROVE  Retained(backups[f], backups'[f])
    BY DEF Retained
  <2>1. backups \in [Files -> Seq(Backup)] /\ backups[f] \in Seq(Backup)
    BY DEF ShellInv, ShellHookTypeOK, DiskTypeOK, Backup
  <2>2. [name |-> "tmp", text |-> << >>] \in Backup
    BY DEF Backup, Texts
  <2>3. ASSUME backups'[f] = backups[f] PROVE Retained(backups[f], backups'[f])
    BY <2>1, <2>2, <2>3, AddedRetains
  <2>4. ASSUME NEW p \in Procs, BackupRead(p) PROVE Retained(backups[f], backups'[f])
    <3>1. backups'[f] \in {backups[f], Append(backups[f], [name |-> "tmp", text |-> << >>])}
      BY <2>1, <2>4 DEF BackupRead
    <3> QED BY <2>1, <2>2, <3>1, AddedRetains
  <2>5. ASSUME NEW p \in Procs, BackupWrite(p) \/ BackupRename(p) \/ Fail(p)
        PROVE  Retained(backups[f], backups'[f])
    <3>1. CASE backups'[f] = backups[f]
      BY <2>3, <3>1
    <3>2. CASE backups'[f] # backups[f]
      <4>1. f = Cur(p) /\ pc[p] \in {"backup.write", "backup.rename"}
        BY <2>1, <2>5, <3>2 DEF BackupWrite, BackupRename, Fail, Go
      <4>2. backups[f] # << >> /\ Last(backups[f]).name = "tmp"
        BY <4>1 DEF ShellInv, Staged, NewestBackup
      <4>3. \A n \in {"tmp", "bak"} : [name |-> n, text |-> saved[p]] \in Backup
        BY DEF Backup, ShellInv, ShellHookTypeOK, ProcTypeOK
      <4>4. \/ backups'[f] = Front(backups[f])
            \/ \E n \in {"tmp", "bak"} :
                 backups'[f] = Append(Front(backups[f]), [name |-> n, text |-> saved[p]])
        BY <2>1, <2>5, <4>1 DEF BackupWrite, BackupRename, Fail
      <4> QED BY <2>1, <2>2, <4>2, <4>3, <4>4, TakenRetains
    <3> QED BY <3>1, <3>2
  <2>6. ASSUME NEW p \in Procs, PruneOne(p) PROVE Retained(backups[f], backups'[f])
    <3>1. PICK i \in 1..(Len(backups[Cur(p)]) - maxBackups) :
            backups' = [backups EXCEPT ![Cur(p)] = RemoveAt(@, i)]
      BY <2>6 DEF PruneOne
    <3>2. CASE f = Cur(p)
      BY <2>1, <3>1, <3>2, PrunedRetains
    <3>3. CASE f # Cur(p)
      BY <2>1, <2>3, <3>1, <3>3
    <3> QED BY <3>2, <3>3
  \* The other steps leave the backups alone.
  <2>7. ASSUME NEW p \in Procs, (\E o \in Ops : Call(p, o)) \/ Lock(p) \/ LockFails(p)
          \/ Crash(p) \/ FilesDone(p) \/ ReadUnchanged(p) \/ ReadChanged(p) \/ StatFails(p)
          \/ PruneDone(p) \/ Rename(p) \/ RestoreRead(p) \/ Unlock(p)
        PROVE  Retained(backups[f], backups'[f])
    BY <2>3, <2>7 DEF Call, Lock, LockFails, Crash, FilesDone, ReadUnchanged, ReadChanged,
      StatFails, PruneDone, Rename, RestoreRead, Unlock, diskVars
  <2> QED BY <2>3, <2>4, <2>5, <2>6, <2>7 DEF Next, Step, shellVars
<1> QED BY <1>1, ShellInvariant, PTL DEF Spec, BackupsRetained

\* A file changes only by a rename of the process that holds the lock.
LEMMA OnlyRenames ==
  ASSUME ShellInv, [Next]_shellVars
  PROVE  \/ rc' = rc
         \/ \E p \in Procs : Rename(p)
<1> SUFFICES ASSUME Next, \A p \in Procs : ~Rename(p) PROVE rc' = rc
  BY DEF shellVars
<1>1. PICK p \in Procs : (\E o \in Ops : Call(p, o)) \/ Lock(p) \/ LockFails(p)
        \/ Step(p) \/ Crash(p)
  BY DEF Next
<1>2. CASE (\E o \in Ops : Call(p, o)) \/ Lock(p) \/ LockFails(p) \/ Crash(p)
  BY <1>2 DEF Call, Lock, LockFails, Crash, diskVars
<1>3. CASE Step(p)
  BY <1>3 DEF Step, FilesDone, ReadUnchanged, ReadChanged, StatFails, BackupRead, BackupWrite,
    BackupRename, PruneOne, PruneDone, RestoreRead, Fail, Unlock, diskVars
<1> QED BY <1>1, <1>2, <1>3

\* What it writes, unless it restores, is the edit of what it replaces.
LEMMA RenameEdits ==
  ASSUME ShellInv, NEW p \in Procs, Rename(p), NEW f \in Files, rc'[f] # rc[f], ~Restores(f)
  PROVE  /\ f = Cur(p) /\ Edits(p) /\ op[p] \in Ops
         /\ rc[f] # Absent /\ ~Unsaved(f) => BackedUp(f)
         /\ rc'[f] = Edited(op[p], Content(f)) /\ rc'[f] \in Texts
<1>1. f = Cur(p) /\ rc'[f] = buf[p] /\ pc[p] \in Renames
  BY DEF Rename, NextFile, Go, ShellInv, ShellHookTypeOK, DiskTypeOK
<1>2. Edits(p) /\ op[p] \in Ops
  BY <1>1, OpsAssumption DEF Restores, Renames, Replacing, ShellInv, Staged, Edits
<1>3. (rc[f] # Absent /\ ~Unsaved(f) => BackedUp(f)) /\ buf[p] = Edited(op[p], Content(f))
  BY <1>1, <1>2 DEF Unsaved, ShellInv, Staged, Replacing, Saving, Renames
<1> QED BY <1>1, <1>2, <1>3 DEF ShellInv, ShellHookTypeOK, ProcTypeOK

(***************************************************************************)
(* No update of an installation or a removal is lost: what a rename puts   *)
(* there is the edit of what is there at that moment, as if the reading,   *)
(* the backup and the writing were one step.  Settings takes it for one.   *)
(***************************************************************************)
EditsAreAtomic ==
  [][\A f \in Files : rc'[f] # rc[f] /\ ~Restores(f) =>
       \E o \in Ops \cap {"install", "remove"} : rc'[f] = Edited(o, Content(f))]_shellVars

THEOREM EditsAreAtomicCorrect == Spec => EditsAreAtomic
<1>1. ShellInv /\ [Next]_shellVars =>
        [\A f \in Files : rc'[f] # rc[f] /\ ~Restores(f) =>
           \E o \in Ops \cap {"install", "remove"} : rc'[f] = Edited(o, Content(f))]_shellVars
  <2> SUFFICES ASSUME ShellInv, [Next]_shellVars, NEW f \in Files, rc'[f] # rc[f], ~Restores(f)
               PROVE  \E o \in Ops \cap {"install", "remove"} : rc'[f] = Edited(o, Content(f))
    OBVIOUS
  <2>1. PICK p \in Procs : Rename(p)
    BY OnlyRenames
  <2>2. op[p] \in Ops \cap {"install", "remove"} /\ rc'[f] = Edited(op[p], Content(f))
    BY <2>1, RenameEdits DEF Edits
  <2> QED BY <2>2
<1> QED BY <1>1, ShellInvariant, PTL DEF Spec, EditsAreAtomic

(***************************************************************************)
(* Whenever an installation or a removal replaces a file, the newest       *)
(* backup is the file it replaces, unless its Stat of the file failed.     *)
(***************************************************************************)
THEOREM ReplacedIsBackedUpCorrect == Spec => ReplacedIsBackedUp
<1>1. ShellInv /\ [Next]_shellVars =>
        [\A f \in Files : rc[f] # Absent /\ rc'[f] # rc[f] /\ ~Restores(f) /\ ~Unsaved(f) =>
           backups[f] # <<>> /\ NewestBackup(f) = [name |-> "bak", text |-> rc[f]]]_shellVars
  <2> SUFFICES ASSUME ShellInv, [Next]_shellVars, NEW f \in Files,
                      rc[f] # Absent, rc'[f] # rc[f], ~Restores(f), ~Unsaved(f)
               PROVE  BackedUp(f)
    BY DEF BackedUp
  <2>1. PICK p \in Procs : Rename(p)
    BY OnlyRenames
  <2> QED BY <2>1, RenameEdits
<1> QED BY <1>1, ShellInvariant, PTL DEF Spec, ReplacedIsBackedUp

-----------------------------------------------------------------------------
(***************************************************************************)
(* Every text there is, in a startup file, a backup or a process, is well- *)
(* formed if those of the beginning are.                                   *)
(***************************************************************************)
GoodTexts  == {t \in Texts : WellFormed(t)}
GoodBackup == [name : {"bak", "tmp"}, text : GoodTexts]

TextsInv ==
  /\ rc \in [Files -> GoodTexts \cup {Absent}]
  /\ backups \in [Files -> Seq(GoodBackup)]
  /\ buf \in [Procs -> GoodTexts] /\ saved \in [Procs -> GoodTexts]

LEMMA EmptyIsGood == << >> \in GoodTexts
<1>1. << >> \in Texts /\ Len(<< >>) = 0
  BY DEF Texts
<1>2. WellFormed(<< >>)
  BY <1>1 DEF WellFormed
<1> QED BY <1>1, <1>2 DEF GoodTexts

LEMMA EditedIsGood ==
  ASSUME TextsInv, NEW f \in Files, NEW o
  PROVE  /\ Content(f) \in GoodTexts /\ Edited(o, Content(f)) \in GoodTexts
         /\ Installed(Edited(o, Content(f))) <=> o = "install"
<1>1. Content(f) \in GoodTexts
  BY EmptyIsGood DEF Content, TextsInv
<1>2. Content(f) \in Texts /\ WellFormed(Content(f))
  BY <1>1 DEF GoodTexts
<1> QED BY <1>1, <1>2, InjectInstalls, StripRemoves DEF Edited, GoodTexts

LEMMA InitTextsInv == Init => TextsInv
<1> SUFFICES ASSUME Init PROVE TextsInv
  OBVIOUS
<1>1. \A t \in InitTexts : t \in GoodTexts \cup {Absent}
  BY TextsAssumption, WellFormedAssumption DEF GoodTexts
<1>2. << >> \in Seq(GoodBackup)
  OBVIOUS
<1> QED BY <1>1, <1>2, EmptyIsGood DEF Init, TextsInv

LEMMA TextsStep ==
  ASSUME ShellInv, TextsInv, [Next]_shellVars
  PROVE  TextsInv'
<1> DEFINE Same == UNCHANGED <<rc, backups, buf, saved>>
<1>1. ASSUME Same PROVE TextsInv'
  BY <1>1 DEF TextsInv
<1>2. CASE UNCHANGED shellVars
  BY <1>1, <1>2 DEF shellVars
<1>3. ASSUME NEW p \in Procs, (\E o \in Ops : Call(p, o)) \/ Lock(p) \/ FilesDone(p)
               \/ ReadUnchanged(p) \/ StatFails(p) \/ PruneDone(p)
      PROVE  TextsInv'
  BY <1>1, <1>3 DEF Call, Lock, FilesDone, ReadUnchanged, StatFails, PruneDone, diskVars, procVars
<1>4. ASSUME NEW p \in Procs, Unlock(p) \/ Crash(p) \/ LockFails(p) PROVE TextsInv'
  <2>1. UNCHANGED diskVars /\ Forget(p)
    BY <1>4 DEF Unlock, Crash, LockFails
  <2> QED BY <2>1, EmptyIsGood DEF Forget, diskVars, TextsInv
<1>5. ASSUME NEW p \in Procs, ReadChanged(p) PROVE TextsInv'
  <2>1. Cur(p) \in Files
    BY <1>5, CurIsFile DEF ReadChanged, ShellInv
  <2>2. Edited(op[p], Content(Cur(p))) \in GoodTexts
    BY <2>1, EditedIsGood
  <2> QED BY <1>5, <2>2 DEF ReadChanged, diskVars, TextsInv
<1>6. ASSUME NEW p \in Procs, BackupRead(p) PROVE TextsInv'
  <2>1. Cur(p) \in Files /\ rc[Cur(p)] # Absent
    BY <1>6, CurIsFile DEF BackupRead, Go, Replacing, Saving, Renames, ShellInv, Staged
  <2>2. rc[Cur(p)] \in GoodTexts /\ backups[Cur(p)] \in Seq(GoodBackup)
    BY <2>1 DEF TextsInv
  <2>3. [name |-> "tmp", text |-> << >>] \in GoodBackup
    BY EmptyIsGood DEF GoodBackup
  <2>4. Append(backups[Cur(p)], [name |-> "tmp", text |-> << >>]) \in Seq(GoodBackup)
    BY <2>2, <2>3, BackupAdded
  <2> QED BY <1>6, <2>2, <2>4 DEF BackupRead, TextsInv
<1>7. ASSUME NEW p \in Procs, BackupWrite(p) \/ BackupRename(p) PROVE TextsInv'
  <2>1. Cur(p) \in Files
    BY <1>7, CurIsFile DEF BackupWrite, BackupRename, Go, Replacing, Saving, Renames, ShellInv, Staged
  <2>2. backups[Cur(p)] \in Seq(GoodBackup) /\ saved[p] \in GoodTexts
    BY <2>1 DEF TextsInv
  <2>3. \A n \in {"tmp", "bak"} : [name |-> n, text |-> saved[p]] \in GoodBackup
    BY <2>2 DEF GoodBackup
  <2>4. Front(backups[Cur(p)]) \in Seq(GoodBackup)
    BY <2>2, <2>3, BackupAdded
  <2>5. \A n \in {"tmp", "bak"} :
          Append(Front(backups[Cur(p)]), [name |-> n, text |-> saved[p]]) \in Seq(GoodBackup)
    BY <2>3, <2>4, BackupAdded
  <2> QED BY <1>7, <2>5 DEF BackupWrite, BackupRename, procVars, TextsInv
<1>8. ASSUME NEW p \in Procs, PruneOne(p) PROVE TextsInv'
  <2>1. Cur(p) \in Files
    BY <1>8, CurIsFile DEF PruneOne, Replacing, Saving, Renames, ShellInv, Staged
  <2>2. backups[Cur(p)] \in Seq(GoodBackup) /\ Len(backups[Cur(p)]) \in Nat
    BY <2>1 DEF TextsInv
  <2>3. \A i \in 1..(Len(backups[Cur(p)]) - maxBackups) :
          RemoveAt(backups[Cur(p)], i) \in Seq(GoodBackup)
    BY <2>2, Doomed, BackupRemoved
  <2> QED BY <1>8, <2>3 DEF PruneOne, procVars, TextsInv
<1>9. ASSUME NEW p \in Procs, Rename(p) PROVE TextsInv'
  BY <1>9 DEF Rename, TextsInv
<1>10. ASSUME NEW p \in Procs, RestoreRead(p) PROVE TextsInv'
  <2>1. Cur(p) \in Files
    BY <1>10, CurIsFile DEF RestoreRead, ShellInv
  <2>2. backups[Cur(p)] \in Seq(GoodBackup) /\ backups[Cur(p)] # << >>
    BY <1>10, <2>1 DEF RestoreRead, TextsInv
  <2>3. NewestBackup(Cur(p)) \in GoodBackup
    BY <2>2 DEF NewestBackup, Last
  <2>4. NewestBackup(Cur(p)).text \in GoodTexts
    BY <2>3 DEF GoodBackup
  <2> QED BY <1>10, <2>4 DEF RestoreRead, diskVars, TextsInv
<1>11. ASSUME NEW p \in Procs, Fail(p) PROVE TextsInv'
  <2>1. Cur(p) \in Files
    BY <1>11, CurIsFile DEF Fail, ShellInv
  <2>2. backups[Cur(p)] \in Seq(GoodBackup)
    BY <2>1 DEF TextsInv
  <2>3. [name |-> "tmp", text |-> << >>] \in GoodBackup
    BY EmptyIsGood DEF GoodBackup
  <2>4. Front(backups[Cur(p)]) \in Seq(GoodBackup)
    BY <2>2, <2>3, BackupAdded
  <2> QED BY <1>11, <2>4 DEF Fail, TextsInv
<1> QED BY <1>2, <1>3, <1>4, <1>5, <1>6, <1>7, <1>8, <1>9, <1>10, <1>11 DEF Next, Step

LEMMA TextsInvariant == Spec => [](ShellInv /\ TextsInv)
<1>1. Init => ShellInv /\ TextsInv
  BY InitShell, InitTextsInv
<1>2. ShellInv /\ TextsInv /\ [Next]_shellVars => (ShellInv /\ TextsInv)'
  BY ShellStep, TextsStep
<1> QED BY <1>1, <1>2, PTL DEF Spec

(***************************************************************************)
(* No crash, no error and no restoration leaves a startup file with a      *)
(* second block, a marker alone or the user's text between two markers.    *)
(* A temporary file of a backup is empty or whole: its content is written  *)
(* by one call.                                                            *)
(***************************************************************************)
FilesStayWellFormed == \A f \in Files : rc[f] # Absent => WellFormed(rc[f])

THEOREM FilesStayWellFormedCorrect == Spec => []FilesStayWellFormed
<1>1. TextsInv => FilesStayWellFormed
  BY DEF TextsInv, GoodTexts, FilesStayWellFormed
<1> QED BY <1>1, TextsInvariant, PTL

(***************************************************************************)
(* No installation and no removal changes the user's own text, wherever    *)
(* processes crash and in whatever order they run.                         *)
(***************************************************************************)
THEOREM UserTextKeptCorrect == Spec => UserTextKept
<1>1. ShellInv /\ TextsInv /\ [Next]_shellVars =>
        [\A f \in Files : rc[f] # Absent /\ ~Restores(f) =>
           rc'[f] # Absent /\ UserText(rc'[f]) = UserText(rc[f])]_shellVars
  <2> SUFFICES ASSUME ShellInv, TextsInv, [Next]_shellVars, NEW f \in Files,
                      rc[f] # Absent, ~Restores(f), rc'[f] # rc[f]
               PROVE  rc'[f] # Absent /\ UserText(rc'[f]) = UserText(rc[f])
    OBVIOUS
  <2>1. PICK p \in Procs : Rename(p)
    BY OnlyRenames
  <2>2. rc'[f] = Edited(op[p], rc[f]) /\ rc'[f] \in Texts
    BY <2>1, RenameEdits DEF Content
  <2>3. rc[f] \in Texts /\ WellFormed(rc[f])
    BY DEF TextsInv, GoodTexts
  <2>4. UserText(Edited(op[p], rc[f])) = UserText(rc[f])
    BY <2>3, EditsKeepUserText DEF Edited
  <2> QED BY <2>2, <2>4, TextsAssumption
<1> QED BY <1>1, TextsInvariant, PTL DEF Spec, UserTextKept

-----------------------------------------------------------------------------
(***************************************************************************)
(* A process that has met no error has done the files it has passed, and a *)
(* file that exists goes on to exist.                                      *)
(***************************************************************************)
Passed(p) ==
  /\ pc[p] = "lock" => at[p] = 1
  /\ pc[p] = "unlock" /\ result[p] = "ok" => ~Busy(p)
  /\ pc[p] # "idle" /\ op[p] = "remove" =>
       \A i \in 1..Len(files[p]) : rc[files[p][i]] # Absent
  /\ pc[p] # "idle" /\ Edits(p) =>
       \A i \in 1..Len(files[p]) : i < at[p] =>
         (Installed(rc[files[p][i]]) <=> op[p] = "install")

DoneInv == \A p \in Procs : Passed(p)

\* Without a change of a startup file.
LEMMA StaysPassed ==
  ASSUME NEW p \in Procs, Passed(p), Stays(p), rc' = rc
  PROVE  Passed(p)'
  BY DEF Passed, Stays, Busy, Edits

\* While another, that holds the lock, replaces one.
LEMMA WaitsPassed ==
  ASSUME ShellInv, TextsInv, NEW p \in Procs, Rename(p), NEW q \in Procs, q # p, Passed(q)
  PROVE  Passed(q)'
<1>1. Stays(q)
  BY DEF Rename, NextFile, Go, Stays, ShellInv, ShellHookTypeOK, ProcTypeOK
<1>2. pc[q] \in {"idle", "lock"}
  BY OthersWait DEF Rename, Renames, ShellInv, UnderLock, PCs
<1>3. files[q] \in Seq(Files) /\ at[q] \in Nat \ {0}
  BY DEF ShellInv, ShellHookTypeOK, ProcTypeOK
<1>4. \A f \in Files : rc[f] # Absent => rc'[f] # Absent
  BY TextsAssumption DEF Rename, ShellInv, ShellHookTypeOK, DiskTypeOK, ProcTypeOK
<1>5. \A i \in 1..Len(files[q]) : files[q][i] \in Files /\ (pc[q] # "idle" => ~(i < at[q]))
  BY <1>2, <1>3 DEF Passed
<1> QED BY <1>1, <1>2, <1>4, <1>5 DEF Passed, Stays

\* The files of a removal are there.
LEMMA CallPassed ==
  ASSUME ShellInv, NEW p \in Procs, NEW o \in Ops, Call(p, o)
  PROVE  Passed(p)'
<1>1. PICK fs \in ConfigFiles(o) : files' = [files EXCEPT ![p] = fs]
  BY DEF Call
<1>2. /\ pc'[p] = "lock" /\ op'[p] = o /\ at'[p] = 1 /\ files'[p] = fs /\ rc' = rc
      /\ fs \in Seq(Files)
  BY <1>1, FilesAreCalled DEF Call, Go, ShellInv, ShellHookTypeOK, ProcTypeOK
<1>3. o = "remove" => \A i \in 1..Len(fs) : rc[fs[i]] # Absent
  <2> HAVE o = "remove"
  <2>1. fs \in Orders(Existing)
    BY DEF ConfigFiles
  <2>2. \A i \in DOMAIN fs : fs[i] \in Existing
    BY <2>1 DEF Orders
  <2> QED BY <1>2, <2>2 DEF Existing
<1>4. \A i \in 1..Len(fs) : ~(i < 1)
  BY <1>2
<1> QED BY <1>2, <1>3, <1>4 DEF Passed

\* The file is as it should be: it counts as done.
LEMMA UnchangedPassed ==
  ASSUME ShellInv, TextsInv, NEW p \in Procs, Passed(p), ReadUnchanged(p)
  PROVE  Passed(p)'
<1>1. /\ Cur(p) \in Files /\ Edits(p) /\ pc[p] = "file" /\ pc'[p] = "file"
      /\ files[p] \in Seq(Files) /\ at[p] \in 1..Len(files[p]) /\ at'[p] = at[p] + 1
      /\ op' = op /\ files' = files /\ rc' = rc
  BY CurIsFile DEF ReadUnchanged, NextFile, Go, ShellInv, ShellHookTypeOK, ProcTypeOK, Edits,
    Busy, diskVars
<1>2. Installed(Content(Cur(p))) <=> op[p] = "install"
  BY <1>1, EditedIsGood DEF ReadUnchanged
<1>3. rc[Cur(p)] # Absent
  <2>1. op[p] = "remove" => rc[Cur(p)] # Absent
    BY <1>1 DEF Passed, Cur
  <2>2. rc[Cur(p)] = Absent => ~Installed(Content(Cur(p)))
    BY DEF Content, Installed, Where
  <2> QED BY <1>1, <1>2, <2>1, <2>2 DEF Edits
<1>4. Installed(rc[Cur(p)]) <=> op[p] = "install"
  BY <1>2, <1>3 DEF Content
<1>5. \A i \in 1..Len(files[p]) : i < at[p] + 1 =>
        (Installed(rc[files[p][i]]) <=> op[p] = "install")
  <2> TAKE i \in 1..Len(files[p])
  <2> HAVE i < at[p] + 1
  <2>1. CASE i = at[p]
    BY <1>4, <2>1 DEF Cur
  <2>2. CASE i # at[p]
    <3>1. i < at[p]
      BY <1>1, <2>2
    <3> QED BY <1>1, <3>1 DEF Passed
  <2> QED BY <2>1, <2>2
<1> QED BY <1>1, <1>5 DEF Passed

\* It is written: now it is done.
LEMMA RenamePassed ==
  ASSUME ShellInv, TextsInv, NEW p \in Procs, Passed(p), Rename(p)
  PROVE  Passed(p)'
<1>1. /\ Cur(p) \in Files /\ pc[p] \in Renames /\ pc'[p] = "file"
      /\ files[p] \in Seq(Files) /\ at[p] \in 1..Len(files[p]) /\ at'[p] = at[p] + 1
      /\ op' = op /\ files' = files /\ rc' = [rc EXCEPT ![Cur(p)] = buf[p]]
      /\ buf[p] # Absent
  BY CurIsFile, TextsAssumption DEF Rename, NextFile, Go, ShellInv, Staged, Replacing, Saving, Renames,
    ShellHookTypeOK, ProcTypeOK, Busy
<1>2. Edits(p) => (Installed(buf[p]) <=> op[p] = "install")
  BY <1>1, EditedIsGood DEF ShellInv, Staged, Replacing, Saving, Renames
<1>3. \A f \in Files : rc'[f] = IF f = Cur(p) THEN buf[p] ELSE rc[f]
  BY <1>1 DEF ShellInv, ShellHookTypeOK, DiskTypeOK
<1>4. \A i \in 1..Len(files[p]) : files[p][i] \in Files
  BY <1>1
<1>5. op[p] = "remove" => \A i \in 1..Len(files[p]) : rc'[files[p][i]] # Absent
  BY <1>1, <1>3, <1>4 DEF Passed, Renames
<1>6. Edits(p) => \A i \in 1..Len(files[p]) : i < at[p] + 1 =>
        (Installed(rc'[files[p][i]]) <=> op[p] = "install")
  <2> HAVE Edits(p)
  <2> TAKE i \in 1..Len(files[p])
  <2> HAVE i < at[p] + 1
  <2>1. CASE files[p][i] = Cur(p)
    BY <1>1, <1>2, <1>3, <2>1
  <2>2. CASE files[p][i] # Cur(p)
    <3>1. i < at[p]
      BY <1>1, <2>2 DEF Cur
    <3> QED BY <1>1, <1>3, <1>4, <2>2, <3>1 DEF Passed, Renames
  <2> QED BY <2>1, <2>2
<1> QED BY <1>1, <1>5, <1>6 DEF Passed, Edits

LEMMA DoneStep ==
  ASSUME ShellInv, TextsInv, DoneInv, [Next]_shellVars
  PROVE  DoneInv'
<1> SUFFICES ASSUME NEW q \in Procs PROVE Passed(q)'
  BY DEF DoneInv
<1>0. Passed(q)
  BY DEF DoneInv
<1>1. CASE UNCHANGED shellVars
  BY <1>0, <1>1, StaysPassed DEF shellVars, Stays
<1>2. ASSUME NEW p \in Procs, (\E o \in Ops : Call(p, o)) \/ Lock(p) \/ LockFails(p)
        \/ Step(p) \/ Crash(p)
      PROVE  Passed(q)'
  <2>1. CASE Rename(p)
    BY <1>0, <2>1, RenamePassed, WaitsPassed
  <2>2. CASE ReadUnchanged(p) /\ q = p
    BY <1>0, <2>2, UnchangedPassed
  <2>3. CASE (\E o \in Ops : Call(p, o)) /\ q = p
    BY <2>3, CallPassed
  <2>4. CASE ~Rename(p) /\ q # p
    <3>1. rc' = rc /\ Stays(q)
      BY <1>2, <2>4 DEF Call, Lock, LockFails, Crash, Step, FilesDone, ReadUnchanged,
        ReadChanged, StatFails, BackupRead, BackupWrite, BackupRename, PruneOne, PruneDone, RestoreRead, Fail, Unlock,
        NextFile, Forget, Go, Stays, diskVars, procVars, ShellInv, ShellHookTypeOK, ProcTypeOK
    <3> QED BY <1>0, <3>1, StaysPassed
  <2>5. CASE q = p /\ (Unlock(p) \/ Crash(p) \/ LockFails(p))
    <3>1. pc'[p] = "idle"
      BY <2>5 DEF Unlock, Crash, LockFails, Go, ShellInv, ShellHookTypeOK
    <3> QED BY <2>5, <3>1 DEF Passed, Edits
  <2>6. CASE q = p /\ Lock(p)
    <3>1. pc[p] = "lock" /\ pc'[p] = "file" /\ UNCHANGED <<diskVars, procVars>>
      BY <2>6 DEF Lock, Go, ShellInv, ShellHookTypeOK
    <3> QED BY <1>0, <2>6, <3>1 DEF Passed, Edits, diskVars, procVars
  <2>7. CASE q = p /\ FilesDone(p)
    <3>1. pc[p] = "file" /\ pc'[p] = "unlock" /\ ~Busy(p) /\ UNCHANGED <<diskVars, procVars>>
      BY <2>7 DEF FilesDone, ShellInv, ShellHookTypeOK
    <3> QED BY <1>0, <2>7, <3>1 DEF Passed, Edits, Busy, diskVars, procVars
  <2>8. CASE q = p /\ Fail(p)
    <3>1. /\ pc[p] # "idle" /\ pc'[p] = "unlock" /\ result'[p] = "err"
          /\ UNCHANGED <<rc, op, files, at>>
      BY <2>8 DEF Fail, UnderLock, ShellInv, ShellHookTypeOK, ProcTypeOK
    <3> QED BY <1>0, <2>8, <3>1 DEF Passed, Edits
  <2>9. CASE q = p /\ (ReadChanged(p) \/ StatFails(p) \/ BackupRead(p) \/ BackupWrite(p)
                       \/ BackupRename(p) \/ PruneOne(p) \/ PruneDone(p) \/ RestoreRead(p))
    <3>1. /\ pc[p] # "idle" /\ pc'[p] \notin {"lock", "unlock"}
          /\ UNCHANGED <<rc, op, files, at>>
      BY <2>9 DEF ReadChanged, StatFails, BackupRead, BackupWrite, BackupRename, PruneOne, PruneDone,
        RestoreRead, Go, diskVars, procVars, ShellInv, ShellHookTypeOK
    <3> QED BY <1>0, <2>9, <3>1 DEF Passed, Edits
  <2> QED BY <1>2, <2>1, <2>2, <2>3, <2>4, <2>5, <2>6, <2>7, <2>8, <2>9 DEF Step
<1> QED BY <1>1, <1>2 DEF Next

(***************************************************************************)
(* An operation that returns nil has done every file it was called for.    *)
(***************************************************************************)
THEOREM SuccessIsCompleteCorrect == Spec => []SuccessIsComplete
<1> DEFINE Inv == ShellInv /\ TextsInv /\ DoneInv
<1>1. Init => Inv
  BY InitShell, InitTextsInv DEF Init, DoneInv, Passed
<1>2. Inv /\ [Next]_shellVars => Inv'
  BY ShellStep, TextsStep, DoneStep
<1>3. Inv => SuccessIsComplete
  <2> SUFFICES ASSUME Inv, NEW p \in Procs, pc[p] = "unlock", result[p] = "ok",
                      op[p] \in {"install", "remove"}, NEW i \in DOMAIN files[p]
               PROVE  Installed(rc[files[p][i]]) <=> op[p] = "install"
    BY DEF SuccessIsComplete
  <2>1. files[p] \in Seq(Files) /\ at[p] \in Nat
    BY DEF ShellInv, ShellHookTypeOK, ProcTypeOK
  <2>2. i \in 1..Len(files[p])
    BY <2>1
  <2>3. ~Busy(p)
    BY DEF DoneInv, Passed
  <2>4. i < at[p]
    BY <2>1, <2>2, <2>3 DEF Busy
  <2> QED BY <2>2, <2>4 DEF DoneInv, Passed, Edits
<1> QED BY <1>1, <1>2, <1>3, PTL DEF Spec
=============================================================================
