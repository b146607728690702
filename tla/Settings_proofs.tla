--------------------------- MODULE Settings_proofs ---------------------------
(***************************************************************************)
(* Proofs about Settings, for any number of processes: when config.json    *)
(* can become unreadable, that the copy of an undisturbed process is what  *)
(* was saved, and that a hook command leaves the flag and the startup file *)
(* in agreement.                                                           *)
(***************************************************************************)
EXTENDS Settings, HookText_proofs

-----------------------------------------------------------------------------
(***************************************************************************)
(* Helpers: where a save ends, and what a write leaves.                    *)
(***************************************************************************)
LEMMA DefaultIsConfig == DefaultConfig \in Configs
  BY CountriesAssumption DEF DefaultConfig, Configs

LEMMA OverType ==
  ASSUME NEW file \in [what : Configs \cup {Torn}, size : {0, 4, 5}], NEW c \in Configs
  PROVE  /\ Over(file, c) \in [what : Configs \cup {Torn}, size : {0, 4, 5}]
         /\ file.size = 0 => Over(file, c).what = c
  BY DEF Over, Size, Configs

LEMMA AbsentIsNoFile == Absent \notin [what : Configs \cup {Torn}, size : {0, 4, 5}]
<1>1. [what : Configs \cup {Torn}, size : {0, 4, 5}] \subseteq [what : Configs \cup {Torn}, size : Nat]
  OBVIOUS
<1> QED BY <1>1, FileAssumption

\* The copies, positions and jobs of all processes.
ProcsTyped ==
  /\ pc \in [Procs -> PCs]
  /\ job \in [Procs -> Commands \cup Requests \cup {"none"}]
  /\ serving \in [Procs -> BOOLEAN]
  /\ mem \in [Procs -> Configs]

LEMMA ExitsTyped ==
  ASSUME ProcsTyped, NEW p \in Procs, Exits(p)
  PROVE  ProcsTyped'
<1>1. pc' \in [Procs -> PCs]
  BY DEF Exits, ProcsTyped, PCs
<1>2. job' \in [Procs -> Commands \cup Requests \cup {"none"}]
  BY DEF Exits, ProcsTyped
<1>3. serving' \in [Procs -> BOOLEAN]
  BY DEF Exits, ProcsTyped
<1>4. mem' \in [Procs -> Configs]
  BY DefaultIsConfig DEF Exits, ProcsTyped
<1> QED BY <1>1, <1>2, <1>3, <1>4 DEF ProcsTyped

\* A process goes on to another step of its job, or ends; a server goes on.
LEMMA AfterSaveGoesOn ==
  ASSUME ProcsTyped, NEW p \in Procs, AfterSave(p)
  PROVE  \/ /\ \E s \in {"edit", "menu", "reading", "ready", "sync"} :
                 /\ pc' = [pc EXCEPT ![p] = s]
                 /\ JobInv /\ serving[p] => s \in {"ready", "sync"}
                 /\ s = "menu" => job[p] = "menu"
            /\ UNCHANGED <<job, serving, mem>>
         \/ ~serving[p] /\ Exits(p)
<1>1. CASE pc[p] \in {"init.open", "init.write"}
  <2>1. pc' = [pc EXCEPT ![p] = FirstStep(job[p])] /\ UNCHANGED <<job, serving, mem>>
    BY <1>1 DEF AfterSave, Go
  <2>2. /\ FirstStep(job[p]) \in {"edit", "menu", "reading", "ready"}
        /\ FirstStep(job[p]) = "menu" => job[p] = "menu"
    BY DEF FirstStep
  <2>3. JobInv /\ serving[p] => FirstStep(job[p]) = "ready"
    BY <1>1 DEF JobInv, FirstStep
  <2> QED BY <2>1, <2>2, <2>3
<1>2. CASE pc[p] \in {"open", "write"} /\ job[p] = "post.hook"
  BY <1>2 DEF AfterSave, Go
<1>3. CASE pc[p] \in {"open", "write"} /\ job[p] # "post.hook"
  BY <1>3 DEF AfterSave, Go, Done
<1> QED BY <1>1, <1>2, <1>3 DEF AfterSave

-----------------------------------------------------------------------------
LEMMA AfterSaveTyped ==
  ASSUME ProcsTyped, NEW p \in Procs, AfterSave(p)
  PROVE  ProcsTyped'
<1>1. ASSUME NEW s \in PCs, pc' = [pc EXCEPT ![p] = s], UNCHANGED <<job, serving, mem>>
      PROVE  ProcsTyped'
  BY <1>1 DEF ProcsTyped
<1> QED BY <1>1, AfterSaveGoesOn, ExitsTyped DEF PCs

LEMMA DoneTyped ==
  ASSUME ProcsTyped, NEW p \in Procs, Done(p)
  PROVE  ProcsTyped'
<1>1. CASE serving[p]
  BY <1>1 DEF Done, Go, ProcsTyped, PCs
<1>2. CASE ~serving[p]
  BY <1>2, ExitsTyped DEF Done
<1> QED BY <1>1, <1>2

-----------------------------------------------------------------------------
LEMMA TypeStep == SettingsTypeOK /\ SavesInv /\ [Next]_settingsVars => SettingsTypeOK'
<1> SUFFICES ASSUME SettingsTypeOK, SavesInv, [Next]_settingsVars PROVE SettingsTypeOK'
  OBVIOUS
<1> USE DEF SettingsTypeOK
<1>0. ProcsTyped
  BY DEF ProcsTyped
<1>1. ASSUME NEW p \in Procs, NEW j \in Commands, Run(p, j) PROVE SettingsTypeOK'
  BY <1>1 DEF Run, PCs
<1>2. ASSUME NEW p \in Procs, LoadDefaults(p) PROVE SettingsTypeOK'
  BY <1>2, DefaultIsConfig DEF LoadDefaults, Go, Takes, Reads, PCs
<1>3. ASSUME NEW p \in Procs, LoadFile(p) PROVE SettingsTypeOK'
  <2>1. disk.what \in Configs
    BY <1>3 DEF LoadFile
  <2>2. FirstStep(job[p]) \in PCs
    BY DEF FirstStep, PCs
  <2> QED BY <1>3, <2>1, <2>2 DEF LoadFile, Go, Takes, Reads
<1>4. ASSUME NEW p \in Procs, LoadFails(p) PROVE SettingsTypeOK'
  <2>1. ProcsTyped'
    BY <1>0, <1>4, ExitsTyped DEF LoadFails
  <2> QED BY <1>4, <2>1 DEF LoadFails, ProcsTyped
<1>5. ASSUME NEW p \in Procs, ReaderExits(p) PROVE SettingsTypeOK'
  <2>1. ProcsTyped'
    BY <1>0, <1>5, ExitsTyped DEF ReaderExits
  <2> QED BY <1>5, <2>1 DEF ReaderExits, Spoils, ProcsTyped
<1>6. ASSUME NEW p \in Procs, Open(p) PROVE SettingsTypeOK'
  BY <1>6 DEF Open, Opens, Go, Touches, PCs
<1>7. ASSUME NEW p \in Procs, Write(p) PROVE SettingsTypeOK'
  <2>1. disk' \in [what : Configs \cup {Torn}, size : {0, 4, 5}]
    BY <1>7, OverType DEF Write, SavesInv
  <2>2. ProcsTyped'
    BY <1>0, <1>7, AfterSaveTyped DEF Write
  <2> QED BY <1>7, <2>1, <2>2 DEF Write, Touches, ProcsTyped
<1>8. ASSUME NEW p \in Procs, SaveFails(p) PROVE SettingsTypeOK'
  <2>1. ProcsTyped'
    BY <1>0, <1>8, AfterSaveTyped DEF SaveFails
  <2> QED BY <1>8, <2>1 DEF SaveFails, Spoils, Writing, ProcsTyped
<1>9. ASSUME NEW p \in Procs, EditHook(p) PROVE SettingsTypeOK'
  <2>1. mem' \in [Procs -> Configs]
    <3>1. PICK b \in BOOLEAN : mem' = [mem EXCEPT ![p].hook = b]
      BY <1>9 DEF EditHook, SetsFlag
    <3>2. [mem[p] EXCEPT !.hook = b] \in Configs
      BY DEF Configs
    <3> QED BY <3>1, <3>2
  <2> QED BY <1>9, <2>1 DEF EditHook, Go, Touches, PCs
<1>10. ASSUME NEW p \in Procs, EditFails(p) PROVE SettingsTypeOK'
  <2>1. ProcsTyped'
    BY <1>0, <1>10, DoneTyped DEF EditFails
  <2> QED BY <1>10, <2>1 DEF EditFails, ProcsTyped
<1>11. ASSUME NEW p \in Procs, (\E c \in Countries : MenuEdits(p, c)) \/ MenuSaves(p)
       PROVE  SettingsTypeOK'
  <2>1. CASE \E c \in Countries : MenuEdits(p, c)
    BY <2>1 DEF MenuEdits, Configs
  <2>2. CASE MenuSaves(p)
    BY <2>2 DEF MenuSaves, Go, PCs
  <2> QED BY <1>11, <2>1, <2>2
<1>12. ASSUME NEW p \in Procs, MenuLeaves(p) PROVE SettingsTypeOK'
  <2>1. ProcsTyped'
    BY <1>0, <1>12, ExitsTyped DEF MenuLeaves
  <2> QED BY <1>12, <2>1 DEF MenuLeaves, ProcsTyped
<1>13. ASSUME NEW p \in Procs, NEW r \in Requests, NEW s \in {"open", "edit"}, Accept(p, r, s),
              mem' \in [Procs -> Configs]
       PROVE  SettingsTypeOK'
  BY <1>13 DEF Accept, PCs
<1>14. ASSUME NEW p \in Procs, NEW c \in Configs, Post(p, c) PROVE SettingsTypeOK'
  BY <1>13, <1>14 DEF Post, Copies, Requests
<1>15. ASSUME NEW p \in Procs, Reset(p) PROVE SettingsTypeOK'
  BY <1>13, <1>15, DefaultIsConfig DEF Reset, Copies, Requests
<1>16. ASSUME NEW p \in Procs, NEW r \in {"enable", "disable"}, AskHook(p, r) PROVE SettingsTypeOK'
  BY <1>13, <1>16 DEF AskHook, Requests
<1>17. ASSUME NEW p \in Procs, SyncHook(p) \/ SyncFails(p) PROVE SettingsTypeOK'
  <2>1. CASE SyncHook(p)
    BY <2>1 DEF SyncHook, Go, Touches, PCs
  <2>2. CASE SyncFails(p)
    BY <2>2 DEF SyncFails, Go, PCs
  <2> QED BY <1>17, <2>1, <2>2
<1>18. ASSUME NEW p \in Procs, Crash(p) PROVE SettingsTypeOK'
  <2>1. ProcsTyped'
    BY <1>0, <1>18, ExitsTyped DEF Crash
  <2> QED BY <1>18, <2>1 DEF Crash, Spoils, Writing, ProcsTyped
<1>19. CASE UNCHANGED settingsVars
  BY <1>19 DEF settingsVars, procVars
<1> QED BY <1>1, <1>2, <1>3, <1>4, <1>5, <1>6, <1>7, <1>8, <1>9, <1>10, <1>11, <1>12, <1>14,
    <1>15, <1>16, <1>17, <1>18, <1>19 DEF Next
-----------------------------------------------------------------------------
(***************************************************************************)
(* Saves.  Every step but a load, the opening of the file and the write    *)
(* leaves the file alone and tells nobody more about it.                   *)
(***************************************************************************)
Settled(p) == pc[p] \in {"edit", "ready", "sync"}

LEMMA SavesQuiet ==
  ASSUME SavesInv, disk' = disk, accident => accident',
         \A q \in Procs :
           /\ Writing(q)' => Writing(q) /\ (fresh'[q] => fresh[q])
           /\ Writing(q) => Writing(q)' \/ accident'
           /\ Settled(q)' /\ fresh'[q] =>
                \/ Settled(q) /\ fresh[q] /\ mem'[q] = mem[q]
                \/ disk # Absent /\ disk.what = mem'[q]
  PROVE  SavesInv'
<1>1. (\A p \in Procs : Writing(p) =>
         disk # Absent /\ (fresh[p] \/ ~accident => disk.size = 0))'
  BY DEF SavesInv
<1>2. (\A p, q \in Procs : p # q /\ Writing(p) /\ Writing(q) => accident)'
  BY DEF SavesInv
<1>3. TornOnlyByAccident'
  BY DEF SavesInv, TornOnlyByAccident
<1>4. CopyIsOnDisk'
  BY DEF SavesInv, CopyIsOnDisk, Settled
<1> QED BY <1>1, <1>2, <1>3, <1>4 DEF SavesInv

\* A process that ends is at rest and knows nothing of the file.
LEMMA ExitsAt ==
  ASSUME ProcsTyped, NEW p \in Procs, Exits(p)
  PROVE  \A q \in Procs :
           /\ pc'[q] = IF q = p THEN "idle" ELSE pc[q]
           /\ serving'[q] = (q # p /\ serving[q])
           /\ q # p => job'[q] = job[q] /\ mem'[q] = mem[q]
<1>1. \A q \in Procs : pc'[q] = IF q = p THEN "idle" ELSE pc[q]
  BY DEF Exits, ProcsTyped
<1>2. \A q \in Procs : serving'[q] = (q # p /\ serving[q])
  BY DEF Exits, ProcsTyped
<1>3. \A q \in Procs : q # p => job'[q] = job[q] /\ mem'[q] = mem[q]
  BY DEF Exits, ProcsTyped
<1> QED BY <1>1, <1>2, <1>3

LEMMA SavesStep == SettingsTypeOK /\ SavesInv /\ [Next]_settingsVars => SavesInv'
<1> SUFFICES ASSUME SettingsTypeOK, SavesInv, [Next]_settingsVars PROVE SavesInv'
  OBVIOUS
<1> USE DEF SettingsTypeOK
<1>0. ProcsTyped
  BY DEF ProcsTyped
<1>1. ASSUME NEW p \in Procs, NEW j \in Commands, Run(p, j) PROVE SavesInv'
  BY <1>1, SavesQuiet DEF Run, Settled, Writing
<1>2. ASSUME NEW p \in Procs, LoadDefaults(p) PROVE SavesInv'
  BY <1>2, SavesQuiet DEF LoadDefaults, Takes, Reads, Go, Settled, Writing
<1>3. ASSUME NEW p \in Procs, LoadFile(p) PROVE SavesInv'
  <2>1. FirstStep(job[p]) \notin {"init.write", "write"}
    BY DEF FirstStep
  <2> QED BY <1>3, <2>1, SavesQuiet DEF LoadFile, Takes, Reads, Go, Settled, Writing
<1>4. ASSUME NEW p \in Procs, LoadFails(p) PROVE SavesInv'
  BY <1>0, <1>4, ExitsAt, SavesQuiet DEF LoadFails, Settled, Writing
<1>5. ASSUME NEW p \in Procs, ReaderExits(p) PROVE SavesInv'
  BY <1>0, <1>5, ExitsAt, SavesQuiet DEF ReaderExits, Spoils, Settled, Writing
<1>6. ASSUME NEW p \in Procs, Open(p) PROVE SavesInv'
  <2>1. /\ disk' = [what |-> Torn, size |-> 0] /\ disk' # Absent
        /\ Writing(p)' /\ ~Settled(p)'
        /\ accident' = \E q \in Procs \ {p} : Writing(q)
        /\ \A q \in Procs \ {p} : pc'[q] = pc[q] /\ ~fresh'[q]
    <3>1. disk' = [what |-> Torn, size |-> 0] /\ disk' # Absent
      BY <1>6, AbsentIsNoFile DEF Open
    <3>2. PICK s \in {"write", "init.write"} : pc' = [pc EXCEPT ![p] = s]
      BY <1>6 DEF Open, Opens, Go
    <3>3. Writing(p)' /\ ~Settled(p)' /\ \A q \in Procs \ {p} : pc'[q] = pc[q]
      BY <3>2 DEF Writing, Settled
    <3>4. \A q \in Procs \ {p} : ~fresh'[q]
      BY <1>6 DEF Open, Opens, Touches
    <3>5. accident' = \E q \in Procs \ {p} : Writing(q)
      BY <1>6 DEF Open, Opens
    <3> QED BY <3>1, <3>3, <3>4, <3>5
  <2>2. TornOnlyByAccident'
    BY <2>1 DEF TornOnlyByAccident
  <2>3. CopyIsOnDisk'
    BY <2>1 DEF CopyIsOnDisk, Settled
  <2>4. (\A q \in Procs : Writing(q) =>
           disk # Absent /\ (fresh[q] \/ ~accident => disk.size = 0))'
    BY <2>1
  <2>5. (\A q, r \in Procs : q # r /\ Writing(q) /\ Writing(r) => accident)'
    BY <2>1 DEF Writing
  <2> QED BY <2>2, <2>3, <2>4, <2>5 DEF SavesInv
<1>7. ASSUME NEW p \in Procs, Write(p) PROVE SavesInv'
  <2>1. /\ disk \in [what : Configs \cup {Torn}, size : {0, 4, 5}]
        /\ disk' = Over(disk, mem[p]) /\ accident' = accident
        /\ fresh[p] \/ ~accident => disk.size = 0
        /\ \A q \in Procs : fresh'[q] => q = p /\ fresh[p]
    BY <1>7 DEF Write, Touches, SavesInv
  <2>2. /\ disk' # Absent
        /\ fresh[p] \/ ~accident => disk'.what = mem[p]
    BY <2>1, OverType, AbsentIsNoFile
  <2>3. /\ \A q \in Procs \ {p} : pc'[q] = pc[q]
        /\ ~Writing(p)'
        /\ Settled(p)' => mem'[p] = mem[p]
    <3>1. CASE \E s \in {"edit", "menu", "reading", "ready", "sync"} :
                 pc' = [pc EXCEPT ![p] = s] /\ UNCHANGED mem
      BY <3>1 DEF Writing, Settled
    <3>2. CASE Exits(p)
      BY <1>0, <3>2, ExitsAt DEF Writing, Settled
    <3> QED BY <1>0, <1>7, <3>1, <3>2, AfterSaveGoesOn DEF Write
  <2>4. ~accident => \A q \in Procs : ~Writing(q)'
    BY <1>7, <2>3 DEF SavesInv, Write, Writing
  <2>5. TornOnlyByAccident'
    <3>1. ~accident => disk'.what # Torn
      BY <2>2, FileAssumption
    <3> QED BY <2>1, <3>1 DEF TornOnlyByAccident
  <2>6. CopyIsOnDisk'
    BY <2>1, <2>2, <2>3 DEF CopyIsOnDisk, Settled
  <2>7. (\A q \in Procs : Writing(q) =>
           disk # Absent /\ (fresh[q] \/ ~accident => disk.size = 0))'
    BY <2>1, <2>2, <2>3, <2>4
  <2>8. (\A q, r \in Procs : q # r /\ Writing(q) /\ Writing(r) => accident)'
    BY <2>1, <2>4
  <2> QED BY <2>5, <2>6, <2>7, <2>8 DEF SavesInv
<1>8. ASSUME NEW p \in Procs, SaveFails(p) PROVE SavesInv'
  <2>1. \A q \in Procs : /\ q # p => pc'[q] = pc[q] /\ mem'[q] = mem[q]
                         /\ ~Writing(p)'
    <3>1. CASE \E s \in {"edit", "menu", "reading", "ready", "sync"} :
                 pc' = [pc EXCEPT ![p] = s] /\ UNCHANGED mem
      BY <3>1 DEF Writing
    <3>2. CASE Exits(p)
      BY <1>0, <3>2, ExitsAt DEF Writing
    <3> QED BY <1>0, <1>8, <3>1, <3>2, AfterSaveGoesOn DEF SaveFails
  <2> QED BY <1>8, <2>1, SavesQuiet DEF SaveFails, Spoils, Writing, Settled
<1>9. ASSUME NEW p \in Procs, EditHook(p) PROVE SavesInv'
  BY <1>9, SavesQuiet DEF EditHook, SetsFlag, Go, Touches, Writing, Settled
<1>10. ASSUME NEW p \in Procs, EditFails(p) PROVE SavesInv'
  <2>1. CASE serving[p]
    BY <1>10, <2>1, SavesQuiet DEF EditFails, Done, Go, Writing, Settled
  <2>2. CASE ~serving[p]
    BY <1>0, <1>10, <2>2, ExitsAt, SavesQuiet DEF EditFails, Done, Writing, Settled
  <2> QED BY <2>1, <2>2
<1>11. ASSUME NEW p \in Procs, (\E c \in Countries : MenuEdits(p, c)) \/ MenuSaves(p)
       PROVE  SavesInv'
  BY <1>11, SavesQuiet DEF MenuEdits, MenuSaves, Go, Writing, Settled
<1>12. ASSUME NEW p \in Procs, MenuLeaves(p) PROVE SavesInv'
  BY <1>0, <1>12, ExitsAt, SavesQuiet DEF MenuLeaves, Writing, Settled
<1>13. ASSUME NEW p \in Procs, NEW c \in Configs, Post(p, c) PROVE SavesInv'
  BY <1>13, SavesQuiet DEF Post, Accept, Copies, Writing, Settled
<1>14. ASSUME NEW p \in Procs, Reset(p) PROVE SavesInv'
  BY <1>14, SavesQuiet DEF Reset, Accept, Copies, Writing, Settled
<1>15. ASSUME NEW p \in Procs, NEW r \in {"enable", "disable"}, AskHook(p, r) PROVE SavesInv'
  BY <1>15, SavesQuiet DEF AskHook, Accept, Writing, Settled
<1>16. ASSUME NEW p \in Procs, SyncHook(p) \/ SyncFails(p) PROVE SavesInv'
  BY <1>16, SavesQuiet DEF SyncHook, SyncFails, Go, Touches, Writing, Settled
<1>17. ASSUME NEW p \in Procs, Crash(p) PROVE SavesInv'
  <2>1. /\ disk' = disk
        /\ Writing(p) => accident'
        /\ accident => accident'
        /\ \A q \in Procs : fresh'[q] => q # p /\ fresh[q]
    BY <1>17 DEF Crash, Spoils
  <2>2. \A q \in Procs : /\ pc'[q] = IF q = p THEN "idle" ELSE pc[q]
                         /\ q # p => mem'[q] = mem[q]
    BY <1>0, <1>17, ExitsAt DEF Crash
  <2> QED BY <2>1, <2>2, SavesQuiet DEF Writing, Settled
<1>18. CASE UNCHANGED settingsVars
  BY <1>18, SavesQuiet DEF settingsVars, procVars, Writing, Settled
<1> QED BY <1>1, <1>2, <1>3, <1>4, <1>5, <1>6, <1>7, <1>8, <1>9, <1>10, <1>11, <1>12, <1>13,
    <1>14, <1>15, <1>16, <1>17, <1>18 DEF Next
-----------------------------------------------------------------------------
(***************************************************************************)
(* What the processes work on.                                             *)
(***************************************************************************)
LEMMA JobStep == SettingsTypeOK /\ JobInv /\ [Next]_settingsVars => JobInv'
<1> SUFFICES ASSUME SettingsTypeOK, JobInv, [Next]_settingsVars PROVE JobInv'
  OBVIOUS
<1> USE DEF SettingsTypeOK
<1>0. ProcsTyped
  BY DEF ProcsTyped
<1>a. ASSUME NEW p \in Procs, Exits(p) PROVE JobInv'
  <2>1. pc'[p] = "idle" /\ ~serving'[p]
    BY <1>0, <1>a, ExitsAt
  <2>2. \A q \in Procs \ {p} : pc'[q] = pc[q] /\ job'[q] = job[q] /\ serving'[q] = serving[q]
    BY <1>0, <1>a DEF Exits, ProcsTyped
  <2> QED BY <2>1, <2>2 DEF JobInv
<1>b. ASSUME NEW p \in Procs, AfterSave(p) PROVE JobInv'
  <2>1. CASE Exits(p)
    BY <1>a, <2>1
  <2>2. ASSUME NEW s \in {"edit", "menu", "reading", "ready", "sync"}, pc' = [pc EXCEPT ![p] = s],
               serving[p] => s \in {"ready", "sync"}, s = "menu" => job[p] = "menu",
               UNCHANGED <<job, serving, mem>>
        PROVE  JobInv'
    BY <2>2 DEF JobInv
  <2> QED BY <1>0, <1>b, <2>1, <2>2, AfterSaveGoesOn
<1>c. ASSUME NEW p \in Procs, NEW r \in Requests, NEW s \in {"open", "edit"}, Accept(p, r, s)
      PROVE  JobInv'
  BY <1>c DEF Accept, JobInv
<1>1. ASSUME NEW p \in Procs, NEW j \in Commands, Run(p, j) PROVE JobInv'
  BY <1>1 DEF Run, JobInv
<1>2. ASSUME NEW p \in Procs, LoadDefaults(p) PROVE JobInv'
  BY <1>2 DEF LoadDefaults, Go, JobInv
<1>3. ASSUME NEW p \in Procs, LoadFile(p) PROVE JobInv'
  <2>1. /\ FirstStep(job[p]) \in {"edit", "menu", "reading", "ready"}
        /\ FirstStep(job[p]) = "menu" => job[p] = "menu"
        /\ serving[p] => FirstStep(job[p]) = "ready"
    BY <1>3 DEF FirstStep, LoadFile, Go, JobInv
  <2> QED BY <1>3, <2>1 DEF LoadFile, Go, JobInv
<1>4. ASSUME NEW p \in Procs, LoadFails(p) \/ ReaderExits(p) \/ MenuLeaves(p) \/ Crash(p)
      PROVE  JobInv'
  BY <1>a, <1>4 DEF LoadFails, ReaderExits, MenuLeaves, Crash
<1>5. ASSUME NEW p \in Procs, Open(p) PROVE JobInv'
  BY <1>5 DEF Open, Opens, Go, JobInv
<1>6. ASSUME NEW p \in Procs, Write(p) \/ SaveFails(p) PROVE JobInv'
  BY <1>b, <1>6 DEF Write, SaveFails
<1>7. ASSUME NEW p \in Procs, EditHook(p) PROVE JobInv'
  BY <1>7 DEF EditHook, Go, JobInv
<1>8. ASSUME NEW p \in Procs, EditFails(p) PROVE JobInv'
  BY <1>a, <1>8 DEF EditFails, Done, Go, JobInv
<1>9. ASSUME NEW p \in Procs, (\E c \in Countries : MenuEdits(p, c)) \/ MenuSaves(p) PROVE JobInv'
  BY <1>9 DEF MenuEdits, MenuSaves, Go, JobInv
<1>10. ASSUME NEW p \in Procs, NEW c \in Configs, Post(p, c) PROVE JobInv'
  BY <1>c, <1>10 DEF Post, Requests
<1>11. ASSUME NEW p \in Procs, Reset(p) PROVE JobInv'
  BY <1>c, <1>11 DEF Reset, Requests
<1>12. ASSUME NEW p \in Procs, NEW r \in {"enable", "disable"}, AskHook(p, r) PROVE JobInv'
  BY <1>c, <1>12 DEF AskHook, Requests
<1>13. ASSUME NEW p \in Procs, SyncHook(p) \/ SyncFails(p) PROVE JobInv'
  BY <1>13 DEF SyncHook, SyncFails, Go, JobInv
<1>14. CASE UNCHANGED settingsVars
  BY <1>14 DEF settingsVars, procVars, JobInv
<1> QED BY <1>1, <1>2, <1>3, <1>4, <1>5, <1>6, <1>7, <1>8, <1>9, <1>10, <1>11, <1>12, <1>13,
    <1>14 DEF Next

-----------------------------------------------------------------------------
(***************************************************************************)
(* The hook: only a command that has edited the startup file is on its way *)
(* to save, and another edit spoils what it knows.                         *)
(***************************************************************************)
OnItsWay(p) == job[p] \in {"enable", "disable"} /\ pc[p] \in {"open", "write"}

\* A step that edits nothing and brings nobody to the end of a hook command.
LEMMA HookQuiet ==
  ASSUME HookInv, text' = text,
         \A q \in Procs : OnItsWay(q)' => /\ OnItsWay(q) /\ (fresh'[q] => fresh[q])
                                         /\ job'[q] = job[q] /\ mem'[q] = mem[q]
  PROVE  HookInv'
  BY DEF HookInv, OnItsWay

LEMMA EditTextWorks ==
  ASSUME HookInv, NEW b \in BOOLEAN, EditText(b)
  PROVE  text' \in Texts /\ WellFormed(text') /\ Installed(text') = b
<1>1. CASE b
  BY <1>1, InjectInstalls DEF EditText, InstallText, HookInv, Installed
<1>2. CASE ~b
  BY <1>2, StripRemoves DEF EditText, RemoveText, HookInv, Installed
<1> QED BY <1>1, <1>2

LEMMA HookStep ==
  SettingsTypeOK /\ JobInv /\ HookInv /\ [Next]_settingsVars => HookInv'
<1> SUFFICES ASSUME SettingsTypeOK, JobInv, HookInv, [Next]_settingsVars PROVE HookInv'
  OBVIOUS
<1> USE DEF SettingsTypeOK
<1>0. ProcsTyped
  BY DEF ProcsTyped
<1>a. ASSUME NEW p \in Procs, Exits(p), text' = text, \A q \in Procs \ {p} : fresh'[q] => fresh[q]
      PROVE  HookInv'
  BY <1>0, <1>a, ExitsAt, HookQuiet DEF OnItsWay
<1>b. ASSUME NEW p \in Procs, AfterSave(p), text' = text,
             \A q \in Procs \ {p} : fresh'[q] => fresh[q]
      PROVE  HookInv'
  <2>1. CASE Exits(p)
    BY <1>a, <1>b, <2>1
  <2>2. ASSUME NEW s \in {"edit", "menu", "reading", "ready", "sync"}, pc' = [pc EXCEPT ![p] = s],
               UNCHANGED <<job, serving, mem>>
        PROVE  HookInv'
    BY <1>b, <2>2, HookQuiet DEF OnItsWay
  <2> QED BY <1>0, <1>b, <2>1, <2>2, AfterSaveGoesOn
<1>1. ASSUME NEW p \in Procs, NEW j \in Commands, Run(p, j) PROVE HookInv'
  BY <1>1, HookQuiet DEF Run, edits, OnItsWay
<1>2. ASSUME NEW p \in Procs, LoadDefaults(p) PROVE HookInv'
  BY <1>2, HookQuiet DEF LoadDefaults, Go, Takes, Reads, edits, OnItsWay
<1>3. ASSUME NEW p \in Procs, LoadFile(p) PROVE HookInv'
  <2>1. FirstStep(job[p]) \notin {"open", "write"}
    BY DEF FirstStep
  <2> QED BY <1>3, <2>1, HookQuiet DEF LoadFile, Go, Takes, Reads, edits, OnItsWay
<1>4. ASSUME NEW p \in Procs, LoadFails(p) PROVE HookInv'
  BY <1>a, <1>4 DEF LoadFails, edits
<1>5. ASSUME NEW p \in Procs, ReaderExits(p) PROVE HookInv'
  BY <1>a, <1>5 DEF ReaderExits, Spoils, edits
<1>6. ASSUME NEW p \in Procs, Open(p) PROVE HookInv'
  <2>1. CASE pc[p] = "open" /\ pc' = [pc EXCEPT ![p] = "write"]
    BY <1>6, <2>1, HookQuiet DEF Open, Opens, Go, Touches, edits, OnItsWay
  <2>2. CASE pc[p] = "init.open" /\ pc' = [pc EXCEPT ![p] = "init.write"]
    BY <1>6, <2>2, HookQuiet DEF Open, Opens, Go, Touches, edits, OnItsWay
  <2> QED BY <1>6, <2>1, <2>2 DEF Open, Opens, Go
<1>7. ASSUME NEW p \in Procs, Write(p) PROVE HookInv'
  BY <1>b, <1>7 DEF Write, Touches, edits
<1>8. ASSUME NEW p \in Procs, SaveFails(p) PROVE HookInv'
  BY <1>b, <1>8 DEF SaveFails, Spoils, edits
<1>9. ASSUME NEW p \in Procs, EditHook(p) PROVE HookInv'
  <2>1. /\ text' \in Texts /\ WellFormed(text')
        /\ Installed(text') = (job[p] = "enable")
    BY <1>9, EditTextWorks DEF EditHook
  <2>2. job' = job /\ mem'[p].hook = (job[p] = "enable")
    BY <1>9 DEF EditHook, Go, SetsFlag, Configs
  <2>3. \A q \in Procs \ {p} : pc'[q] = pc[q] /\ mem'[q] = mem[q] /\ ~fresh'[q]
    BY <1>9 DEF EditHook, Go, SetsFlag, Touches
  <2> QED BY <2>1, <2>2, <2>3 DEF HookInv
<1>10. ASSUME NEW p \in Procs, EditFails(p) PROVE HookInv'
  <2>1. CASE serving[p]
    BY <1>10, <2>1, HookQuiet DEF EditFails, Done, Go, edits, OnItsWay
  <2>2. CASE ~serving[p]
    BY <1>a, <1>10, <2>2 DEF EditFails, Done, edits
  <2> QED BY <2>1, <2>2
<1>11. ASSUME NEW p \in Procs, (\E c \in Countries : MenuEdits(p, c)) \/ MenuSaves(p)
       PROVE  HookInv'
  <2>1. CASE \E c \in Countries : MenuEdits(p, c)
    BY <2>1, HookQuiet DEF MenuEdits, edits, OnItsWay
  <2>2. CASE MenuSaves(p)
    <3>1. job[p] = "menu"
      BY <2>2 DEF MenuSaves, Go, JobInv
    <3> QED BY <2>2, <3>1, HookQuiet DEF MenuSaves, Go, edits, OnItsWay
  <2> QED BY <1>11, <2>1, <2>2
<1>12. ASSUME NEW p \in Procs, MenuLeaves(p) PROVE HookInv'
  BY <1>a, <1>12 DEF MenuLeaves, edits
<1>13. ASSUME NEW p \in Procs, NEW c \in Configs, Post(p, c) PROVE HookInv'
  BY <1>13, HookQuiet DEF Post, Accept, Copies, edits, OnItsWay
<1>14. ASSUME NEW p \in Procs, Reset(p) PROVE HookInv'
  BY <1>14, HookQuiet DEF Reset, Accept, Copies, edits, OnItsWay
<1>15. ASSUME NEW p \in Procs, NEW r \in {"enable", "disable"}, AskHook(p, r) PROVE HookInv'
  BY <1>15, HookQuiet DEF AskHook, Accept, edits, OnItsWay
<1>16. ASSUME NEW p \in Procs, SyncHook(p) PROVE HookInv'
  <2>1. text' \in Texts /\ WellFormed(text')
    BY <1>16, EditTextWorks DEF SyncHook, Configs
  <2>2. job' = job /\ mem' = mem /\ pc'[p] = "ready"
    BY <1>16 DEF SyncHook, Go
  <2>3. \A q \in Procs \ {p} : pc'[q] = pc[q] /\ ~fresh'[q]
    BY <1>16 DEF SyncHook, Go, Touches
  <2> QED BY <2>1, <2>2, <2>3 DEF HookInv
<1>17. ASSUME NEW p \in Procs, SyncFails(p) PROVE HookInv'
  BY <1>17, HookQuiet DEF SyncFails, Go, edits, OnItsWay
<1>18. ASSUME NEW p \in Procs, Crash(p) PROVE HookInv'
  BY <1>a, <1>18 DEF Crash, Spoils, edits
<1>19. CASE UNCHANGED settingsVars
  BY <1>19, HookQuiet DEF settingsVars, procVars, edits, OnItsWay
<1> QED BY <1>1, <1>2, <1>3, <1>4, <1>5, <1>6, <1>7, <1>8, <1>9, <1>10, <1>11, <1>12, <1>13,
    <1>14, <1>15, <1>16, <1>17, <1>18, <1>19 DEF Next

-----------------------------------------------------------------------------
LEMMA SettingsInit == Init => SettingsInv
<1> SUFFICES ASSUME Init PROVE SettingsInv
  OBVIOUS
<1> USE DEF Init, InitWith
<1>1. ProcsTyped
  <2>1. pc \in [Procs -> PCs] /\ job \in [Procs -> Commands \cup Requests \cup {"none"}]
    BY DEF PCs
  <2>2. serving \in [Procs -> BOOLEAN] /\ mem \in [Procs -> Configs]
    BY DefaultIsConfig
  <2> QED BY <2>1, <2>2 DEF ProcsTyped
<1>2. SettingsTypeOK
  <2>1. fresh \in [Procs -> BOOLEAN]
    OBVIOUS
  <2> QED BY <1>1, <2>1 DEF SettingsTypeOK, ProcsTyped
<1>3. SavesInv
  BY DEF SavesInv, Writing, TornOnlyByAccident, CopyIsOnDisk
<1>4. JobInv
  BY DEF JobInv
<1>5. HookInv
  BY InitTextsAssumption DEF HookInv
<1> QED BY <1>2, <1>3, <1>4, <1>5 DEF SettingsInv

LEMMA SettingsInvariant == Spec => []SettingsInv
<1>1. SettingsInv /\ [Next]_settingsVars => SettingsInv'
  BY TypeStep, SavesStep, JobStep, HookStep DEF SettingsInv
<1> QED BY SettingsInit, <1>1, PTL DEF Spec

\* Every process holds a configuration of the right form, and the
\* file holds one or is Torn.
THEOREM SettingsTypeCorrect == Spec => []SettingsTypeOK
<1>1. SettingsInv => SettingsTypeOK
  BY DEF SettingsInv
<1> QED BY <1>1, SettingsInvariant, PTL

\* However many processes save, only a save cut off or two that overlap can
\* leave a config.json that Load refuses.
THEOREM TornOnlyByAccidentCorrect == Spec => []TornOnlyByAccident
<1>1. SettingsInv => TornOnlyByAccident
  BY DEF SettingsInv, SavesInv
<1> QED BY <1>1, SettingsInvariant, PTL

\* A process nobody disturbed may go on from its copy: it is the file.
THEOREM CopyIsOnDiskCorrect == Spec => []CopyIsOnDisk
<1>1. SettingsInv => CopyIsOnDisk
  BY DEF SettingsInv, SavesInv
<1> QED BY <1>1, SettingsInvariant, PTL

\* The end of an undisturbed save writes what the process holds.
LEMMA SaveWritesCopy ==
  ASSUME SettingsTypeOK, SavesInv, NEW p \in Procs, fresh[p], Write(p)
  PROVE  disk'.what = mem[p]
<1>1. /\ disk \in [what : Configs \cup {Torn}, size : {0, 4, 5}] /\ disk.size = 0
      /\ disk' = Over(disk, mem[p]) /\ mem[p] \in Configs
  BY DEF SettingsTypeOK, SavesInv, Write
<1> QED BY <1>1, OverType

\* Only the write of its own save ends a save and changes the file.
LEMMA EndsItsSave ==
  ASSUME SettingsTypeOK, NEW p \in Procs, pc[p] = "write", pc'[p] \in {"idle", "ready"},
         disk' # disk, Next
  PROVE  Write(p)
<1> USE DEF SettingsTypeOK
<1>1. PICK q \in Procs : Open(q) \/ Write(q)
  <2>1. \/ \E q \in Procs : Open(q) \/ Write(q)
        \/ disk' = disk
    BY DEF Next, Run, LoadDefaults, LoadFile, LoadFails, ReaderExits, Takes, SaveFails, EditHook,
           EditFails, MenuEdits, MenuSaves, MenuLeaves, Post, Reset, AskHook, Accept, SyncHook, SyncFails,
           Crash
  <2> QED BY <2>1
<1>2. ~Open(q)
  BY DEF Open, Opens, Go
<1>3. ASSUME q # p, Write(q) PROVE pc'[p] = pc[p]
  <2>0. ProcsTyped
    BY DEF ProcsTyped
  <2>1. CASE Exits(q)
    BY <1>3, <2>0, <2>1, ExitsAt
  <2>2. CASE \E s \in {"edit", "menu", "reading", "ready", "sync"} : pc' = [pc EXCEPT ![q] = s]
    BY <1>3, <2>2
  <2> QED BY <1>3, <2>0, <2>1, <2>2, AfterSaveGoesOn DEF Write
<1> QED BY <1>1, <1>2, <1>3

\* A hook command that nobody disturbs leaves the flag in the file and the
\* block in the startup file as asked, whatever they were.
THEOREM HookCommandHealsCorrect == Spec => HookCommandHeals
<1>1. ASSUME SettingsInv, [Next]_settingsVars, NEW p \in Procs,
             job[p] \in {"enable", "disable"}, fresh[p], pc[p] = "write",
             pc'[p] \in {"idle", "ready"}, disk' # disk
      PROVE  /\ disk'.what.hook = (job[p] = "enable")
             /\ Installed(text') = (job[p] = "enable")
  <2>1. Next
    BY <1>1 DEF settingsVars
  <2>2. Write(p)
    BY <1>1, <2>1, EndsItsSave DEF SettingsInv
  <2>3. disk'.what = mem[p] /\ text' = text
    BY <1>1, <2>2, SaveWritesCopy DEF SettingsInv, Write, edits
  <2> QED BY <1>1, <2>3 DEF SettingsInv, HookInv
<1>2. SettingsInv /\ [Next]_settingsVars =>
        [\A p \in Procs :
           (/\ job[p] \in {"enable", "disable"} /\ fresh[p]
            /\ pc[p] = "write" /\ pc'[p] \in {"idle", "ready"} /\ disk' # disk)
           => /\ disk'.what.hook = (job[p] = "enable")
              /\ Installed(text') = (job[p] = "enable")]_settingsVars
  BY <1>1
<1> QED BY <1>2, SettingsInvariant, PTL DEF Spec, HookCommandHeals

-----------------------------------------------------------------------------
(***************************************************************************)
(* The startup file.  Whoever takes a step, it is edited as HookEdits says *)
(* or left alone; the two invariants need no more.                         *)
(***************************************************************************)
LEMMA OnlyEdits == SettingsTypeOK /\ [Next]_settingsVars => InstallText \/ RemoveText \/ UNCHANGED edits
<1> SUFFICES ASSUME SettingsTypeOK, [Next]_settingsVars
             PROVE  InstallText \/ RemoveText \/ UNCHANGED edits
  OBVIOUS
<1>1. CASE \E p \in Procs : EditHook(p) \/ SyncHook(p)
  BY <1>1 DEF EditHook, SyncHook, EditText
<1>2. CASE ~\E p \in Procs : EditHook(p) \/ SyncHook(p)
  <2>1. Next => UNCHANGED edits
    BY <1>2 DEF Next, Run, LoadDefaults, LoadFile, LoadFails, ReaderExits, Takes, Open, Opens, Write,
       SaveFails, EditFails, MenuEdits, MenuSaves, MenuLeaves, Post, Reset, AskHook, Accept, SyncFails,
       Crash
  <2>2. UNCHANGED settingsVars => UNCHANGED edits
    BY DEF settingsVars
  <2> QED BY <2>1, <2>2
<1> QED BY <1>1, <1>2

EditsInv == HookInv /\ UserTextUntouched /\ LastEditWins

LEMMA EditsStep ==
  ASSUME EditsInv, InstallText \/ RemoveText \/ UNCHANGED edits
  PROVE  UserTextUntouched' /\ LastEditWins'
<1>0. text \in Texts /\ WellFormed(text)
  BY DEF EditsInv, HookInv
<1>1. CASE InstallText
  <2>1. UserText(text') = UserText(text)
    BY <1>0, <1>1, EditsKeepUserText DEF InstallText
  <2>2. Inject(text') = text' /\ Cardinality(Where(text', "start")) = 1
    BY <1>0, <1>1, InjectOnce DEF InstallText
  <2> QED BY <1>1, <2>1, <2>2 DEF EditsInv, UserTextUntouched, LastEditWins, InstallText
<1>2. CASE RemoveText
  <2>1. UserText(text') = UserText(text)
    BY <1>0, <1>2, EditsKeepUserText DEF RemoveText
  <2>2. Strip(text') = text' /\ ~Installed(text')
    BY <1>0, <1>2, StripRemoves, StripOnce DEF RemoveText
  <2> QED BY <1>2, <2>1, <2>2 DEF EditsInv, UserTextUntouched, LastEditWins, RemoveText
<1>3. CASE UNCHANGED edits
  BY <1>3 DEF edits, EditsInv, UserTextUntouched, LastEditWins
<1> QED BY <1>1, <1>2, <1>3

LEMMA EditsInvariant == Spec => []EditsInv
<1>1. Init => EditsInv
  <2>1. Init => UserTextUntouched /\ LastEditWins
    BY DEF Init, InitWith, UserTextUntouched, LastEditWins
  <2> QED BY <2>1, SettingsInit DEF SettingsInv, EditsInv
<1>2. SettingsInv /\ EditsInv /\ [Next]_settingsVars => EditsInv'
  BY HookStep, OnlyEdits, EditsStep DEF SettingsInv, EditsInv
<1> QED BY <1>1, <1>2, SettingsInvariant, PTL DEF Spec

\* Commands, menus and requests of any number of processes, in any order: the
\* user's own lines in the startup file stay as they were.
THEOREM UserTextUntouchedCorrect == Spec => []UserTextUntouched
<1>1. EditsInv => UserTextUntouched
  BY DEF EditsInv
<1> QED BY <1>1, EditsInvariant, PTL

\* After the last edit, whoever made it, there is one block, up to date, or
\* none, and the same edit again would change nothing.
THEOREM LastEditWinsCorrect == Spec => []LastEditWins
<1>1. EditsInv => LastEditWins
  BY DEF EditsInv
<1> QED BY <1>1, EditsInvariant, PTL
=============================================================================
