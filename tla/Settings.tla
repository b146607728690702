------------------------------ MODULE Settings ------------------------------
(***************************************************************************)
(* config.json and everybody who reads and writes it (internal/config):    *)
(* "hook enable" and "hook disable", the settings menu, the first run of   *)
(* any other command, and web servers.  Each holds a copy of the           *)
(* configuration in memory and writes the whole of it back, with no lock   *)
(* between processes; the flag terminal_auto_hook is about another file,   *)
(* the startup file of HookEdits, edited in a step of its own.             *)
(*                                                                         *)
(* A configuration is that flag and one other parameter.  The edit of the  *)
(* startup file is one step here: ShellHook has the steps and the lock.    *)
(* Nothing is assumed of the pages in front of a server: they may send any *)
(* form and any request, whatever answers they have seen.                  *)
(***************************************************************************)
EXTENDS HookEdits

CONSTANTS
  Procs,           \* processes that run commands, one after the other
  Countries,       \* values of the other parameter
  defaultCountry,  \* its value in DefaultConfig
  InitTexts,       \* startup files to begin with
  MaxRuns,         \* how many commands are run: a bound for TLC
  MaxRequests,     \* how many requests servers take: a bound for TLC
  Absent,          \* config.json before the first run
  Torn             \* the content of a file that json.Unmarshal refuses

ASSUME CountriesAssumption == defaultCountry \in Countries
ASSUME InitTextsAssumption == \A t \in InitTexts : t \in Texts /\ WellFormed(t)

Configs == [hook : BOOLEAN, country : Countries]
ASSUME FileAssumption == Absent \notin [what : Configs \cup {Torn}, size : Nat] /\ Torn \notin Configs

VARIABLES
  disk,      \* config.json: Absent, or what it says and how long it is
  pc,        \* the next step of each process
  job,       \* the command or the request it works on
  serving,   \* it is a web server
  mem,       \* its copy of the configuration
  runs, requests,
  \* History, for the properties only:
  fresh,     \* nobody else touched a file since the process read or wrote
  accident   \* a save since the last undisturbed one was cut off or overlapped

procVars == <<pc, job, serving, mem>>
settingsVars == <<edits, disk, procVars, runs, requests, fresh, accident>>

Commands == {"enable", "disable", "menu", "read", "gui"}
Requests == {"post", "post.hook", "reset", "enable", "disable"}
PCs == {"idle", "load", "init.open", "init.write", "edit", "menu", "reading", "open",
        "write", "sync", "ready"}
Writing(p) == pc[p] \in {"init.write", "write"}

\* config.DefaultConfig
DefaultConfig == [hook |-> FALSE, country |-> defaultCountry]

\* The text of a configuration: "false" is one character longer than "true".
Size(c) == IF c.hook THEN 4 ELSE 5

\* What p does to a file spoils what the others know of it.
Touches(p) == fresh' = [q \in Procs |-> q = p /\ fresh[p]]
Spoils(p)  == fresh' = [fresh EXCEPT ![p] = FALSE]
Reads(p)   == fresh' = [fresh EXCEPT ![p] = TRUE]

\* A machine without config.json, after so many commands and requests.
InitWith(ran, asked) ==
  /\ log = "none"
  /\ disk = Absent
  /\ pc = [p \in Procs |-> "idle"]
  /\ job = [p \in Procs |-> "none"]
  /\ serving = [p \in Procs |-> FALSE]
  /\ mem = [p \in Procs |-> DefaultConfig]
  /\ runs = ran /\ requests = asked
  /\ fresh = [p \in Procs |-> FALSE]
  /\ accident = FALSE

Init ==
  /\ \E t \in InitTexts : original = t /\ text = t
  /\ InitWith(0, 0)

-----------------------------------------------------------------------------
(***************************************************************************)
(* A job step.  A command that is done ends with its process, whose copy   *)
(* of the configuration is gone; a web server is ready for a request.      *)
(***************************************************************************)
Go(p, from, to) ==
  /\ pc[p] = from
  /\ pc' = [pc EXCEPT ![p] = to]
  /\ UNCHANGED <<job, serving>>

Exits(p) ==
  /\ pc' = [pc EXCEPT ![p] = "idle"]
  /\ job' = [job EXCEPT ![p] = "none"]
  /\ serving' = [serving EXCEPT ![p] = FALSE]
  /\ mem' = [mem EXCEPT ![p] = DefaultConfig]

Done(p) ==
  IF serving[p] THEN Go(p, pc[p], "ready") /\ UNCHANGED mem ELSE Exits(p)

-----------------------------------------------------------------------------
(***************************************************************************)
(* Load.  The process then goes on with its job; a command that only reads *)
(* the configuration, and may override its copy, never saves it.           *)
(***************************************************************************)
FirstStep(j) ==
  CASE j \in {"enable", "disable"} -> "edit"
    [] j = "menu"                  -> "menu"
    [] j = "read"                  -> "reading"
    [] OTHER                       -> "ready"

Run(p, j) ==
  /\ runs < MaxRuns
  /\ pc[p] = "idle"
  /\ pc' = [pc EXCEPT ![p] = "load"]
  /\ runs' = runs + 1
  /\ job' = [job EXCEPT ![p] = j]
  /\ serving' = [serving EXCEPT ![p] = (j = "gui")]
  /\ UNCHANGED <<edits, disk, mem, requests, fresh, accident>>

\* The configuration c is loaded and the command begins.
Takes(p, c) ==
  /\ mem' = [mem EXCEPT ![p] = c]
  /\ Reads(p)
  /\ UNCHANGED <<edits, disk, runs, requests, accident>>

\* No file: the defaults, which Load saves before it returns them.
LoadDefaults(p) ==
  /\ disk = Absent
  /\ Go(p, "load", "init.open")
  /\ Takes(p, DefaultConfig)

\* Mutant: what Unmarshal refuses is taken all the same.
LoadAnything(p) ==
  /\ disk # Absent
  /\ Go(p, "load", FirstStep(job[p]))
  /\ Takes(p, disk.what)

LoadFile(p) ==
  /\ disk # Absent /\ disk.what # Torn
  /\ Go(p, "load", FirstStep(job[p]))
  /\ Takes(p, disk.what)

\* A file that cannot be read ends the command.
LoadFails(p) ==
  /\ disk # Absent /\ disk.what = Torn
  /\ pc[p] = "load"
  /\ Exits(p)
  /\ UNCHANGED <<edits, disk, runs, requests, fresh, accident>>

\* The other commands only look: env, daemon, open, test, status.
ReaderExits(p) ==
  /\ pc[p] = "reading"
  /\ Exits(p)
  /\ Spoils(p)
  /\ UNCHANGED <<edits, disk, runs, requests, accident>>

-----------------------------------------------------------------------------
(***************************************************************************)
(* Save is os.WriteFile: it opens the file, which empties it, and writes   *)
(* from the start.  Callers go on whether it fails or not.                 *)
(***************************************************************************)
\* What is left when c is written over a file that is no longer empty.
Over(file, c) ==
  IF file.size > Size(c) THEN [what |-> Torn, size |-> file.size]
                         ELSE [what |-> c, size |-> Size(c)]

AfterSave(p) ==
  \/ /\ pc[p] \in {"init.open", "init.write"}
     /\ Go(p, pc[p], FirstStep(job[p])) /\ UNCHANGED mem
  \/ /\ pc[p] \in {"open", "write"} /\ job[p] = "post.hook"
     /\ Go(p, pc[p], "sync") /\ UNCHANGED mem
  \/ /\ pc[p] \in {"open", "write"} /\ job[p] # "post.hook"
     /\ Done(p)

Opens(p) ==
  /\ \/ Go(p, "open", "write")
     \/ Go(p, "init.open", "init.write")
  /\ accident' = \E q \in Procs \ {p} : Writing(q)
  /\ Touches(p)
  /\ UNCHANGED <<edits, mem, runs, requests>>

\* Mutant: the file is opened without O_TRUNC.
OpenKeeps(p) ==
  /\ Opens(p)
  /\ disk' = IF disk = Absent THEN [what |-> Torn, size |-> 0] ELSE disk

Open(p) ==
  /\ Opens(p)
  /\ disk' = [what |-> Torn, size |-> 0]

Write(p) ==
  /\ Writing(p)
  /\ AfterSave(p)
  /\ disk' = Over(disk, mem[p])
  /\ Touches(p)
  /\ UNCHANGED <<edits, runs, requests, accident>>

\* The file cannot be opened, or the disk is full: the error is dropped.
SaveFails(p) ==
  /\ pc[p] \in {"init.open", "open"} \/ Writing(p)
  /\ AfterSave(p)
  /\ accident' = (accident \/ Writing(p))
  /\ Spoils(p)
  /\ UNCHANGED <<edits, disk, runs, requests>>

-----------------------------------------------------------------------------
(***************************************************************************)
(* handleHook and the handlers of api/hook: first the startup file, then   *)
(* the flag, then Save.                                                    *)
(***************************************************************************)
EditText(hook) == IF hook THEN InstallText ELSE RemoveText

SetsFlag(p) == mem' = [mem EXCEPT ![p].hook = (job[p] = "enable")]

EditHook(p) ==
  /\ Go(p, "edit", "open")
  /\ EditText(job[p] = "enable")
  /\ SetsFlag(p)
  /\ Touches(p)
  /\ UNCHANGED <<disk, runs, requests, accident>>

\* Mutant: the flag is saved although the startup file was not edited.
EditFailsAndSaves(p) ==
  /\ Go(p, "edit", "open")
  /\ SetsFlag(p)
  /\ UNCHANGED <<edits, disk, runs, requests, fresh, accident>>

\* InstallHook or RemoveHook fails: exit code 1, or "ok": false.
EditFails(p) ==
  /\ pc[p] = "edit"
  /\ Done(p)
  /\ UNCHANGED <<edits, disk, runs, requests, fresh, accident>>

-----------------------------------------------------------------------------
(***************************************************************************)
(* RunSettingsMenu: parameters are changed in memory; "save" writes them,  *)
(* every other way out leaves the file alone.                              *)
(***************************************************************************)
MenuEdits(p, country) ==
  /\ pc[p] = "menu"
  /\ mem' = [mem EXCEPT ![p].country = country]
  /\ UNCHANGED <<edits, disk, pc, job, serving, runs, requests, fresh, accident>>

MenuSaves(p) ==
  /\ Go(p, "menu", "open")
  /\ UNCHANGED <<edits, disk, mem, runs, requests, fresh, accident>>

MenuLeaves(p) ==
  /\ pc[p] = "menu"
  /\ Exits(p)
  /\ UNCHANGED <<edits, disk, runs, requests, fresh, accident>>

-----------------------------------------------------------------------------
(***************************************************************************)
(* The web server.  A handler keeps s.mu from its first step to its last,  *)
(* so the next request finds the process ready again.                      *)
(***************************************************************************)
Accept(p, r, next) ==
  /\ requests < MaxRequests
  /\ serving[p] /\ pc[p] = "ready"
  /\ pc' = [pc EXCEPT ![p] = next]
  /\ job' = [job EXCEPT ![p] = r]
  /\ requests' = requests + 1
  /\ UNCHANGED <<edits, disk, serving, runs, fresh, accident>>

Copies(p, c) == mem' = [mem EXCEPT ![p] = c]

\* handleConfig: a whole form, stale or edited, replaces the copy.
Post(p, c) ==
  /\ Accept(p, IF c.hook # mem[p].hook THEN "post.hook" ELSE "post", "open")
  /\ Copies(p, c)

\* Mutant: the defaults stay in memory.
ResetUnsaved(p) == Accept(p, "reset", "ready") /\ Copies(p, DefaultConfig)

\* handleConfigReset: the startup file keeps its block.
Reset(p) == Accept(p, "reset", "open") /\ Copies(p, DefaultConfig)

\* handleHookEnable and handleHookDisable
AskHook(p, r) == Accept(p, r, "edit") /\ UNCHANGED mem

\* The end of handleConfig: the startup file follows a changed flag.
SyncHook(p) ==
  /\ Go(p, "sync", "ready")
  /\ EditText(mem[p].hook)
  /\ Touches(p)
  /\ UNCHANGED <<disk, mem, runs, requests, accident>>

SyncFails(p) ==
  /\ Go(p, "sync", "ready")
  /\ UNCHANGED <<edits, disk, mem, runs, requests, fresh, accident>>

-----------------------------------------------------------------------------
\* The process is killed.
Crash(p) ==
  /\ pc[p] # "idle"
  /\ Exits(p)
  /\ accident' = (accident \/ Writing(p))
  /\ Spoils(p)
  /\ UNCHANGED <<edits, disk, runs, requests>>

Next ==
  \/ \E p \in Procs, j \in Commands : Run(p, j)
  \/ \E p \in Procs : LoadDefaults(p) \/ LoadFile(p) \/ LoadFails(p) \/ ReaderExits(p)
  \/ \E p \in Procs : Open(p) \/ Write(p) \/ SaveFails(p)
  \/ \E p \in Procs : EditHook(p) \/ EditFails(p)
  \/ \E p \in Procs, c \in Countries : MenuEdits(p, c)
  \/ \E p \in Procs : MenuSaves(p) \/ MenuLeaves(p)
  \/ \E p \in Procs, c \in Configs : Post(p, c)
  \/ \E p \in Procs : Reset(p)
  \/ \E p \in Procs, r \in {"enable", "disable"} : AskHook(p, r)
  \/ \E p \in Procs : SyncHook(p) \/ SyncFails(p)
  \/ \E p \in Procs : Crash(p)

Spec == Init /\ [][Next]_settingsVars

-----------------------------------------------------------------------------
\* Every copy of the configuration is one, and the file is one or Torn.
SettingsTypeOK ==
  /\ disk \in {Absent} \cup [what : Configs \cup {Torn}, size : {0, 4, 5}]
  /\ pc \in [Procs -> PCs]
  /\ job \in [Procs -> Commands \cup Requests \cup {"none"}]
  /\ serving \in [Procs -> BOOLEAN]
  /\ mem \in [Procs -> Configs]
  /\ runs \in Nat /\ requests \in Nat
  /\ fresh \in [Procs -> BOOLEAN]
  /\ accident \in BOOLEAN

(***************************************************************************)
(* Save writes in place, so a configuration that no command can load any   *)
(* more has exactly two causes: a save that was cut off, or two saves that *)
(* overlapped.  Saves that do not overlap leave a readable file, whatever  *)
(* was in it (config.go:169-176).                                          *)
(***************************************************************************)
TornOnlyByAccident ==
  (disk # Absent /\ disk.what = Torn) => accident \/ \E p \in Procs : Writing(p)

(***************************************************************************)
(* "hook enable" and "hook disable", from the command line or a request,   *)
(* make the flag and the startup file agree on what was asked for, however *)
(* a reset, a crash or a failed edit left them before.  This holds of a    *)
(* command nobody disturbs from its Load (a server: from its last look).   *)
(***************************************************************************)
HookCommandHeals ==
  [][\A p \in Procs :
       (/\ job[p] \in {"enable", "disable"} /\ fresh[p]
        /\ pc[p] = "write" /\ pc'[p] \in {"idle", "ready"} /\ disk' # disk)
       => /\ disk'.what.hook = (job[p] = "enable")
          /\ Installed(text') = (job[p] = "enable")]_settingsVars

(***************************************************************************)
(* A process between two jobs knows what the file says, as long as nobody  *)
(* else wrote and its own saves did not fail: a web server may go on from  *)
(* its copy without loading again.  Nothing is said of a copy being edited *)
(* in the menu or overridden by a command line.                            *)
(***************************************************************************)
CopyIsOnDisk ==
  \A p \in Procs : pc[p] \in {"edit", "ready", "sync"} /\ fresh[p]
                   => disk # Absent /\ disk.what = mem[p]

-----------------------------------------------------------------------------
(***************************************************************************)
(* The inductive invariants behind these, proved in Settings_proofs.       *)
(***************************************************************************)
\* An undisturbed save writes to the file it has just emptied.
SavesInv ==
  /\ \A p \in Procs : Writing(p) =>
       /\ disk # Absent
       /\ fresh[p] \/ ~accident => disk.size = 0
  /\ \A p, q \in Procs : p # q /\ Writing(p) /\ Writing(q) => accident
  /\ TornOnlyByAccident
  /\ CopyIsOnDisk

\* What a server may be doing.
JobInv ==
  \A p \in Procs :
    /\ pc[p] = "menu" => job[p] = "menu"
    /\ serving[p] =>
         /\ job[p] \in {"gui"} \cup Requests
         /\ pc[p] \in {"load", "init.open", "init.write"} => job[p] = "gui"
         /\ pc[p] \notin {"idle", "menu", "reading"}

\* From its edit to the end of its save a hook command stands by what it did.
HookInv ==
  /\ text \in Texts /\ WellFormed(text)
  /\ \A p \in Procs : job[p] \in {"enable", "disable"} /\ pc[p] \in {"open", "write"} =>
       /\ mem[p].hook = (job[p] = "enable")
       /\ fresh[p] => Installed(text) = (job[p] = "enable")

SettingsInv == SettingsTypeOK /\ SavesInv /\ JobInv /\ HookInv
=============================================================================
