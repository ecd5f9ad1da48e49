--------------------------- MODULE ProductLifecycle ---------------------------
(***************************************************************************)
(* install.sh (also run by goalrouter update) and uninstall.sh, one after  *)
(* the other, each command in the order of its file operations.  A signal  *)
(* or a failing operation makes a command clean up; SIGKILL, a power loss, *)
(* or a second signal, stops it where it is.  Between the commands the     *)
(* operator uses the installation.  Two lifecycle commands at the same     *)
(* time, which the scripts do not exclude, are not modelled.               *)
(***************************************************************************)
EXTENDS InstalledFiles

CONSTANTS
  MaxCommands,  \* bound on the commands
  MaxFailures,  \* bound on signals and failing operations
  MaxKills      \* bound on kills

ASSUME BoundAssumption == {MaxCommands, MaxFailures, MaxKills} \subseteq Nat

VARIABLES
  pc,
  job,        \* the command that runs, or ran last
  outcome,    \* how it ended
  targets,    \* the files install.sh replaces, in its order
  at,         \* position in targets
  temp,       \* the replacement file of targets[at], recorded for rollback or not
  log,        \* rollback_file
  backup,     \* what was moved away, to *.goalrouter-backup.<pid>
  committing, \* history: has the removal of backups begun?
  before,     \* history: the files when the command, or the first of its retries, began
  commands, failures, kills

transaction == <<targets, at, temp, log, backup, committing>>
history     == <<before, commands>>
bounds      == <<failures, kills>>
vars == <<files, pc, job, outcome, transaction, history, bounds>>

Job == [cmd: {"install"}, release: Release, reset: BOOLEAN, force: BOOLEAN]
         \cup [cmd: {"uninstall"}, mode: Mode]

Replacing == {"mktemp", "record", "log", "backup", "activate", "doctor"}
RollingBack == {"rollback", "undo", "restore"}
Removing == {"stage", "mark", "remove", "launcher", "installer"}
Final == {"uninstaller", "control", "marker", "directory"}
Committing == {"commit", "committed"}

NoEntry == [t \in Target |-> "none"]

Init ==
  /\ file = NoEntry
  /\ strays = {}
  /\ runs = FALSE
  /\ marker = "none"
  /\ staged = FALSE
  /\ pc = "idle"
  /\ job = [cmd |-> "none"]
  /\ outcome = "none"
  /\ targets = <<>>
  /\ at = 1
  /\ temp = "none"
  /\ log = NoEntry
  /\ backup = NoEntry
  /\ committing = FALSE
  /\ before = [file |-> NoEntry, strays |-> {}, runs |-> FALSE]
  /\ commands = 0 /\ failures = 0 /\ kills = 0

Goto(to) == pc' = to
Current == targets[at]
Put(t, content) == file' = [file EXCEPT ![t] = content]

Begin(command) ==
  /\ pc = "idle"
  /\ commands < MaxCommands
  /\ commands' = commands + 1
  /\ job' = command
  /\ outcome' = "running"
  /\ before' = IF marker = "none" THEN [file |-> file, strays |-> strays, runs |-> runs]
                ELSE before

\* The command is over; an installer's transaction is forgotten.
End(how) ==
  /\ Goto("idle")
  /\ outcome' = how
  /\ targets' = <<>> /\ at' = 1 /\ temp' = "none"
  /\ log' = NoEntry /\ backup' = NoEntry /\ UNCHANGED committing

-----------------------------------------------------------------------------
(* install.sh                                                              *)

MetadataOrder ==
  [k \in 1 .. 6 |-> At(IF k % 2 = 1 THEN "control" ELSE "state",
                       <<"fields", "ownership", "install">>[(k + 1) \div 2])]

\* Mutant of Replaced: the metadata is not copied to the state directory.
ReplacedWithoutState(reset) ==
  <<Sentinel("config"), Sentinel("state"), Launcher, Installer, Uninstaller>>
    \o (IF reset \/ ~Present(Policy) THEN <<Policy>> ELSE <<>>)
    \o SelectSeq(MetadataOrder, LAMBDA t : t.dir = "control")

\* The files in the order of replace_owned; the policy only if absent or reset.
Replaced(reset) ==
  <<Sentinel("config"), Sentinel("state"), Launcher, Installer, Uninstaller>>
    \o (IF reset \/ ~Present(Policy) THEN <<Policy>> ELSE <<>>)
    \o MetadataOrder

(***************************************************************************)
(* A release that downloads, verifies and validates; whatever is rejected  *)
(* before the transaction changes nothing.                                 *)
(***************************************************************************)
StartInstall ==
  \E release \in Release, reset, force \in BOOLEAN :
    /\ Begin([cmd |-> "install", release |-> release, reset |-> reset, force |-> force])
    /\ InstallAccepted(force)
    /\ force => reset
    /\ targets' = Replaced(reset)
    /\ committing' = FALSE
    /\ Goto("mktemp")
    /\ UNCHANGED <<files, at, temp, log, backup, bounds>>

MakeTemporary ==
  /\ pc = "mktemp"
  /\ temp' = "unrecorded"
  /\ Goto("record")
  /\ UNCHANGED <<files, job, outcome, targets, at, log, backup, committing, history, bounds>>

\* The replacement's name goes to rollback_temp_file; then it is filled.
RecordTemporary ==
  /\ pc = "record"
  /\ temp' = "recorded"
  /\ Goto("log")
  /\ UNCHANGED <<files, job, outcome, targets, at, log, backup, committing, history, bounds>>

LogReplacement ==
  /\ pc = "log"
  /\ log' = [log EXCEPT ![Current] = IF Present(Current) THEN "existing" ELSE "new"]
  /\ Goto(IF Present(Current) THEN "backup" ELSE "activate")
  /\ UNCHANGED <<files, job, outcome, targets, at, temp, backup, committing, history, bounds>>

BackUp ==
  /\ pc = "backup"
  /\ backup' = [backup EXCEPT ![Current] = file[Current]]
  /\ Put(Current, "none")
  /\ Goto("activate")
  /\ UNCHANGED <<strays, runs, marker, staged, job, outcome, targets, at, temp, log,
                 committing, history, bounds>>

Activate ==
  /\ pc = "activate"
  /\ Put(Current, IF Current.name = "sentinel" THEN "owned" ELSE job.release)
  /\ temp' = "none"
  /\ at' = IF at < Len(targets) THEN at + 1 ELSE 1
  /\ Goto(IF at < Len(targets) THEN "mktemp" ELSE "doctor")
  /\ UNCHANGED <<strays, runs, marker, staged, job, outcome, targets, log, backup,
                 committing, history, bounds>>

\* The new launcher's doctor is content, or was skipped.
DoctorPasses ==
  /\ pc = "doctor"
  /\ committing' = TRUE
  /\ Goto("commit")
  /\ UNCHANGED <<files, job, outcome, targets, at, temp, log, backup, history, bounds>>

\* The backups are removed one by one.
RemoveBackup ==
  /\ pc = "commit"
  /\ backup' = [backup EXCEPT ![Current] = "none"]
  /\ IF at < Len(targets)
       THEN at' = at + 1 /\ UNCHANGED pc
       ELSE Goto("committed") /\ UNCHANGED at
  /\ UNCHANGED <<files, job, outcome, targets, temp, log, committing, history, bounds>>

\* transaction_active=0; until then a signal rolls back, with no backup left.
EndTransaction ==
  /\ pc = "committed"
  /\ End("succeeded")
  /\ UNCHANGED <<files, job, history, bounds>>

\* rollback_transaction removes the replacement it has a record of.
UndoTemporary ==
  /\ pc = "rollback"
  /\ strays' = IF temp = "unrecorded" THEN strays \cup {Current} ELSE strays
  /\ temp' = "none"
  /\ at' = 1
  /\ Goto("undo")
  /\ UNCHANGED <<file, runs, marker, staged, job, outcome, targets, log, backup, committing,
                 history, bounds>>

\* Mutant of Undone: whether there is a backup is not asked.
UndoneAlways(t) == log[t] # "none"

\* Does rollback remove what is now in place of a target?
Undone(t) == log[t] = "new" \/ (log[t] = "existing" /\ backup[t] # "none")

Undo ==
  /\ pc = "undo"
  /\ IF at > Len(targets)
       THEN End("failed") /\ UNCHANGED file
       ELSE /\ IF Undone(Current) THEN Put(Current, "none") ELSE UNCHANGED file
            /\ IF backup[Current] # "none"
                 THEN Goto("restore") /\ UNCHANGED at
                 ELSE at' = at + 1 /\ UNCHANGED pc
            /\ UNCHANGED <<outcome, targets, temp, log, backup, committing>>
  /\ UNCHANGED <<strays, runs, marker, staged, job, history, bounds>>

Restore ==
  /\ pc = "restore"
  /\ Put(Current, backup[Current])
  /\ backup' = [backup EXCEPT ![Current] = "none"]
  /\ at' = at + 1
  /\ Goto("undo")
  /\ UNCHANGED <<strays, runs, marker, staged, job, outcome, targets, temp, log, committing,
                 history, bounds>>

\* HUP, INT, TERM, or a failing operation: the EXIT trap rolls back.
InstallFails ==
  /\ pc \in Replacing \cup Committing
  /\ failures < MaxFailures
  /\ failures' = failures + 1
  /\ Goto("rollback")
  /\ UNCHANGED <<files, job, outcome, transaction, history, kills>>

Install ==
  \/ StartInstall \/ MakeTemporary \/ RecordTemporary \/ LogReplacement \/ BackUp
  \/ Activate \/ DoctorPasses \/ RemoveBackup \/ EndTransaction
  \/ UndoTemporary \/ Undo \/ Restore \/ InstallFails

-----------------------------------------------------------------------------
(* uninstall.sh                                                            *)

StartUninstall ==
  \E mode \in Mode :
    /\ Begin([cmd |-> "uninstall", mode |-> mode])
    /\ UninstallAccepted(mode)
    /\ staged' = FALSE
    /\ Goto(IF marker = "none" THEN "stage" ELSE "remove")
    /\ UNCHANGED <<file, strays, runs, marker, transaction, bounds>>

StageMarker ==
  /\ pc = "stage"
  /\ staged' = TRUE
  /\ Goto("mark")
  /\ UNCHANGED <<file, strays, runs, marker, job, outcome, transaction, history, bounds>>

ActivateMarker ==
  /\ pc = "mark"
  /\ marker' = job.mode
  /\ staged' = FALSE
  /\ Goto("remove")
  /\ UNCHANGED <<file, strays, runs, job, outcome, transaction, history, bounds>>

\* Mutant of PurgedRoot: only the configuration is purged.
PurgedConfig == {dir \in {"config"} : ~Empty(dir)}

\* config first, then state.
PurgedRoot ==
  {dir \in Roots : ~Empty(dir) /\ (dir = "state" => Empty("config"))}

\* Mutant of Purgeable: the traversal takes the sentinel as it comes.
PurgeableAll(dir) == Entries(dir)

\* Everything in a root but its sentinel.
Purgeable(dir) == Entries(dir) \ {Sentinel(dir)}

\* One entry of the root under purge: a file, a stray file, or the runs.
PurgeEntry ==
  /\ pc = "remove" /\ job.mode = "purge"
  /\ \E dir \in PurgedRoot :
       \/ \E t \in Purgeable(dir) : Put(t, "none") /\ UNCHANGED <<strays, runs>>
       \/ \E t \in strays :
            t.dir = dir /\ strays' = strays \ {t} /\ UNCHANGED <<file, runs>>
       \/ dir = "state" /\ runs /\ runs' = FALSE /\ UNCHANGED <<file, strays>>
  /\ UNCHANGED <<marker, staged, pc, job, outcome, transaction, history, bounds>>

\* With nothing else left the sentinel and the root go, signals ignored.
PurgeRoot ==
  /\ pc = "remove" /\ job.mode = "purge"
  /\ \E dir \in PurgedRoot :
       /\ Entries(dir) = {Sentinel(dir)}
       /\ ~ \E t \in strays : t.dir = dir
       /\ dir = "state" => ~runs
       /\ Put(Sentinel(dir), "none")
  /\ UNCHANGED <<strays, runs, marker, staged, pc, job, outcome, transaction, history,
                 bounds>>

RemoveRuntimeMetadata ==
  /\ pc = "remove" /\ job.mode = "preserve"
  /\ \E t \in MetadataIn("state") : Present(t) /\ Put(t, "none")
  /\ UNCHANGED <<strays, runs, marker, staged, pc, job, outcome, transaction, history,
                 bounds>>

DataRemoved ==
  /\ pc = "remove"
  /\ IF job.mode = "purge" THEN PurgedRoot = {}
     ELSE ~ \E t \in MetadataIn("state") : Present(t)
  /\ Goto("launcher")
  /\ UNCHANGED <<files, job, outcome, transaction, history, bounds>>

\* rm -f of the launcher, the installer and, signals ignored, the uninstaller.
RemoveProgram ==
  /\ \/ pc = "launcher" /\ Put(Launcher, "none") /\ Goto("installer")
     \/ pc = "installer" /\ Put(Installer, "none") /\ Goto("uninstaller")
     \/ pc = "uninstaller" /\ Put(Uninstaller, "none") /\ Goto("control")
  /\ UNCHANGED <<strays, runs, marker, staged, job, outcome, transaction, history, bounds>>

RemoveControl ==
  /\ pc = "control"
  /\ \/ /\ \E t \in MetadataIn("control") : Present(t) /\ Put(t, "none")
        /\ UNCHANGED pc
     \/ /\ Entries("control") = {}
        /\ Goto("marker")
        /\ UNCHANGED file
  /\ UNCHANGED <<strays, runs, marker, staged, job, outcome, transaction, history, bounds>>

RemoveMarker ==
  /\ pc = "marker"
  /\ marker' = "none"
  /\ Goto("directory")
  /\ UNCHANGED <<file, strays, runs, staged, job, outcome, transaction, history, bounds>>

RemoveControlDirectory ==
  /\ pc = "directory"
  /\ End("succeeded")
  /\ UNCHANGED <<files, job, history, bounds>>

UninstallStops(how) ==
  /\ failures < MaxFailures
  /\ failures' = failures + 1
  /\ End(how)
  /\ UNCHANGED <<file, strays, runs, marker, job, history, kills>>

\* Mutant of UninstallInterrupted: the final section does not ignore signals.
UninstallInterruptedAnywhere ==
  /\ pc \in Removing \cup Final
  /\ staged' \in {FALSE, staged}
  /\ UninstallStops("failed")

\* HUP, INT or TERM, ignored in the final section: interrupted() removes the
\* staged marker if it has its name; the active marker stays for the retry.
UninstallInterrupted ==
  /\ pc \in Removing
  /\ staged' \in {FALSE, staged}
  /\ UninstallStops("failed")

(***************************************************************************)
(* A failing operation under set -e, in the final section too: with the    *)
(* uninstaller gone and the marker still there it leaves an orphan.        *)
(***************************************************************************)
UninstallFails ==
  /\ pc \in Removing \cup Final
  /\ UninstallStops(IF pc \in {"control", "marker"} THEN "orphaned" ELSE "failed")
  /\ UNCHANGED staged

Uninstall ==
  \/ StartUninstall \/ StageMarker \/ ActivateMarker
  \/ PurgeEntry \/ PurgeRoot \/ RemoveRuntimeMetadata \/ DataRemoved
  \/ RemoveProgram \/ RemoveControl \/ RemoveMarker
  \/ RemoveControlDirectory \/ UninstallInterrupted \/ UninstallFails

-----------------------------------------------------------------------------
\* The command stops at once; an installer's temporary files stay where they are.
Kill ==
  /\ pc # "idle"
  /\ kills < MaxKills
  /\ kills' = kills + 1
  /\ strays' = strays \cup {t \in Target : backup[t] # "none"}
                 \cup (IF temp = "none" THEN {} ELSE {Current})
  /\ End("killed")
  /\ UNCHANGED <<file, runs, marker, staged, job, history, failures>>

\* A run of goalrouter, and an edit of the policy.
Use ==
  /\ pc = "idle"
  /\ \/ /\ LauncherAccepts /\ ~runs
        /\ runs' = TRUE
        /\ before' = [before EXCEPT !.runs = TRUE]
        /\ UNCHANGED file
     \/ /\ file[Policy] \notin {"none", "edited"}
        /\ Put(Policy, "edited")
        /\ before' = [before EXCEPT !.file[Policy] = "edited"]
        /\ UNCHANGED runs
  /\ UNCHANGED <<strays, marker, staged, pc, job, outcome, transaction, commands, bounds>>

Next == Install \/ Uninstall \/ Kill \/ Use

Spec == Init /\ [][Next]_vars

-----------------------------------------------------------------------------
(* Properties.                                                             *)

Ended(cmd, how) == pc = "idle" /\ job.cmd = cmd /\ outcome = how

(***************************************************************************)
(* An installation or update that fails, or that a signal ends, before it  *)
(* begins to remove its backups leaves every owned file as it found it.    *)
(***************************************************************************)
RollbackRestores ==
  Ended("install", "failed") /\ ~committing => file = before.file

\* A successful one leaves one release that its launcher takes for valid.
InstalledIsWhole ==
  Ended("install", "succeeded") =>
    /\ LauncherAccepts
    /\ \A t \in {Launcher, Installer, Uninstaller} \cup MetadataIn("control") :
         file[t] = job.release

(***************************************************************************)
(* Wherever an uninstall was interrupted, the uninstaller, as long as it   *)
(* is there, accepts a retry in the mode that the marker records.          *)
(***************************************************************************)
RetryAccepted ==
  pc = "idle" /\ marker # "none" /\ Present(Uninstaller) => UninstallAccepted(marker)

(***************************************************************************)
(* A completed uninstall leaves none of the owned files of the program,    *)
(* and of the user's data all or nothing, whatever interrupted attempts    *)
(* went before.  What a killed install left beside the programs in bin, a  *)
(* backup or an unfinished replacement, is no owned file and stays.        *)
(***************************************************************************)
UninstallRemovesExactly ==
  Ended("uninstall", "succeeded") =>
    /\ Entries("bin") \cup Entries("control") = {}
    /\ marker = "none" /\ ~staged
    /\ job.mode = "purge" => Empty("config") /\ Empty("state")
    /\ job.mode = "preserve" =>
         file[Policy] = before.file[Policy] /\ runs = before.runs

\* There is a next thing to do: an installation with --force, or an uninstall.
WayForward == InstallAccepted(TRUE) \/ \E mode \in Mode : UninstallAccepted(mode)

(***************************************************************************)
(* Signals at any time, and failing operations but for one kind, never     *)
(* shut the operator out, unless an unrecorded replacement was left        *)
(* outside bin.  The exception does: when an rm fails in uninstall.sh's    *)
(* final section after the uninstaller has removed itself, neither command *)
(* accepts what is left.                                                   *)
(***************************************************************************)
SomeWayForward ==
  pc = "idle" /\ kills = 0 /\ (\A t \in strays : t.dir = "bin") =>
    (WayForward <=> outcome # "orphaned")

\* docs/installation.md:116: "Any failure rolls back the transaction."
FailedInstallChangesNothing ==
  Ended("install", "failed") => file = before.file /\ strays = before.strays
=============================================================================
