------------------------ MODULE ProductLifecycle_proofs ------------------------
(***************************************************************************)
(* What install.sh and uninstall.sh leave behind, for any set of releases  *)
(* and any number of commands, signals, failures and kills.                *)
(***************************************************************************)
EXTENDS ProductLifecycle, SequenceTheorems, TLAPS

Installing   == Replacing \cup Committing \cup RollingBack
Uninstalling == Removing \cup Final

TypeInv ==
  /\ file \in [Target -> Content] /\ strays \subseteq Target
  /\ runs \in BOOLEAN /\ staged \in BOOLEAN /\ marker \in Mode \cup {"none"}
  /\ pc \in Installing \cup Uninstalling \cup {"idle"}
  /\ temp \in {"none", "unrecorded", "recorded"}
  /\ log \in [Target -> {"none", "new", "existing"}]
  /\ backup \in [Target -> Content]
  /\ committing \in BOOLEAN
  /\ before \in [file : [Target -> Content], strays : SUBSET Target, runs : BOOLEAN]
  /\ kills \in Nat

\* Which command runs, and what the marker says of it.
JobInv ==
  /\ job.cmd = "install" => job.release \in Release
  /\ job.cmd = "uninstall" => job.mode \in Mode
  /\ pc \in Installing => job.cmd = "install" /\ marker = "none"
  /\ pc \in Uninstalling =>
       /\ job.cmd = "uninstall"
       /\ marker = IF pc \in {"stage", "mark", "directory"} THEN "none" ELSE job.mode

-----------------------------------------------------------------------------
(* install.sh's transaction.                                               *)

\* What a list of targets has to be for replace_owned and rollback to go through it.
Plan(s) ==
  /\ s \in Seq(Target)
  /\ \A i, k \in 1 .. Len(s) : s[i] = s[k] => i = k
  /\ \A t \in Target \ {Policy} : \E k \in 1 .. Len(s) : s[k] = t

PlanInv ==
  IF pc \in Installing
    THEN /\ Plan(targets)
         /\ at \in 1 .. Len(targets) + 1 /\ (pc # "undo" => at \in 1 .. Len(targets))
         /\ pc \in {"undo", "restore"} => temp = "none"
         /\ pc \in Replacing => ~committing
         /\ pc \in Committing => committing
    ELSE targets = <<>> /\ at = 1 /\ temp = "none" /\ log = NoEntry /\ backup = NoEntry

\* As the command found it; once backups are being removed, there or not there.
Back(t) ==
  /\ file[t] = "none" <=> before.file[t] = "none"
  /\ ~committing => file[t] = before.file[t]

\* What is in place, in the backup and in rollback_file of a target that can be undone.
Recoverable(t) ==
  \/ log[t] = "none" /\ backup[t] = "none" /\ file[t] = before.file[t]
  \/ log[t] = "new" /\ backup[t] = "none" /\ before.file[t] = "none"
  \/ /\ log[t] = "existing" /\ before.file[t] # "none"
     /\ backup[t] = before.file[t] \/ (backup[t] = "none" /\ Back(t))

\* Rollback has been at this target.
Behind(t) == pc \in {"undo", "restore"} /\ \E k \in 1 .. Len(targets) : k < at /\ targets[k] = t

\* What Activate puts in place of a target.
New(t) == IF t.name = "sentinel" THEN "owned" ELSE job.release

\* The targets that have been replaced.
Replacement(k) == k < at \/ pc \in {"doctor"} \cup Committing

TargetInv ==
  pc \in Installing =>
    /\ \A t \in Target : IF Behind(t) THEN Back(t) ELSE Recoverable(t)
    /\ \A t \in Target : log[t] # "none" => \E k \in 1 .. Len(targets) : targets[k] = t

StepInv ==
  /\ pc \in {"mktemp", "record", "log"} =>
       \A k \in 1 .. Len(targets) : k >= at => log[targets[k]] = "none"
  /\ pc \in {"backup", "activate"} =>
       /\ log[Current] # "none"
       /\ \A k \in 1 .. Len(targets) : k > at => log[targets[k]] = "none"
  /\ pc = "backup" => log[Current] = "existing" /\ backup[Current] = "none"
  /\ pc = "activate" => backup[Current] # "none" \/ log[Current] = "new"
  /\ pc = "restore" => backup[Current] # "none" /\ backup[Current] = before.file[Current]
  /\ pc \in Replacing \cup Committing =>
       \A k \in 1 .. Len(targets) :
         Replacement(k) => file[targets[k]] = New(targets[k]) /\ log[targets[k]] # "none"

InstallInv == PlanInv /\ TargetInv /\ StepInv

-----------------------------------------------------------------------------
(* uninstall.sh and its retries.                                           *)

Attempted == pc \in Uninstalling \/ marker # "none"

\* The mode of the uninstall that runs, or is to be resumed.
AttemptedMode == IF marker = "none" THEN job.mode ELSE marker

\* What a retry checks.
Resumable ==
  /\ ManifestValid("control")
  /\ \A t \in strays : t.dir # "control"
  /\ AttemptedMode = "purge" => \A dir \in Roots : Present(Sentinel(dir)) \/ Empty(dir)

RetryInv ==
  Attempted =>
    /\ Present(Uninstaller) => Resumable
    /\ AttemptedMode = "preserve" => file[Policy] = before.file[Policy] /\ runs = before.runs

RemovalInv ==
  /\ pc \in {"launcher", "installer"} \cup Final /\ job.mode = "purge" =>
       Empty("config") /\ Empty("state")
  /\ pc \in {"installer"} \cup Final => ~Present(Launcher)
  /\ pc \in Final => ~Present(Installer)
  /\ pc \in Removing \cup {"uninstaller"} => Present(Uninstaller)
  /\ pc \in {"control", "marker", "directory"} => ~Present(Uninstaller)
  /\ pc \in {"marker", "directory"} => Entries("control") = {}
  /\ pc \in Uninstalling \ {"mark"} => ~staged

-----------------------------------------------------------------------------
(* Between the commands.                                                   *)

EndedInv ==
  /\ Ended("install", "failed") => \A t \in Target : Back(t)
  /\ Ended("install", "succeeded") => \A t \in Target \ {Policy} : file[t] = New(t)
  /\ UninstallRemovesExactly

\* What is in the state directory is there under its sentinel.
Guarded(f, r) ==
  r \/ (\E t \in Target : t.dir = "state" /\ f[t] # "none") => f[Sentinel("state")] # "none"

ForwardInv ==
  /\ pc = "idle" /\ outcome = "orphaned" => marker # "none" /\ ~Present(Uninstaller)
  /\ kills = 0 =>
       /\ IF pc \in Installing THEN Guarded(before.file, before.runs) /\ runs = before.runs
          ELSE Guarded(file, runs)
       /\ pc = "idle" /\ marker # "none" /\ outcome # "orphaned" => Present(Uninstaller)

IInv == TypeInv /\ JobInv /\ InstallInv /\ RetryInv /\ RemovalInv /\ EndedInv /\ ForwardInv

-----------------------------------------------------------------------------
(* The files.                                                              *)

\* The program's files are different from each other and from all others.
LEMMA Files ==
  /\ {Launcher, Installer, Uninstaller, Policy, Sentinel("config"), Sentinel("state")} \subseteq Target
  /\ MetadataIn("control") \cup MetadataIn("state") \subseteq Target
  /\ \A t \in Target : /\ t.dir = "bin" <=> t \in {Launcher, Installer, Uninstaller}
                       /\ t.dir = "control" <=> t \in MetadataIn("control")
                       /\ t.dir = "config" <=> t \in {Policy, Sentinel("config")}
                       /\ t.dir = "state" <=> t \in {Sentinel("state")} \cup MetadataIn("state")
                       /\ t.name = "sentinel" <=> t \in {Sentinel("config"), Sentinel("state")}
  /\ Launcher # Installer /\ Installer # Uninstaller /\ Launcher # Uninstaller
  /\ Policy # Sentinel("config")
  /\ \A t \in MetadataIn("state") : t # Sentinel("state")
  BY DEF Target, Launcher, Installer, Uninstaller, Policy, Sentinel, MetadataIn, Metadata, At, Roots

\* What is written is the content of a file.
LEMMA Contents ==
  /\ Release \subseteq Content /\ {"none", "owned", "edited"} \subseteq Content
  /\ \A v \in Release : v \notin {"none", "owned", "edited"}
  /\ NoEntry \in [Target -> Content] /\ NoEntry \in [Target -> {"none", "new", "existing"}]
  /\ \A t \in Target : NoEntry[t] = "none"
  BY ReleaseAssumption DEF Content, NoEntry

\* An installer is at a target.
LEMMA CurrentIsTarget ==
  ASSUME PlanInv, pc \in Installing, pc # "undo" \/ ~(at > Len(targets))
  PROVE  Current \in Target /\ at \in 1 .. Len(targets) /\ Len(targets) \in Nat
<1>1. targets \in Seq(Target) /\ Len(targets) \in Nat /\ at \in 1 .. Len(targets) + 1
  BY DEF PlanInv, Plan
<1>2. at \in 1 .. Len(targets)
  BY <1>1 DEF PlanInv
<1>3. QED
  BY <1>1, <1>2 DEF Current

-----------------------------------------------------------------------------
(* Types.                                                                  *)

\* What is remembered of the files when a command begins.
LEMMA Beginnings ==
  ASSUME TypeInv, NEW command, Begin(command)
  PROVE  /\ before' \in [file : [Target -> Content], strays : SUBSET Target, runs : BOOLEAN]
         /\ before'.file = IF marker = "none" THEN file ELSE before.file
         /\ before'.runs = IF marker = "none" THEN runs ELSE before.runs
<1>1. CASE marker = "none"
  BY <1>1 DEF TypeInv, Begin
<1>2. CASE marker # "none"
  BY <1>2 DEF TypeInv, Begin
<1>3. QED
  BY <1>1, <1>2

LEMMA InstallTypes ==
  ASSUME TypeInv, JobInv, PlanInv, Install
  PROVE  TypeInv'
<1> USE DEF Installing, Uninstalling, Replacing, Committing, RollingBack, Removing, Final
<1>1. CASE StartInstall
  BY <1>1, Beginnings DEF TypeInv, StartInstall, Goto, files, bounds
<1>2. CASE MakeTemporary
  BY <1>2 DEF TypeInv, MakeTemporary, Goto, files, history, bounds
<1>3. CASE RecordTemporary
  BY <1>3 DEF TypeInv, RecordTemporary, Goto, files, history, bounds
<1>4. CASE LogReplacement
  BY <1>4 DEF TypeInv, LogReplacement, Goto, files, history, bounds
<1>5. CASE BackUp
  <2>1. Current \in Target
    BY <1>5, CurrentIsTarget DEF BackUp
  <2>2. QED
    BY <1>5, <2>1, Contents DEF TypeInv, BackUp, Put, Goto, history, bounds
<1>6. CASE Activate
  BY <1>6, Contents DEF TypeInv, JobInv, Activate, Put, Goto, history, bounds
<1>7. CASE DoctorPasses
  BY <1>7 DEF TypeInv, DoctorPasses, Goto, files, history, bounds
<1>8. CASE RemoveBackup
  BY <1>8, Contents DEF TypeInv, RemoveBackup, Goto, files, history, bounds
<1>9. CASE UndoTemporary
  BY <1>9, CurrentIsTarget DEF TypeInv, UndoTemporary, Goto, history, bounds
<1>10. CASE Undo
  BY <1>10, Contents DEF TypeInv, Undo, End, Put, Goto, history, bounds
<1>11. CASE Restore
  <2>1. Current \in Target
    BY <1>11, CurrentIsTarget DEF Restore
  <2>2. QED
    BY <1>11, <2>1, Contents DEF TypeInv, Restore, Put, Goto, history, bounds
<1>12. CASE InstallFails
  BY <1>12 DEF TypeInv, InstallFails, Goto, files, transaction, history
<1>13. CASE EndTransaction
  BY <1>13, Contents DEF TypeInv, EndTransaction, End, Goto, files, history, bounds
<1>14. QED
  BY <1>1, <1>2, <1>3, <1>4, <1>5, <1>6, <1>7, <1>8, <1>9, <1>10, <1>11, <1>12, <1>13
     DEF Install

\* uninstall.sh removes one entry, or none.
Removes ==
  /\ file' = file \/ \E t \in Target : Put(t, "none")
  /\ strays' \subseteq strays
  /\ runs' \in {runs, FALSE}

LEMMA RemovalSteps ==
  ASSUME TypeInv,
         PurgeEntry \/ PurgeRoot \/ RemoveRuntimeMetadata \/ DataRemoved \/ RemoveProgram
           \/ RemoveControl
  PROVE  Removes
<1>1. CASE PurgeEntry
  <2>1. PICK dir \in PurgedRoot :
          \/ \E t \in Purgeable(dir) : Put(t, "none") /\ UNCHANGED <<strays, runs>>
          \/ \E t \in strays :
               t.dir = dir /\ strays' = strays \ {t} /\ UNCHANGED <<file, runs>>
          \/ dir = "state" /\ runs /\ runs' = FALSE /\ UNCHANGED <<file, strays>>
    BY <1>1 DEF PurgeEntry
  <2>2. Purgeable(dir) \subseteq Target
    BY DEF Purgeable, Entries
  <2>3. QED
    BY <2>1, <2>2 DEF Removes
<1>2. CASE PurgeRoot
  BY <1>2, Files DEF PurgeRoot, PurgedRoot, Roots, Removes
<1>3. CASE RemoveRuntimeMetadata
  BY <1>3, Files DEF RemoveRuntimeMetadata, Removes
<1>4. CASE DataRemoved
  BY <1>4 DEF DataRemoved, files, Removes
<1>5. CASE RemoveProgram
  BY <1>5, Files DEF RemoveProgram, Removes
<1>6. CASE RemoveControl
  BY <1>6, Files DEF RemoveControl, Removes
<1>7. QED
  BY <1>1, <1>2, <1>3, <1>4, <1>5, <1>6

LEMMA RemovalTypes ==
  ASSUME TypeInv, Removes
  PROVE  file' \in [Target -> Content] /\ strays' \subseteq Target /\ runs' \in BOOLEAN
<1>1. file' \in [Target -> Content]
  BY Contents DEF TypeInv, Removes, Put
<1>2. QED
  BY <1>1 DEF TypeInv, Removes

LEMMA UninstallTypes ==
  ASSUME TypeInv, JobInv, PlanInv, Uninstall
  PROVE  TypeInv'
<1> USE DEF Installing, Uninstalling, Replacing, Committing, RollingBack, Removing, Final
<1>1. CASE StartUninstall
  BY <1>1, Beginnings DEF TypeInv, StartUninstall, Goto, transaction, bounds
<1>2. CASE StageMarker
  BY <1>2 DEF TypeInv, StageMarker, Goto, transaction, history, bounds
<1>3. CASE ActivateMarker
  BY <1>3 DEF TypeInv, JobInv, ActivateMarker, Goto, transaction, history, bounds
<1>4. CASE PurgeEntry
  BY <1>4, RemovalSteps, RemovalTypes DEF TypeInv, PurgeEntry, transaction, history, bounds
<1>5. CASE PurgeRoot
  BY <1>5, RemovalSteps, RemovalTypes DEF TypeInv, PurgeRoot, transaction, history, bounds
<1>6. CASE RemoveRuntimeMetadata
  BY <1>6, RemovalSteps, RemovalTypes DEF TypeInv, RemoveRuntimeMetadata, transaction, history, bounds
<1>7. CASE DataRemoved
  BY <1>7 DEF TypeInv, DataRemoved, Goto, files, transaction, history, bounds
<1>8. CASE RemoveProgram
  BY <1>8, RemovalSteps, RemovalTypes DEF TypeInv, RemoveProgram, Goto, transaction, history, bounds
<1>9. CASE RemoveControl
  BY <1>9, RemovalSteps, RemovalTypes DEF TypeInv, RemoveControl, Goto, transaction, history, bounds
<1>10. CASE RemoveMarker
  BY <1>10 DEF TypeInv, RemoveMarker, Goto, transaction, history, bounds
<1>11. CASE RemoveControlDirectory
  BY <1>11, Contents DEF TypeInv, RemoveControlDirectory, End, Goto, files, history, bounds
<1>12. CASE UninstallInterrupted \/ UninstallFails
  BY <1>12, Contents DEF TypeInv, UninstallInterrupted, UninstallFails, UninstallStops, End, Goto,
                         history
<1>13. QED
  BY <1>1, <1>2, <1>3, <1>4, <1>5, <1>6, <1>7, <1>8, <1>9, <1>10, <1>11, <1>12 DEF Uninstall

\* A recorded or unrecorded replacement is one of a target.
LEMMA KillTypes ==
  ASSUME TypeInv, PlanInv, Kill
  PROVE  TypeInv'
<1>1. temp = "none" \/ Current \in Target
  BY CurrentIsTarget DEF PlanInv, Kill
<1>2. strays' \subseteq Target
  BY <1>1 DEF TypeInv, Kill
<1>3. QED
  BY <1>2, Contents DEF TypeInv, Kill, End, Goto, history, Installing, Uninstalling

\* What is used is remembered as if it had been so before.
LEMMA UseTypes ==
  ASSUME TypeInv, Use
  PROVE  TypeInv'
<1>1. CASE runs' = TRUE /\ before' = [before EXCEPT !.runs = TRUE] /\ UNCHANGED file
  BY <1>1 DEF TypeInv, Use, transaction, bounds
<1>2. CASE /\ Put(Policy, "edited") /\ UNCHANGED runs
           /\ before' = [before EXCEPT !.file[Policy] = "edited"]
  <2>1. file' \in [Target -> Content]
    BY <1>2, Contents DEF TypeInv, Put
  <2>2. [before.file EXCEPT ![Policy] = "edited"] \in [Target -> Content]
    BY Contents DEF TypeInv
  <2>3. before' = [before EXCEPT !.file = [before.file EXCEPT ![Policy] = "edited"]]
    BY <1>2
  <2>4. before' \in [file : [Target -> Content], strays : SUBSET Target, runs : BOOLEAN]
    BY <2>2, <2>3 DEF TypeInv
  <2>5. QED
    BY <1>2, <2>1, <2>4 DEF TypeInv, Use, transaction, bounds
<1>3. QED
  BY <1>1, <1>2 DEF Use

-----------------------------------------------------------------------------
(* Commands.                                                               *)

LEMMA InstallJobs ==
  ASSUME TypeInv, JobInv, Install
  PROVE  JobInv'
<1> USE DEF Installing, Uninstalling, Replacing, Committing, RollingBack, Removing, Final
<1>1. CASE StartInstall
  BY <1>1 DEF JobInv, StartInstall, Begin, InstallAccepted, Goto, files
<1>2. CASE MakeTemporary \/ RecordTemporary \/ LogReplacement \/ DoctorPasses \/ InstallFails
  BY <1>2 DEF JobInv, MakeTemporary, RecordTemporary, LogReplacement, DoctorPasses, InstallFails,
              Goto, files
<1>3. CASE BackUp \/ Activate \/ UndoTemporary \/ Restore
  BY <1>3 DEF JobInv, BackUp, Activate, UndoTemporary, Restore, Goto
<1>4. CASE RemoveBackup \/ EndTransaction
  BY <1>4 DEF JobInv, RemoveBackup, EndTransaction, End, Goto, files
<1>5. CASE Undo
  BY <1>5 DEF JobInv, Undo, End, Goto
<1>6. QED
  BY <1>1, <1>2, <1>3, <1>4, <1>5 DEF Install

LEMMA UninstallJobs ==
  ASSUME TypeInv, JobInv, Uninstall
  PROVE  JobInv'
<1> USE DEF Installing, Uninstalling, Replacing, Committing, RollingBack, Removing, Final
<1>1. CASE StartUninstall
  <2>1. PICK mode \in Mode :
          /\ Begin([cmd |-> "uninstall", mode |-> mode])
          /\ UninstallAccepted(mode)
          /\ Goto(IF marker = "none" THEN "stage" ELSE "remove")
          /\ UNCHANGED marker
    BY <1>1 DEF StartUninstall
  <2>2. marker \in {"none", mode} /\ job' = [cmd |-> "uninstall", mode |-> mode]
    BY <2>1 DEF UninstallAccepted, Begin
  <2>3. QED
    BY <2>1, <2>2 DEF JobInv, Goto
<1>2. CASE StageMarker \/ ActivateMarker \/ RemoveMarker
  BY <1>2 DEF JobInv, StageMarker, ActivateMarker, RemoveMarker, Goto
<1>3. CASE PurgeEntry \/ PurgeRoot \/ RemoveRuntimeMetadata \/ RemoveControl \/ RemoveProgram
  BY <1>3 DEF JobInv, PurgeEntry, PurgeRoot, RemoveRuntimeMetadata, RemoveControl,
              RemoveProgram, Goto
<1>4. CASE DataRemoved
  BY <1>4 DEF JobInv, DataRemoved, Goto, files
<1>5. CASE RemoveControlDirectory \/ UninstallInterrupted \/ UninstallFails
  BY <1>5 DEF JobInv, RemoveControlDirectory, UninstallInterrupted, UninstallFails,
              UninstallStops, End, Goto
<1>6. QED
  BY <1>1, <1>2, <1>3, <1>4, <1>5 DEF Uninstall

LEMMA OtherJobs ==
  ASSUME TypeInv, JobInv, Kill \/ Use \/ UNCHANGED vars
  PROVE  JobInv'
  BY DEF JobInv, Kill, Use, End, Goto, vars, files, Installing, Uninstalling, Replacing, Committing,
         RollingBack, Removing, Final

-----------------------------------------------------------------------------
(* The list of targets.                                                    *)

\* MetadataOrder names each file once.
LEMMA MetadataOrdered ==
  /\ MetadataOrder \in Seq(MetadataIn("control") \cup MetadataIn("state"))
  /\ Len(MetadataOrder) = 6
  /\ MetadataOrder[1] = At("control", "fields") /\ MetadataOrder[2] = At("state", "fields")
  /\ MetadataOrder[3] = At("control", "ownership") /\ MetadataOrder[4] = At("state", "ownership")
  /\ MetadataOrder[5] = At("control", "install") /\ MetadataOrder[6] = At("state", "install")
<1>1. 1 \div 2 = 0 /\ 2 \div 2 = 1 /\ 3 \div 2 = 1 /\ 4 \div 2 = 2
  OBVIOUS
<1>2. \A k \in 1 .. 6 : k = 1 \/ k = 2 \/ k = 3 \/ k = 4 \/ k = 5 \/ k = 6
  OBVIOUS
<1>3. /\ MetadataOrder[1] = At("control", "fields") /\ MetadataOrder[2] = At("state", "fields")
      /\ MetadataOrder[3] = At("control", "ownership") /\ MetadataOrder[4] = At("state", "ownership")
      /\ MetadataOrder[5] = At("control", "install") /\ MetadataOrder[6] = At("state", "install")
  BY DEF MetadataOrder
<1>4. \A k \in 1 .. 6 : MetadataOrder[k] \in MetadataIn("control") \cup MetadataIn("state")
  BY <1>2, <1>3 DEF MetadataIn, Metadata
<1>5. DOMAIN MetadataOrder = 1 .. 6 /\ MetadataOrder = [k \in 1 .. 6 |-> MetadataOrder[k]]
  BY DEF MetadataOrder
<1>6. QED
  BY <1>3, <1>4, <1>5

\* The sentinels and the program.
Heads == <<Sentinel("config"), Sentinel("state"), Launcher, Installer, Uninstaller>>

\* A place of its own for every file.
Place(t) ==
  CASE t = Sentinel("config") -> 1 [] t = Sentinel("state") -> 2
    [] t = Launcher -> 3 [] t = Installer -> 4 [] t = Uninstaller -> 5 [] t = Policy -> 6
    [] t = At("control", "fields") -> 7 [] t = At("state", "fields") -> 8
    [] t = At("control", "ownership") -> 9 [] t = At("state", "ownership") -> 10
    [] t = At("control", "install") -> 11 [] t = At("state", "install") -> 12

LEMMA Places ==
  /\ Place(Sentinel("config")) = 1 /\ Place(Sentinel("state")) = 2
  /\ Place(Launcher) = 3 /\ Place(Installer) = 4 /\ Place(Uninstaller) = 5 /\ Place(Policy) = 6
  /\ Place(At("control", "fields")) = 7 /\ Place(At("state", "fields")) = 8
  /\ Place(At("control", "ownership")) = 9 /\ Place(At("state", "ownership")) = 10
  /\ Place(At("control", "install")) = 11 /\ Place(At("state", "install")) = 12
  BY DEF Place, At, Sentinel, Launcher, Installer, Uninstaller, Policy

\* A list without the policy, and one with it, by position.
LEMMA ReplacedInOrder ==
  ASSUME NEW s, NEW n \in {5, 6}, s \in Seq(Target), Len(s) = n + 6,
         \A k \in 1 .. 5 : s[k] = Heads[k], n = 6 => s[6] = Policy,
         \A k \in 1 .. 6 : s[n + k] = MetadataOrder[k]
  PROVE  Plan(s) /\ Len(s) >= 1
<1>1. /\ s[1] = Sentinel("config") /\ s[2] = Sentinel("state")
      /\ s[3] = Launcher /\ s[4] = Installer /\ s[5] = Uninstaller
  BY DEF Heads
<1>2. /\ s[n + 1] = At("control", "fields") /\ s[n + 2] = At("state", "fields")
      /\ s[n + 3] = At("control", "ownership") /\ s[n + 4] = At("state", "ownership")
      /\ s[n + 5] = At("control", "install") /\ s[n + 6] = At("state", "install")
  BY MetadataOrdered
<1>3. ASSUME NEW k \in 1 .. n + 6
      PROVE  Place(s[k]) = IF k <= n THEN k ELSE k + 6 - n
  <2>1. CASE k = 1 \/ k = 2 \/ k = 3 \/ k = 4 \/ k = 5
    BY <1>1, <2>1, Places
  <2>2. CASE n = 6 /\ k = 6
    BY <2>2, Places
  <2>3. CASE k = n + 1 \/ k = n + 2 \/ k = n + 3
    BY <1>2, <2>3, Places
  <2>4. CASE k = n + 4 \/ k = n + 5 \/ k = n + 6
    BY <1>2, <2>4, Places
  <2>5. QED
    BY <2>1, <2>2, <2>3, <2>4
<1>4. ASSUME NEW i \in 1 .. n + 6, NEW k \in 1 .. n + 6, s[i] = s[k]
      PROVE  i = k
  <2>1. (IF i <= n THEN i ELSE i + 6 - n) = (IF k <= n THEN k ELSE k + 6 - n)
    BY <1>3, <1>4
  <2>2. QED
    BY <2>1
<1>5. ASSUME NEW t \in Target \ {Policy}
      PROVE  \E k \in 1 .. n + 6 : s[k] = t
  <2>1. \/ t \in {s[1], s[2], s[3], s[4], s[5]}
        \/ t \in {s[n + 1], s[n + 2], s[n + 3], s[n + 4], s[n + 5], s[n + 6]}
    BY <1>1, <1>2 DEF Target, Roots, MetadataIn, Metadata
  <2>2. QED
    BY <2>1
<1>6. QED
  BY <1>4, <1>5 DEF Plan

\* MetadataOrder comes after whatever comes first.
LEMMA MetadataLast ==
  ASSUME NEW h \in Seq(Target)
  PROVE  /\ h \o MetadataOrder \in Seq(Target) /\ Len(h \o MetadataOrder) = Len(h) + 6
         /\ \A k \in 1 .. Len(h) : (h \o MetadataOrder)[k] = h[k]
         /\ \A k \in 1 .. 6 : (h \o MetadataOrder)[Len(h) + k] = MetadataOrder[k]
<1> DEFINE m == MetadataOrder
<1>1. MetadataIn("control") \cup MetadataIn("state") \subseteq Target
  BY Files
<1>2. m \in Seq(Target) /\ Len(m) = 6
  BY <1>1, MetadataOrdered
<1> HIDE DEF m
<1>3. /\ h \o m \in Seq(Target) /\ Len(h \o m) = Len(h) + Len(m)
      /\ \A i \in 1 .. Len(h) + Len(m) :
           (h \o m)[i] = IF i <= Len(h) THEN h[i] ELSE m[i - Len(h)]
  BY <1>2, ConcatProperties
<1>4. \A k \in 1 .. Len(h) : (h \o m)[k] = h[k]
  BY <1>2, <1>3
<1>5. ASSUME NEW k \in 1 .. 6
      PROVE  (h \o m)[Len(h) + k] = m[k]
  <2>1. /\ Len(h) + k \in 1 .. Len(h) + 6 /\ ~(Len(h) + k <= Len(h))
        /\ (Len(h) + k) - Len(h) = k
    OBVIOUS
  <2>2. QED
    BY <1>2, <1>3, <2>1
<1>6. QED
  BY <1>2, <1>3, <1>4, <1>5 DEF m

\* Whatever install.sh finds, it replaces each file at most once, and all but the policy.
LEMMA ReplacedIsPlan ==
  ASSUME NEW reset \in BOOLEAN
  PROVE  Plan(Replaced(reset)) /\ Len(Replaced(reset)) >= 1
<1>1. Heads \in Seq(Target) /\ Len(Heads) = 5
  BY Files DEF Heads
<1>2. Policy \in Target
  BY Files
<1>3. CASE reset \/ ~Present(Policy)
  <2> DEFINE q == <<Policy>>
             h == Heads \o q
  <2>1. q \in Seq(Target) /\ Len(q) = 1 /\ q[1] = Policy
    BY <1>2
  <2>2. /\ h \in Seq(Target) /\ Len(h) = 5 + 1
        /\ \A k \in 1 .. 5 + 1 : h[k] = IF k <= 5 THEN Heads[k] ELSE q[k - 5]
    <3> HIDE DEF q
    <3>1. /\ h \in Seq(Target) /\ Len(h) = Len(Heads) + Len(q)
          /\ \A k \in 1 .. Len(Heads) + Len(q) :
               h[k] = IF k <= Len(Heads) THEN Heads[k] ELSE q[k - Len(Heads)]
      BY <1>1, <2>1, ConcatProperties
    <3> HIDE DEF h
    <3>2. QED
      BY <1>1, <2>1, <3>1
  <2>3. Replaced(reset) = h \o MetadataOrder
    BY <1>3 DEF Replaced, Heads
  <2> HIDE DEF h, q
  <2>4. h[6] = Policy /\ \A k \in 1 .. 5 : h[k] = Heads[k]
    BY <2>1, <2>2
  <2> DEFINE s == h \o MetadataOrder
  <2>5. /\ s \in Seq(Target) /\ Len(s) = 6 + 6
        /\ \A k \in 1 .. 6 : s[k] = h[k]
        /\ \A k \in 1 .. 6 : s[6 + k] = MetadataOrder[k]
    <3>1. /\ s \in Seq(Target) /\ Len(s) = Len(h) + 6
          /\ \A k \in 1 .. Len(h) : s[k] = h[k]
          /\ \A k \in 1 .. 6 : s[Len(h) + k] = MetadataOrder[k]
      BY <2>2, MetadataLast
    <3>2. Len(h) = 6
      BY <2>2
    <3> HIDE DEF s
    <3>3. QED
      BY <3>1, <3>2
  <2> HIDE DEF s
  <2>6. (\A k \in 1 .. 5 : s[k] = Heads[k]) /\ s[6] = Policy
    BY <2>4, <2>5
  <2>7. Plan(s) /\ Len(s) >= 1
    BY <2>5, <2>6, ReplacedInOrder
  <2>8. QED
    BY <2>3, <2>7 DEF s
<1>4. CASE ~(reset \/ ~Present(Policy))
  <2>1. Replaced(reset) = (Heads \o <<>>) \o MetadataOrder
    BY <1>4 DEF Replaced, Heads
  <2>2. Replaced(reset) = Heads \o MetadataOrder
    BY <1>1, <2>1, ConcatEmptySeq
  <2> DEFINE s == Heads \o MetadataOrder
  <2>3. /\ s \in Seq(Target) /\ Len(s) = 5 + 6
        /\ \A k \in 1 .. 5 : s[k] = Heads[k]
        /\ \A k \in 1 .. 6 : s[5 + k] = MetadataOrder[k]
    <3>1. /\ s \in Seq(Target) /\ Len(s) = Len(Heads) + 6
          /\ \A k \in 1 .. Len(Heads) : s[k] = Heads[k]
          /\ \A k \in 1 .. 6 : s[Len(Heads) + k] = MetadataOrder[k]
      BY <1>1, MetadataLast
    <3>2. Len(Heads) = 5
      BY <1>1
    <3> HIDE DEF s
    <3>3. QED
      BY <3>1, <3>2
  <2> HIDE DEF s
  <2>4. Plan(s) /\ Len(s) >= 1
    BY <2>3, ReplacedInOrder
  <2>5. QED
    BY <2>2, <2>4 DEF s
<1>5. QED
  BY <1>3, <1>4

-----------------------------------------------------------------------------
(* Positions.                                                              *)

\* The plan is made at the start and forgotten at the end.
LEMMA InstallPlans ==
  ASSUME TypeInv, PlanInv, Install
  PROVE  PlanInv'
<1> USE DEF Installing, Uninstalling, Replacing, Committing, RollingBack, Removing, Final
<1>1. CASE StartInstall
  <2>1. PICK reset \in BOOLEAN : targets' = Replaced(reset)
    BY <1>1 DEF StartInstall
  <2>2. Plan(targets') /\ Len(targets') >= 1 /\ Len(targets') \in Nat
    BY <2>1, ReplacedIsPlan DEF Plan
  <2>3. pc = "idle" /\ pc' = "mktemp" /\ at' = at /\ committing' = FALSE
    BY <1>1 DEF StartInstall, Begin, Goto
  <2>4. at = 1
    BY <2>3 DEF PlanInv
  <2>5. QED
    BY <2>2, <2>3, <2>4 DEF PlanInv
<1>2. ASSUME pc \in Installing
      PROVE  Plan(targets) /\ Len(targets) \in Nat
  BY <1>2 DEF PlanInv, Plan
<1>3. CASE MakeTemporary \/ RecordTemporary \/ LogReplacement \/ BackUp \/ DoctorPasses \/ InstallFails
  <2>1. UNCHANGED <<targets, at>> /\ pc' \in Installing /\ pc' # "undo" /\ pc' # "restore"
        /\ pc \in Installing /\ pc # "undo"
    BY <1>3 DEF MakeTemporary, RecordTemporary, LogReplacement, BackUp, DoctorPasses, InstallFails,
                Goto, transaction
  <2>2. pc' \in Replacing => ~committing'
    BY <1>3 DEF PlanInv, MakeTemporary, RecordTemporary, LogReplacement, BackUp, DoctorPasses,
                InstallFails, Goto, transaction
  <2>3. pc' \in Committing => committing'
    BY <1>3 DEF MakeTemporary, RecordTemporary, LogReplacement, BackUp, DoctorPasses,
                InstallFails, Goto, transaction
  <2>4. QED
    BY <2>1, <2>2, <2>3 DEF PlanInv
<1>4. CASE Activate
  <2>1. pc = "activate" /\ UNCHANGED <<targets, committing>>
        /\ at' = (IF at < Len(targets) THEN at + 1 ELSE 1)
        /\ pc' = (IF at < Len(targets) THEN "mktemp" ELSE "doctor")
    BY <1>4 DEF Activate, Goto
  <2>2. at \in 1 .. Len(targets)
    BY <2>1 DEF PlanInv
  <2>3. QED
    BY <1>2, <2>1, <2>2 DEF PlanInv
<1>5. CASE RemoveBackup
  BY <1>2, <1>5 DEF PlanInv, RemoveBackup, Goto
<1>6. CASE End("succeeded") \/ End("failed")
  BY <1>6 DEF PlanInv, End, Goto
<1>7. CASE UndoTemporary
  <2>1. at \in 1 .. Len(targets)
    BY <1>7 DEF PlanInv, UndoTemporary
  <2>2. QED
    BY <1>2, <1>7, <2>1 DEF PlanInv, UndoTemporary, Goto
<1>8. CASE Undo /\ ~(at > Len(targets))
  <2>1. /\ pc = "undo" /\ UNCHANGED <<targets, temp, committing>>
        /\ \/ pc' = "restore" /\ at' = at
           \/ pc' = "undo" /\ at' = at + 1
    BY <1>8 DEF Undo, Goto
  <2>2. at \in 1 .. Len(targets)
    BY <1>2, <1>8, <2>1 DEF PlanInv
  <2>3. QED
    BY <1>2, <2>1, <2>2 DEF PlanInv
<1>9. CASE Restore
  <2>1. at \in 1 .. Len(targets)
    BY <1>9 DEF PlanInv, Restore
  <2>2. QED
    BY <1>2, <1>9, <2>1 DEF PlanInv, Restore, Goto
<1>10. QED
  BY <1>1, <1>3, <1>4, <1>5, <1>6, <1>7, <1>8, <1>9 DEF Install, EndTransaction, Undo

\* Otherwise there is no transaction.
LEMMA OtherPlans ==
  ASSUME TypeInv, PlanInv, Uninstall \/ Kill \/ Use \/ UNCHANGED vars
  PROVE  PlanInv'
<1> USE DEF Installing, Uninstalling, Replacing, Committing, RollingBack, Removing, Final
<1>1. CASE End("succeeded") \/ End("failed") \/ End("orphaned") \/ End("killed")
  BY <1>1 DEF PlanInv, End, Goto
<1>2. CASE UNCHANGED transaction /\ pc \notin Installing /\ pc' \notin Installing
  BY <1>2 DEF PlanInv, transaction
<1>3. CASE UNCHANGED vars
  BY <1>3 DEF PlanInv, Plan, vars, transaction
<1>4. Uninstall => \/ End("succeeded") \/ End("failed") \/ End("orphaned")
                   \/ UNCHANGED transaction /\ pc \notin Installing /\ pc' \notin Installing
  BY DEF Uninstall, StartUninstall, Begin, StageMarker, ActivateMarker, PurgeEntry, PurgeRoot,
         RemoveRuntimeMetadata, DataRemoved, RemoveProgram, RemoveControl, RemoveMarker,
         RemoveControlDirectory, UninstallInterrupted, UninstallFails, UninstallStops, Goto
<1>5. Use => UNCHANGED transaction /\ pc \notin Installing /\ pc' \notin Installing
  BY DEF Use
<1>6. Kill => End("killed")
  BY DEF Kill
<1>7. QED
  BY <1>1, <1>2, <1>3, <1>4, <1>5, <1>6

-----------------------------------------------------------------------------
(* Replacing the targets and rolling back.                                 *)

\* An installer's current target is at no other position.
LEMMA OtherPositions ==
  ASSUME PlanInv, pc \in Installing, pc # "undo" \/ ~(at > Len(targets))
  PROVE  /\ at \in 1 .. Len(targets) /\ Len(targets) \in Nat /\ Current \in Target
         /\ \A k \in 1 .. Len(targets) : targets[k] \in Target /\ (k # at => targets[k] # Current)
<1>1. at \in 1 .. Len(targets) /\ Len(targets) \in Nat /\ Current \in Target
  BY CurrentIsTarget
<1>2. targets \in Seq(Target) /\ \A i, k \in 1 .. Len(targets) : targets[i] = targets[k] => i = k
  BY DEF PlanInv, Plan
<1>3. ASSUME NEW k \in 1 .. Len(targets)
      PROVE  targets[k] \in Target /\ (k # at => targets[k] # Current)
  BY <1>1, <1>2 DEF Current
<1>4. QED
  BY <1>1, <1>3

\* Before the first replacement everything is as it was.
LEMMA StartKeepsTargets ==
  ASSUME TypeInv, JobInv, PlanInv, PlanInv', StartInstall
  PROVE  TargetInv' /\ StepInv'
<1>1. /\ pc = "idle" /\ pc' = "mktemp" /\ UNCHANGED <<file, at, temp, log, backup>>
      /\ before'.file = file
  BY Beginnings DEF StartInstall, Begin, InstallAccepted, Goto, files
<1>2. at' = 1 /\ log' = NoEntry /\ backup' = NoEntry
  BY <1>1 DEF PlanInv, Installing, Replacing, Committing, RollingBack
<1>3. \A t \in Target : log'[t] = "none" /\ backup'[t] = "none"
  BY <1>2, Contents
<1>4. TargetInv'
  BY <1>1, <1>3 DEF TargetInv, Behind, Recoverable
<1>5. \A k \in 1 .. Len(targets') : targets'[k] \in Target /\ ~(k < 1)
  BY <1>1 DEF PlanInv, Plan, Installing, Replacing, Committing
<1>6. StepInv'
  BY <1>1, <1>2, <1>3, <1>5 DEF StepInv, Replacement, Committing
<1>7. QED
  BY <1>4, <1>6

\* A replacement's file is no target.
LEMMA TemporaryKeepsTargets ==
  ASSUME TypeInv, InstallInv, MakeTemporary \/ RecordTemporary
  PROVE  TargetInv' /\ StepInv'
<1>1. /\ UNCHANGED <<file, targets, at, log, backup, committing, before, job>>
      /\ pc \in {"mktemp", "record"} /\ pc' \in {"record", "log"}
  BY DEF MakeTemporary, RecordTemporary, Goto, files, history
<1>2. TargetInv'
  BY <1>1 DEF InstallInv, TargetInv, Behind, Recoverable, Back, Installing, Replacing, Committing
<1>3. StepInv'
  BY <1>1 DEF InstallInv, StepInv, Replacement, New, Replacing, Committing
<1>4. QED
  BY <1>2, <1>3

\* rollback_file says what to do with a target before anything is done to it.
LEMMA LogKeepsTargets ==
  ASSUME TypeInv, InstallInv, LogReplacement
  PROVE  TargetInv' /\ StepInv'
<1>1. /\ UNCHANGED <<file, targets, at, backup, committing, before, job>> /\ pc = "log"
      /\ log' = [log EXCEPT ![Current] = IF Present(Current) THEN "existing" ELSE "new"]
      /\ pc' = IF Present(Current) THEN "backup" ELSE "activate"
  BY DEF LogReplacement, Goto, files, history
<1>2. /\ at \in 1 .. Len(targets) /\ Len(targets) \in Nat /\ Current \in Target
      /\ \A k \in 1 .. Len(targets) : targets[k] \in Target /\ (k # at => targets[k] # Current)
  BY <1>1, OtherPositions DEF InstallInv, Installing, Replacing, Committing
<1>3. /\ \A t \in Target \ {Current} : log'[t] = log[t]
      /\ log'[Current] = IF Present(Current) THEN "existing" ELSE "new"
  BY <1>1, <1>2 DEF TypeInv
<1>4. log[Current] = "none" /\ \A k \in 1 .. Len(targets) : k >= at => log[targets[k]] = "none"
  BY <1>1, <1>2 DEF InstallInv, StepInv, Current
<1>5. \A t \in Target : Recoverable(t)
  BY <1>1 DEF InstallInv, TargetInv, Behind, Installing, Replacing, Committing
<1>6. backup[Current] = "none" /\ file[Current] = before.file[Current]
  BY <1>2, <1>4, <1>5 DEF Recoverable
<1>7. ASSUME NEW t \in Target
      PROVE  Recoverable(t)'
  <2>1. CASE t = Current
    BY <1>1, <1>3, <1>6, <2>1 DEF Recoverable, Back, Present
  <2>2. CASE t # Current
    BY <1>1, <1>3, <1>5, <2>2 DEF Recoverable, Back
  <2>3. QED
    BY <2>1, <2>2
<1>8. TargetInv'
  <2>1. \A t \in Target : log'[t] # "none" => \E k \in 1 .. Len(targets) : targets[k] = t
    BY <1>1, <1>2, <1>3 DEF InstallInv, TargetInv, Current, Installing, Replacing, Committing
  <2>2. QED
    BY <1>1, <1>7, <2>1 DEF TargetInv, Behind
<1>9. StepInv'
  <2>1. \A k \in 1 .. Len(targets) : k > at => log'[targets[k]] = "none"
    BY <1>2, <1>3, <1>4
  <2>2. \A k \in 1 .. Len(targets) : k < at =>
          file[targets[k]] = New(targets[k]) /\ log'[targets[k]] # "none"
    BY <1>1, <1>2, <1>3 DEF InstallInv, StepInv, Replacement, Replacing, Committing
  <2>3. Current' = Current /\ log'[Current] # "none" /\ (pc' = "backup" => log'[Current] = "existing")
        /\ (pc' = "activate" => log'[Current] = "new")
    BY <1>1, <1>3 DEF Current
  <2>4. \A k \in 1 .. Len(targets) : New(targets[k])' = New(targets[k]) /\ (Replacement(k)' => k < at)
    BY <1>1 DEF New, Replacement, Committing
  <2>5. QED
    BY <1>1, <1>6, <2>1, <2>2, <2>3, <2>4 DEF StepInv
<1>10. QED
  BY <1>8, <1>9

\* A target is moved to its backup.
LEMMA BackUpKeepsTargets ==
  ASSUME TypeInv, InstallInv, BackUp
  PROVE  TargetInv' /\ StepInv'
<1>1. /\ UNCHANGED <<targets, at, log, committing, before, job>> /\ pc = "backup" /\ pc' = "activate"
      /\ file' = [file EXCEPT ![Current] = "none"]
      /\ backup' = [backup EXCEPT ![Current] = file[Current]]
  BY DEF BackUp, Put, Goto, history
<1>2. /\ at \in 1 .. Len(targets) /\ Len(targets) \in Nat /\ Current \in Target
      /\ \A k \in 1 .. Len(targets) : targets[k] \in Target /\ (k # at => targets[k] # Current)
  BY <1>1, OtherPositions DEF InstallInv, Installing, Replacing, Committing
<1>3. /\ \A t \in Target \ {Current} : file'[t] = file[t] /\ backup'[t] = backup[t]
      /\ backup'[Current] = file[Current]
  BY <1>1, <1>2 DEF TypeInv
<1>4. \A t \in Target : Recoverable(t)
  BY <1>1 DEF InstallInv, TargetInv, Behind, Installing, Replacing, Committing
<1>5. log[Current] = "existing" /\ backup[Current] = "none" /\ ~committing
  BY <1>1 DEF InstallInv, StepInv, PlanInv, Installing, Replacing, Committing
<1>6. file[Current] = before.file[Current] /\ before.file[Current] # "none"
  BY <1>2, <1>4, <1>5 DEF Recoverable, Back
<1>7. ASSUME NEW t \in Target
      PROVE  Recoverable(t)'
  <2>1. CASE t = Current
    BY <1>1, <1>3, <1>5, <1>6, <2>1 DEF Recoverable
  <2>2. CASE t # Current
    BY <1>1, <1>3, <1>4, <2>2 DEF Recoverable, Back
  <2>3. QED
    BY <2>1, <2>2
<1>8. TargetInv'
  BY <1>1, <1>7 DEF InstallInv, TargetInv, Behind, Installing, Replacing, Committing
<1>9. StepInv'
  <2>1. \A k \in 1 .. Len(targets) : k < at =>
          file'[targets[k]] = New(targets[k]) /\ log[targets[k]] # "none"
    BY <1>1, <1>2, <1>3 DEF InstallInv, StepInv, Replacement, Replacing, Committing
  <2>2. \A k \in 1 .. Len(targets) : New(targets[k])' = New(targets[k]) /\ (Replacement(k)' => k < at)
    BY <1>1 DEF New, Replacement, Committing
  <2>3. Current' = Current /\ backup'[Current] # "none"
    BY <1>1, <1>3, <1>6 DEF Current
  <2>4. \A k \in 1 .. Len(targets) : k > at => log[targets[k]] = "none"
    BY <1>1 DEF InstallInv, StepInv
  <2>5. QED
    BY <1>1, <1>5, <2>1, <2>2, <2>3, <2>4 DEF StepInv
<1>10. QED
  BY <1>8, <1>9

\* The replacement takes its place.
LEMMA ActivateKeepsTargets ==
  ASSUME TypeInv, InstallInv, Activate
  PROVE  TargetInv' /\ StepInv'
<1>1. /\ UNCHANGED <<targets, log, backup, committing, before, job>> /\ pc = "activate"
      /\ file' = [file EXCEPT ![Current] = New(Current)]
      /\ at' = (IF at < Len(targets) THEN at + 1 ELSE 1)
      /\ pc' = (IF at < Len(targets) THEN "mktemp" ELSE "doctor")
  BY DEF Activate, Put, Goto, history, New
<1>2. /\ at \in 1 .. Len(targets) /\ Len(targets) \in Nat /\ Current \in Target
      /\ \A k \in 1 .. Len(targets) : targets[k] \in Target /\ (k # at => targets[k] # Current)
  BY <1>1, OtherPositions DEF InstallInv, Installing, Replacing, Committing
<1>3. (\A t \in Target \ {Current} : file'[t] = file[t]) /\ file'[Current] = New(Current)
  BY <1>1, <1>2 DEF TypeInv
<1>4. \A t \in Target : Recoverable(t)
  BY <1>1 DEF InstallInv, TargetInv, Behind, Installing, Replacing, Committing
<1>5. log[Current] # "none" /\ (backup[Current] # "none" \/ log[Current] = "new")
  BY <1>1 DEF InstallInv, StepInv
<1>6. ASSUME NEW t \in Target
      PROVE  Recoverable(t)'
  <2>1. CASE t = Current
    BY <1>1, <1>2, <1>4, <1>5, <2>1 DEF Recoverable
  <2>2. CASE t # Current
    BY <1>1, <1>3, <1>4, <2>2 DEF Recoverable, Back
  <2>3. QED
    BY <2>1, <2>2
<1>7. TargetInv'
  BY <1>1, <1>6 DEF InstallInv, TargetInv, Behind, Installing, Replacing, Committing
<1>8. \A k \in 1 .. Len(targets) : k <= at =>
        file'[targets[k]] = New(targets[k]) /\ log[targets[k]] # "none"
  <2>1. ASSUME NEW k \in 1 .. Len(targets), k < at
        PROVE  file'[targets[k]] = New(targets[k]) /\ log[targets[k]] # "none"
    BY <1>1, <1>2, <1>3, <2>1 DEF InstallInv, StepInv, Replacement, Replacing, Committing
  <2>2. file'[targets[at]] = New(targets[at]) /\ log[targets[at]] # "none"
    BY <1>3, <1>5 DEF Current
  <2>3. QED
    BY <1>2, <2>1, <2>2
<1>9. StepInv'
  <2>1. \A k \in 1 .. Len(targets) : k > at => log[targets[k]] = "none"
    BY <1>1 DEF InstallInv, StepInv
  <2>2. \A k \in 1 .. Len(targets) : New(targets[k])' = New(targets[k]) /\ (Replacement(k)' => k <= at)
    BY <1>1, <1>2 DEF New, Replacement, Committing
  <2>3. \A k \in 1 .. Len(targets) : pc' = "mktemp" /\ k >= at' => k > at
    BY <1>1, <1>2
  <2>4. QED
    BY <1>1, <1>8, <2>1, <2>2, <2>3 DEF StepInv
<1>10. QED
  BY <1>7, <1>9

\* All targets are replaced when the launcher's doctor is content.
LEMMA DoctorKeepsTargets ==
  ASSUME TypeInv, InstallInv, DoctorPasses
  PROVE  TargetInv' /\ StepInv'
<1>1. /\ UNCHANGED <<file, targets, at, log, backup, before, job>> /\ pc = "doctor" /\ pc' = "commit"
      /\ committing' = TRUE
  BY DEF DoctorPasses, Goto, files, history
<1>2. \A t \in Target : Recoverable(t)
  BY <1>1 DEF InstallInv, TargetInv, Behind, Installing, Replacing, Committing
<1>3. ASSUME NEW t \in Target
      PROVE  Recoverable(t)'
  BY <1>1, <1>2 DEF Recoverable, Back
<1>4. TargetInv'
  BY <1>1, <1>3 DEF InstallInv, TargetInv, Behind, Installing, Replacing, Committing
<1>5. StepInv'
  BY <1>1 DEF InstallInv, StepInv, Replacement, New, Replacing, Committing
<1>6. QED
  BY <1>4, <1>5

\* Without its backup a target stays what it has become.
LEMMA CommitKeepsTargets ==
  ASSUME TypeInv, JobInv, InstallInv, RemoveBackup
  PROVE  TargetInv' /\ StepInv'
<1>1. /\ UNCHANGED <<file, targets, log, committing, before, job>>
      /\ pc = "commit" /\ pc' \in Committing
      /\ backup' = [backup EXCEPT ![Current] = "none"]
  BY DEF RemoveBackup, Goto, files, history, Committing
<1>2. /\ at \in 1 .. Len(targets) /\ Len(targets) \in Nat /\ Current \in Target
  BY <1>1, OtherPositions DEF InstallInv, Installing, Committing
<1>3. (\A t \in Target \ {Current} : backup'[t] = backup[t]) /\ backup'[Current] = "none"
  BY <1>1, <1>2 DEF TypeInv
<1>4. \A t \in Target : Recoverable(t)
  BY <1>1 DEF InstallInv, TargetInv, Behind, Installing, Committing
<1>5. \A k \in 1 .. Len(targets) : file[targets[k]] = New(targets[k]) /\ log[targets[k]] # "none"
  BY <1>1 DEF InstallInv, StepInv, Replacement, Committing
<1>6. file[Current] # "none" /\ log[Current] # "none" /\ committing
  <2>1. New(Current) # "none"
    BY <1>1, Contents DEF JobInv, New, Installing, Committing
  <2>2. QED
    BY <1>1, <1>2, <1>5, <2>1 DEF Current, InstallInv, PlanInv, Installing, Committing
<1>7. ASSUME NEW t \in Target
      PROVE  Recoverable(t)'
  <2>1. CASE t = Current
    BY <1>1, <1>3, <1>4, <1>6, <2>1 DEF Recoverable, Back
  <2>2. CASE t # Current
    BY <1>1, <1>3, <1>4, <2>2 DEF Recoverable, Back
  <2>3. QED
    BY <2>1, <2>2
<1>8. TargetInv'
  BY <1>1, <1>7 DEF InstallInv, TargetInv, Behind, Installing, Committing
<1>9. StepInv'
  BY <1>1, <1>5 DEF StepInv, New, Replacing, Committing
<1>10. QED
  BY <1>8, <1>9

\* Wherever it is interrupted, every target can be undone.
LEMMA FailureKeepsTargets ==
  ASSUME TypeInv, InstallInv, InstallFails \/ UndoTemporary
  PROVE  TargetInv' /\ StepInv'
<1>1. /\ UNCHANGED <<file, targets, log, backup, committing, before>>
      /\ pc \in Replacing \cup Committing \cup {"rollback"}
      /\ pc' = "rollback" \/ (pc' = "undo" /\ at' = 1)
  BY DEF InstallFails, UndoTemporary, Goto, files, transaction, history
<1>2. \A t \in Target : Recoverable(t)
  BY <1>1 DEF InstallInv, TargetInv, Behind, Installing, Replacing, Committing, RollingBack
<1>3. \A t \in Target : Recoverable(t)'
  BY <1>1, <1>2 DEF Recoverable, Back
<1>4. ~ \E k \in 1 .. Len(targets) : k < 1
  OBVIOUS
<1>5. \A t \in Target : ~Behind(t)'
  BY <1>1, <1>4 DEF Behind
<1>6. TargetInv'
  BY <1>1, <1>3, <1>5 DEF InstallInv, TargetInv, Installing, Replacing, Committing, RollingBack
<1>7. StepInv'
  BY <1>1 DEF StepInv, Replacing, Committing
<1>8. QED
  BY <1>6, <1>7

\* Rollback leaves the target behind it as it was, those before it as they are.
LEMMA UndoKeepsTargets ==
  ASSUME TypeInv, InstallInv, Undo, ~(at > Len(targets))
  PROVE  TargetInv' /\ StepInv'
<1>1. /\ UNCHANGED <<targets, log, backup, committing, before>> /\ pc = "undo"
      /\ file' = IF Undone(Current) THEN [file EXCEPT ![Current] = "none"] ELSE file
      /\ IF backup[Current] # "none" THEN pc' = "restore" /\ at' = at
         ELSE pc' = "undo" /\ at' = at + 1
  BY DEF Undo, Put, Goto, history
<1>2. /\ at \in 1 .. Len(targets) /\ Len(targets) \in Nat /\ Current \in Target
      /\ \A k \in 1 .. Len(targets) : targets[k] \in Target /\ (k # at => targets[k] # Current)
  BY <1>1, OtherPositions DEF InstallInv, Installing, RollingBack
<1>3. /\ \A t \in Target \ {Current} : file'[t] = file[t]
      /\ file'[Current] = IF Undone(Current) THEN "none" ELSE file[Current]
  BY <1>1, <1>2 DEF TypeInv
<1>4. Recoverable(Current)
  <2>1. ~Behind(Current)
    BY <1>2 DEF Behind
  <2>2. QED
    BY <1>1, <1>2, <2>1 DEF InstallInv, TargetInv, Installing, RollingBack
<1>5. ASSUME NEW t \in Target
      PROVE  IF Behind(t)' THEN Back(t)' ELSE Recoverable(t)'
  <2>1. CASE t = Current /\ backup[Current] # "none"
    <3>1. ~Behind(t)'
      BY <1>1, <1>2, <2>1 DEF Behind
    <3>2. Recoverable(t)'
      BY <1>1, <1>4, <2>1 DEF Recoverable
    <3>3. QED
      BY <3>1, <3>2
  <2>2. CASE t = Current /\ backup[Current] = "none"
    <3>1. Behind(t)'
      <4>1. at < at + 1 /\ targets[at] = t
        BY <1>2, <2>2 DEF Current
      <4>2. QED
        BY <1>1, <1>2, <2>2, <4>1 DEF Behind
    <3>2. Back(t)'
      BY <1>1, <1>3, <1>4, <2>2 DEF Recoverable, Back, Undone
    <3>3. QED
      BY <3>1, <3>2
  <2>3. CASE t # Current
    <3>1. Behind(t)' <=> Behind(t)
      <4>1. \A k \in 1 .. Len(targets) : targets[k] = t => (k < at + 1 <=> k < at)
        BY <1>2, <2>3 DEF Current
      <4>2. QED
        BY <1>1, <4>1 DEF Behind
    <3>2. IF Behind(t) THEN Back(t) ELSE Recoverable(t)
      BY <1>1 DEF InstallInv, TargetInv, Installing, RollingBack
    <3>3. QED
      BY <1>1, <1>3, <2>3, <3>1, <3>2 DEF Recoverable, Back
  <2>4. QED
    BY <2>1, <2>2, <2>3
<1>6. TargetInv'
  BY <1>1, <1>5 DEF InstallInv, TargetInv, Installing, RollingBack
<1>7. StepInv'
  <2>1. pc' = "restore" => backup[Current] # "none" /\ backup[Current] = before.file[Current]
                           /\ Current' = Current
    BY <1>1, <1>4 DEF Recoverable, Current
  <2>2. QED
    BY <1>1, <2>1 DEF StepInv, Replacing, Committing
<1>8. QED
  BY <1>6, <1>7

\* The backup takes its place again.
LEMMA RestoreKeepsTargets ==
  ASSUME TypeInv, InstallInv, Restore
  PROVE  TargetInv' /\ StepInv'
<1>1. /\ UNCHANGED <<targets, log, committing, before>> /\ pc = "restore" /\ pc' = "undo"
      /\ file' = [file EXCEPT ![Current] = backup[Current]]
      /\ backup' = [backup EXCEPT ![Current] = "none"] /\ at' = at + 1
  BY DEF Restore, Put, Goto, history
<1>2. /\ at \in 1 .. Len(targets) /\ Len(targets) \in Nat /\ Current \in Target
      /\ \A k \in 1 .. Len(targets) : targets[k] \in Target /\ (k # at => targets[k] # Current)
  BY <1>1, OtherPositions DEF InstallInv, Installing, RollingBack
<1>3. /\ \A t \in Target \ {Current} : file'[t] = file[t] /\ backup'[t] = backup[t]
      /\ file'[Current] = before.file[Current]
  BY <1>1, <1>2 DEF TypeInv, InstallInv, StepInv
<1>4. ASSUME NEW t \in Target
      PROVE  IF Behind(t)' THEN Back(t)' ELSE Recoverable(t)'
  <2>1. CASE t = Current
    <3>1. at < at + 1 /\ targets[at] = t
      BY <1>2, <2>1 DEF Current
    <3>2. Behind(t)'
      BY <1>1, <1>2, <3>1 DEF Behind
    <3>3. Back(t)'
      BY <1>1, <1>3, <2>1 DEF Back
    <3>4. QED
      BY <3>2, <3>3
  <2>2. CASE t # Current
    <3>1. \A k \in 1 .. Len(targets) : targets[k] = t => (k < at + 1 <=> k < at)
      BY <1>2, <2>2 DEF Current
    <3>2. Behind(t)' <=> Behind(t)
      BY <1>1, <3>1 DEF Behind
    <3>3. IF Behind(t) THEN Back(t) ELSE Recoverable(t)
      BY <1>1 DEF InstallInv, TargetInv, Installing, RollingBack
    <3>4. QED
      BY <1>1, <1>3, <2>2, <3>2, <3>3 DEF Recoverable, Back
  <2>3. QED
    BY <2>1, <2>2
<1>5. TargetInv'
  BY <1>1, <1>4 DEF InstallInv, TargetInv, Installing, RollingBack
<1>6. StepInv'
  BY <1>1 DEF StepInv, Replacing, Committing
<1>7. QED
  BY <1>5, <1>6

\* No transaction, no targets.
LEMMA OtherTargets ==
  ASSUME TypeInv, PlanInv, TargetInv, StepInv, pc' \notin Installing
  PROVE  TargetInv' /\ StepInv'
  BY DEF TargetInv, StepInv, Installing, Replacing, Committing, RollingBack

-----------------------------------------------------------------------------
(* Removing and using.                                                     *)

\* What is not there does not come back by a removal.
LEMMA RemovalShrinks ==
  ASSUME TypeInv, Removes
  PROVE  /\ \A t \in Target : file'[t] = file[t] \/ file'[t] = "none"
         /\ \A t \in Target : Present(t)' => Present(t)
         /\ \A dir \in Roots : Empty(dir) => Empty(dir)'
<1>1. \A t \in Target : file'[t] = file[t] \/ file'[t] = "none"
  BY DEF TypeInv, Removes, Put
<1>2. ASSUME NEW t \in Target
      PROVE  Present(t)' => Present(t)
  BY <1>1 DEF Present
<1>3. ASSUME NEW dir \in Roots, Empty(dir)
      PROVE  Empty(dir)'
  <2>1. Entries(dir)' \subseteq Entries(dir)
    BY <1>2 DEF Entries
  <2>2. Entries(dir)' = {} /\ ~ \E t \in strays' : t.dir = dir
    BY <1>3, <2>1 DEF Empty, Removes
  <2>3. dir = "state" => ~runs'
    BY <1>3 DEF Empty, Removes
  <2>4. QED
    BY <2>2, <2>3 DEF Empty
<1>4. QED
  BY <1>1, <1>2, <1>3

\* A removal leaves the sentinel of a root, unless it was all there was.
LEMMA RemovalKeepsRoots ==
  ASSUME TypeInv, NEW dir \in Roots,
         PurgeEntry \/ PurgeRoot \/ RemoveRuntimeMetadata \/ DataRemoved \/ RemoveProgram
           \/ RemoveControl,
         Present(Sentinel(dir)) \/ Empty(dir)
  PROVE  Present(Sentinel(dir))' \/ Empty(dir)'
<1>1. Removes /\ Sentinel(dir) \in Target /\ Sentinel(dir).dir = dir /\ Sentinel(dir).name = "sentinel"
  BY RemovalSteps, Files DEF Roots, Sentinel, At
<1>2. CASE Empty(dir)
  BY <1>1, <1>2, RemovalShrinks
<1>3. CASE Present(Sentinel(dir)) /\ file' = file
  BY <1>3 DEF Present
<1>4. CASE Present(Sentinel(dir)) /\ \E t \in Target \ {Sentinel(dir)} : Put(t, "none")
  BY <1>1, <1>4 DEF Present, Put, TypeInv
<1>5. CASE Present(Sentinel(dir)) /\ PurgeRoot
  <2>1. PICK d \in PurgedRoot :
          /\ Entries(d) = {Sentinel(d)} /\ ~ \E t \in strays : t.dir = d
          /\ d = "state" => ~runs
          /\ Put(Sentinel(d), "none") /\ UNCHANGED <<strays, runs>>
    BY <1>5 DEF PurgeRoot
  <2>2. CASE d = dir
    <3>1. \A t \in Target : t.dir = dir => file'[t] = "none"
      BY <1>1, <2>1, <2>2 DEF TypeInv, Entries, Present, Put
    <3>2. QED
      BY <2>1, <2>2, <3>1 DEF Empty, Entries, Present
  <2>3. CASE d # dir
    <3>1. Sentinel(d) # Sentinel(dir)
      BY <2>3 DEF Sentinel, At
    <3>2. QED
      BY <1>1, <1>5, <2>1, <3>1 DEF TypeInv, Present, Put
  <2>4. QED
    BY <2>2, <2>3
<1>6. ASSUME ~PurgeRoot
      PROVE  file' = file \/ \E t \in Target \ {Sentinel(dir)} : Put(t, "none")
  <2>1. CASE PurgeEntry
    <3>1. PICK d \in PurgedRoot :
            (\E t \in Purgeable(d) : Put(t, "none")) \/ UNCHANGED file
      BY <2>1 DEF PurgeEntry
    <3>2. Purgeable(d) \subseteq Target \ {Sentinel(dir)}
      BY <1>1 DEF Purgeable, Entries, Sentinel, At
    <3>3. QED
      BY <3>1, <3>2
  <2>2. CASE RemoveRuntimeMetadata
    BY <2>2, Files DEF RemoveRuntimeMetadata, Roots
  <2>3. CASE DataRemoved
    BY <2>3 DEF DataRemoved, files
  <2>4. CASE RemoveProgram
    BY <1>1, <2>4, Files DEF RemoveProgram, Roots
  <2>5. CASE RemoveControl
    BY <1>1, <2>5, Files DEF RemoveControl, Roots
  <2>6. QED
    BY <1>6, <2>1, <2>2, <2>3, <2>4, <2>5
<1>7. QED
  BY <1>2, <1>3, <1>4, <1>5, <1>6

\* A run, or an edited policy, is remembered as if it had been there before.
LEMMA UseEffects ==
  ASSUME TypeInv, Use
  PROVE  /\ pc = "idle" /\ UNCHANGED <<strays, marker, staged, pc, job, outcome, transaction, kills>>
         /\ \/ /\ LauncherAccepts /\ runs' = TRUE /\ before'.runs = TRUE
               /\ file' = file /\ before'.file = before.file
            \/ /\ runs' = runs /\ before'.runs = before.runs /\ Present(Policy)
               /\ file'[Policy] = "edited" /\ before'.file[Policy] = "edited"
               /\ \A t \in Target \ {Policy} : file'[t] = file[t] /\ before'.file[t] = before.file[t]
<1>1. Policy \in Target
  BY Files
<1>2. CASE LauncherAccepts /\ runs' = TRUE /\ before' = [before EXCEPT !.runs = TRUE] /\ UNCHANGED file
  BY <1>2 DEF Use, TypeInv, bounds
<1>3. CASE /\ file[Policy] \notin {"none", "edited"} /\ Put(Policy, "edited") /\ UNCHANGED runs
           /\ before' = [before EXCEPT !.file[Policy] = "edited"]
  <2>1. before' = [before EXCEPT !.file = [before.file EXCEPT ![Policy] = "edited"]]
    BY <1>3
  <2>2. /\ before'.runs = before.runs /\ before'.file[Policy] = "edited"
        /\ \A t \in Target \ {Policy} : before'.file[t] = before.file[t]
    BY <1>1, <2>1 DEF TypeInv
  <2>3. file'[Policy] = "edited" /\ \A t \in Target \ {Policy} : file'[t] = file[t]
    BY <1>1, <1>3 DEF TypeInv, Put
  <2>4. QED
    BY <1>3, <2>2, <2>3 DEF Use, Present, bounds
<1>4. QED
  BY <1>2, <1>3 DEF Use

-----------------------------------------------------------------------------
(* Retries.                                                                *)

\* An uninstall is in one mode, whether the marker says so yet or not.
LEMMA ModeOfUninstall ==
  ASSUME JobInv
  PROVE  /\ pc \in Uninstalling => Attempted /\ AttemptedMode = job.mode
         /\ pc \in Installing => ~Attempted
         /\ pc \notin Uninstalling /\ Attempted => marker # "none" /\ AttemptedMode = marker
  BY DEF JobInv, Attempted, AttemptedMode, Installing, Uninstalling, Replacing, Committing,
         RollingBack, Removing, Final, Mode

\* What the uninstaller checks when it starts is what a retry checks.
LEMMA StartKeepsRetry ==
  ASSUME TypeInv, JobInv, JobInv', RetryInv, StartUninstall
  PROVE  RetryInv'
<1>1. PICK mode \in Mode :
        /\ Begin([cmd |-> "uninstall", mode |-> mode]) /\ UninstallAccepted(mode)
        /\ Goto(IF marker = "none" THEN "stage" ELSE "remove")
        /\ UNCHANGED <<file, strays, runs, marker>>
  BY DEF StartUninstall
<1>2. /\ pc = "idle" /\ pc' \in Uninstalling /\ marker \in {"none", mode}
      /\ job' = [cmd |-> "uninstall", mode |-> mode]
  BY <1>1 DEF Begin, Goto, UninstallAccepted, Uninstalling, Removing
<1>3. AttemptedMode' = mode
  BY <1>1, <1>2 DEF AttemptedMode
<1>4. /\ ManifestValid("control")' /\ \A t \in strays' : t.dir # "control"
  BY <1>1 DEF UninstallAccepted, ManifestValid
<1>5. ASSUME mode = "purge", NEW dir \in Roots
      PROVE  Present(Sentinel(dir))' \/ Empty(dir)'
  <2>1. Present(Sentinel(dir)) \/ Empty(dir)
    BY <1>1, <1>5 DEF UninstallAccepted, PurgeAuthorised
  <2>2. QED
    BY <1>1, <2>1 DEF Present, Empty, Entries
<1>6. ASSUME mode = "preserve"
      PROVE  file'[Policy] = before'.file[Policy] /\ runs' = before'.runs
  <2>1. CASE marker = "none"
    BY <1>1, <2>1, Beginnings
  <2>2. CASE marker # "none"
    <3>1. Attempted /\ AttemptedMode = "preserve"
      BY <1>2, <1>6, <2>2 DEF Attempted, AttemptedMode
    <3>2. QED
      BY <1>1, <2>2, <3>1, Beginnings DEF RetryInv
  <2>3. QED
    BY <2>1, <2>2
<1>7. QED
  BY <1>3, <1>4, <1>5, <1>6 DEF RetryInv, Resumable

\* Steps that change no file.
LEMMA SameFilesKeepRetry ==
  ASSUME TypeInv, RetryInv, UNCHANGED <<file, strays, runs, before>>,
         Attempted' => Attempted /\ AttemptedMode' = AttemptedMode
  PROVE  RetryInv'
<1>1. ASSUME NEW dir \in Roots
      PROVE  (Present(Sentinel(dir)) \/ Empty(dir)) => (Present(Sentinel(dir))' \/ Empty(dir)')
  BY DEF Present, Empty, Entries
<1>2. (Present(Uninstaller)' => Present(Uninstaller))
      /\ (ManifestValid("control") => ManifestValid("control")')
  BY DEF Present, ManifestValid
<1>3. QED
  BY <1>1, <1>2 DEF RetryInv, Resumable

\* A removal takes nothing that a retry checks, as long as there can be one.
LEMMA RemovalKeepsRetry ==
  ASSUME TypeInv, JobInv, JobInv', RetryInv, RemovalInv,
         PurgeEntry \/ PurgeRoot \/ RemoveRuntimeMetadata \/ DataRemoved \/ RemoveProgram
           \/ RemoveControl
  PROVE  RetryInv'
<1>1. /\ pc \in Uninstalling /\ pc' \in Uninstalling /\ UNCHANGED <<marker, job, before>>
  BY DEF PurgeEntry, PurgeRoot, RemoveRuntimeMetadata, DataRemoved, RemoveProgram, RemoveControl,
         Goto, files, history, Uninstalling, Removing, Final
<1>2. Attempted /\ AttemptedMode' = AttemptedMode /\ AttemptedMode = job.mode /\ job.mode \in Mode
  BY <1>1, ModeOfUninstall DEF AttemptedMode, JobInv
<1>3. Removes
  BY RemovalSteps
<1>4. ASSUME Present(Uninstaller)'
      PROVE  Resumable'
  <2>1. Present(Uninstaller) /\ Resumable
    BY <1>2, <1>3, <1>4, RemovalShrinks, Files DEF RetryInv
  <2>2. \A t \in MetadataIn("control") : file'[t] = file[t]
    <3>1. ~RemoveControl
      BY <2>1 DEF RemovalInv, RemoveControl
    <3>2. CASE PurgeEntry
      <4>1. PICK d \in Roots : (\E t \in Entries(d) : Put(t, "none")) \/ UNCHANGED file
        BY <3>2 DEF PurgeEntry, Purgeable, PurgedRoot
      <4>2. \A t \in Entries(d) : t \in Target /\ t \notin MetadataIn("control")
        BY Files DEF Entries, Roots
      <4>3. QED
        BY <4>1, <4>2, Files DEF Put, TypeInv
    <3>3. CASE PurgeRoot
      BY <3>3, Files DEF PurgeRoot, PurgedRoot, Roots, Put, TypeInv
    <3>4. CASE RemoveRuntimeMetadata
      BY <3>4, Files DEF RemoveRuntimeMetadata, Put, TypeInv
    <3>5. CASE RemoveProgram
      BY <3>5, Files DEF RemoveProgram, Put, TypeInv
    <3>6. CASE DataRemoved
      BY <3>6 DEF DataRemoved, files
    <3>7. QED
      BY <3>1, <3>2, <3>3, <3>4, <3>5, <3>6
  <2>3. ManifestValid("control")'
    BY <2>1, <2>2 DEF Resumable, ManifestValid
  <2>4. \A t \in strays' : t.dir # "control"
    BY <1>3, <2>1 DEF Resumable, Removes
  <2>5. ASSUME AttemptedMode' = "purge", NEW dir \in Roots
        PROVE  Present(Sentinel(dir))' \/ Empty(dir)'
    BY <1>2, <2>1, <2>5, RemovalKeepsRoots DEF Resumable
  <2>6. QED
    BY <2>3, <2>4, <2>5 DEF Resumable
<1>5. ASSUME AttemptedMode' = "preserve"
      PROVE  file'[Policy] = before'.file[Policy] /\ runs' = before'.runs
  <2>1. file[Policy] = before.file[Policy] /\ runs = before.runs
    BY <1>2, <1>5 DEF RetryInv
  <2>2. ~PurgeEntry /\ ~PurgeRoot
    BY <1>2, <1>5 DEF PurgeEntry, PurgeRoot
  <2>3. file'[Policy] = file[Policy] /\ runs' = runs
    <3>1. CASE RemoveRuntimeMetadata
      BY <3>1, Files DEF RemoveRuntimeMetadata, Put, TypeInv
    <3>2. CASE RemoveProgram
      BY <3>2, Files DEF RemoveProgram, Put, TypeInv
    <3>3. CASE RemoveControl
      BY <3>3, Files DEF RemoveControl, Put, TypeInv
    <3>4. CASE DataRemoved
      BY <3>4 DEF DataRemoved, files
    <3>5. QED
      BY <2>2, <3>1, <3>2, <3>3, <3>4
  <2>4. QED
    BY <1>1, <2>1, <2>3
<1>6. QED
  BY <1>4, <1>5 DEF RetryInv

\* The launcher is content only with metadata in the state directory.
LEMMA AcceptedState ==
  ASSUME TypeInv, LauncherAccepts
  PROVE  \E t \in Target : t.dir = "state" /\ Present(t)
<1>1. PICK v \in Release : \A t \in MetadataIn("state") : file[t] = v
  BY DEF LauncherAccepts, MetadataMatches, ManifestValid
<1>2. At("state", "fields") \in MetadataIn("state") /\ At("state", "fields") \in Target
      /\ At("state", "fields").dir = "state"
  BY Files DEF MetadataIn, Metadata, At
<1>3. QED
  BY <1>1, <1>2, Contents DEF Present

\* A user between two attempts.
LEMMA UseKeepsRetry ==
  ASSUME TypeInv, JobInv, RetryInv, Use
  PROVE  RetryInv'
<1>1. /\ pc = "idle" /\ UNCHANGED <<strays, marker, pc, job>>
      /\ \/ /\ LauncherAccepts /\ runs' = TRUE /\ before'.runs = TRUE
            /\ file' = file /\ before'.file = before.file
         \/ /\ runs' = runs /\ before'.runs = before.runs /\ Present(Policy)
            /\ file'[Policy] = "edited" /\ before'.file[Policy] = "edited"
            /\ \A t \in Target \ {Policy} : file'[t] = file[t] /\ before'.file[t] = before.file[t]
  BY UseEffects
<1>2. Attempted' = Attempted /\ AttemptedMode' = AttemptedMode
  BY <1>1 DEF Attempted, AttemptedMode
<1>3. \A t \in Target \ {Policy} : file'[t] = file[t]
  BY <1>1
<1>4. ASSUME Attempted, Present(Uninstaller)'
      PROVE  Resumable'
  <2>1. Resumable
    BY <1>3, <1>4, Files DEF RetryInv, Present
  <2>2. ManifestValid("control")'
    BY <1>3, <2>1, Files DEF Resumable, ManifestValid
  <2>3. \A t \in strays' : t.dir # "control"
    BY <1>1, <2>1 DEF Resumable
  <2>4. ASSUME AttemptedMode' = "purge", NEW dir \in Roots
        PROVE  Present(Sentinel(dir))' \/ Empty(dir)'
    <3>1. Present(Sentinel(dir)) \/ Empty(dir)
      BY <1>2, <2>1, <2>4 DEF Resumable
    <3>2. Sentinel(dir) \in Target \ {Policy}
      BY Files DEF Roots, Sentinel, Policy, At
    <3>3. CASE Present(Sentinel(dir))
      BY <1>3, <3>2, <3>3 DEF Present
    <3>4. CASE Empty(dir) /\ dir = "config"
      BY <1>1, <3>4, Files DEF Empty, Entries, Present
    <3>5. CASE Empty(dir) /\ dir = "state"
      <4>1. ~LauncherAccepts
        BY <3>5, AcceptedState DEF Empty, Entries
      <4>2. \A t \in Target : t.dir = "state" => t # Policy
        BY Files
      <4>3. Entries("state")' = Entries("state")
        BY <1>3, <4>2 DEF Entries, Present
      <4>4. runs' = runs /\ strays' = strays
        BY <1>1, <4>1
      <4>5. QED
        BY <3>5, <4>3, <4>4 DEF Empty
    <3>6. QED
      BY <3>1, <3>3, <3>4, <3>5 DEF Roots
  <2>5. QED
    BY <2>2, <2>3, <2>4 DEF Resumable
<1>5. ASSUME Attempted, AttemptedMode = "preserve"
      PROVE  file'[Policy] = before'.file[Policy] /\ runs' = before'.runs
  <2>1. file[Policy] = before.file[Policy] /\ runs = before.runs
    BY <1>5 DEF RetryInv
  <2>2. QED
    BY <1>1, <2>1
<1>6. QED
  BY <1>2, <1>4, <1>5 DEF RetryInv

\* A killed uninstall leaves nothing beside the files; after an installer there is no retry.
LEMMA KillKeepsRetry ==
  ASSUME TypeInv, JobInv, JobInv', PlanInv, RetryInv, Kill
  PROVE  RetryInv'
<1>1. /\ pc # "idle" /\ pc' = "idle" /\ UNCHANGED <<file, runs, marker, job, before>>
      /\ strays' = strays \cup {t \in Target : backup[t] # "none"}
                     \cup (IF temp = "none" THEN {} ELSE {Current})
  BY DEF Kill, End, Goto, history
<1>2. CASE pc \in Installing
  <2>1. marker' = "none" /\ pc' \notin Uninstalling
    BY <1>1, <1>2 DEF JobInv, Uninstalling, Removing, Final
  <2>2. QED
    BY <2>1 DEF RetryInv, Attempted
<1>3. CASE pc \in Uninstalling
  <2>1. pc \notin Installing
    BY <1>3 DEF Installing, Uninstalling, Replacing, Committing, RollingBack, Removing, Final
  <2>2. temp = "none" /\ backup = NoEntry
    BY <2>1 DEF PlanInv
  <2>3. {t \in Target : backup[t] # "none"} = {}
    BY <2>2, Contents
  <2>4. strays' = strays
    BY <1>1, <2>2, <2>3
  <2>5. Attempted' => Attempted /\ AttemptedMode' = AttemptedMode
    BY <1>1, <1>3 DEF Attempted, AttemptedMode, Uninstalling, Removing, Final
  <2>6. QED
    BY <1>1, <2>4, <2>5, SameFilesKeepRetry
<1>4. QED
  BY <1>1, <1>2, <1>3 DEF TypeInv

\* An installer runs only when there is nothing to resume.
LEMMA InstallKeepsRetry ==
  ASSUME JobInv, JobInv', Install
  PROVE  RetryInv'
<1>1. pc' \in Installing \/ (pc' = "idle" /\ pc \in Installing /\ marker' = marker)
  BY DEF Install, StartInstall, MakeTemporary, RecordTemporary, LogReplacement, BackUp, Activate,
         DoctorPasses, RemoveBackup, EndTransaction, UndoTemporary,
         Undo, Restore, InstallFails, End, Goto, files,
         Installing, Replacing, Committing, RollingBack
<1>2. marker' = "none" /\ pc' \notin Uninstalling
  BY <1>1 DEF JobInv, Installing, Uninstalling, Replacing, Committing, RollingBack, Removing, Final
<1>3. QED
  BY <1>2 DEF RetryInv, Attempted

LEMMA UninstallKeepsRetry ==
  ASSUME TypeInv, JobInv, JobInv', RetryInv, RemovalInv, Uninstall
  PROVE  RetryInv'
<1>1. CASE StageMarker \/ ActivateMarker \/ RemoveMarker \/ RemoveControlDirectory
             \/ UninstallInterrupted \/ UninstallFails
  <2>1. /\ UNCHANGED <<file, strays, runs, before, job>> /\ pc \in Uninstalling
        /\ pc' \in Uninstalling \/ pc' = "idle"
    BY <1>1 DEF StageMarker, ActivateMarker, RemoveMarker, RemoveControlDirectory,
                UninstallInterrupted, UninstallFails, UninstallStops, End, Goto, files, history,
                Uninstalling, Removing, Final
  <2>2. pc' = "idle" => marker' = marker
    BY <1>1 DEF StageMarker, ActivateMarker, RemoveMarker, RemoveControlDirectory,
                UninstallInterrupted, UninstallFails, UninstallStops, End, Goto, files
  <2>3. Attempted' => Attempted /\ AttemptedMode' = AttemptedMode
    <3>1. Attempted /\ AttemptedMode = job.mode
      BY <2>1, ModeOfUninstall
    <3>2. CASE pc' \in Uninstalling
      BY <2>1, <3>1, <3>2 DEF JobInv, AttemptedMode
    <3>3. CASE pc' = "idle"
      BY <2>2, <3>1, <3>3 DEF Attempted, AttemptedMode, Uninstalling, Removing, Final
    <3>4. QED
      BY <2>1, <3>2, <3>3
  <2>4. QED
    BY <2>1, <2>3, SameFilesKeepRetry
<1>2. QED
  BY <1>1, StartKeepsRetry, RemovalKeepsRetry DEF Uninstall

-----------------------------------------------------------------------------
(* The order of the removals.                                              *)

\* Purging and removing metadata take no program file.
LEMMA DataRemovalKeepsProgram ==
  ASSUME TypeInv, PurgeEntry \/ PurgeRoot \/ RemoveRuntimeMetadata \/ RemoveControl
  PROVE  \A t \in {Launcher, Installer, Uninstaller} : file'[t] = file[t]
<1>1. CASE PurgeEntry
  <2>1. PICK d \in Roots : (\E t \in Entries(d) : Put(t, "none")) \/ UNCHANGED file
    BY <1>1 DEF PurgeEntry, Purgeable, PurgedRoot
  <2>2. \A t \in Entries(d) : t \notin {Launcher, Installer, Uninstaller}
    BY Files DEF Entries, Roots
  <2>3. QED
    BY <2>1, <2>2, Files DEF Put, TypeInv
<1>2. CASE PurgeRoot
  BY <1>2, Files DEF PurgeRoot, PurgedRoot, Roots, Put, TypeInv
<1>3. CASE RemoveRuntimeMetadata \/ RemoveControl
  BY <1>3, Files DEF RemoveRuntimeMetadata, RemoveControl, Put, TypeInv
<1>4. QED
  BY <1>1, <1>2, <1>3

LEMMA UninstallKeepsRemoval ==
  ASSUME TypeInv, JobInv, RemovalInv, Uninstall
  PROVE  RemovalInv'
<1> USE DEF Uninstalling, Removing, Final
<1>1. CASE StartUninstall
  <2>1. /\ pc' \in {"stage", "remove"} /\ Present(Uninstaller) /\ UNCHANGED file /\ staged' = FALSE
    BY <1>1 DEF StartUninstall, Begin, Goto, UninstallAccepted
  <2>2. QED
    BY <2>1 DEF RemovalInv, Present
<1>2. CASE StageMarker \/ ActivateMarker
  BY <1>2 DEF RemovalInv, StageMarker, ActivateMarker, Goto, Present
<1>3. CASE PurgeEntry \/ PurgeRoot \/ RemoveRuntimeMetadata
  <2>1. /\ pc = "remove" /\ pc' = "remove" /\ staged' = staged
        /\ file'[Uninstaller] = file[Uninstaller]
    BY <1>3, DataRemovalKeepsProgram DEF PurgeEntry, PurgeRoot, RemoveRuntimeMetadata
  <2>2. QED
    BY <2>1 DEF RemovalInv, Present
<1>4. CASE DataRemoved
  <2>1. /\ pc = "remove" /\ pc' = "launcher" /\ UNCHANGED <<file, strays, runs, staged, job>>
        /\ job.mode = "purge" => PurgedRoot = {}
    BY <1>4 DEF DataRemoved, Goto, files
  <2>2. job.mode = "purge" => Empty("config") /\ Empty("state")
    BY <2>1 DEF PurgedRoot, Roots
  <2>3. (Empty("config") => Empty("config")') /\ (Empty("state") => Empty("state")')
    BY <2>1 DEF Empty, Entries, Present
  <2>4. QED
    BY <2>1, <2>2, <2>3 DEF RemovalInv, Present
<1>5. CASE RemoveProgram \/ RemoveControl
  <2>1. /\ (Empty("config") => Empty("config")') /\ (Empty("state") => Empty("state")')
        /\ \A t \in {Launcher, Installer, Uninstaller} : Present(t)' => Present(t)
    BY <1>5, RemovalSteps, RemovalShrinks, Files DEF Roots
  <2>2. UNCHANGED <<staged, job>>
    BY <1>5 DEF RemoveProgram, RemoveControl
  <2>3. CASE RemoveControl
    <3>1. /\ pc = "control" /\ pc' \in {"control", "marker"}
          /\ pc' = "marker" => Entries("control") = {} /\ file' = file
      BY <2>3 DEF RemoveControl, Goto
    <3>2. pc' = "marker" => Entries("control")' = {}
      BY <3>1 DEF Entries, Present
    <3>3. QED
      BY <2>1, <2>2, <3>1, <3>2 DEF RemovalInv
  <2>4. CASE pc = "launcher" /\ Put(Launcher, "none") /\ Goto("installer")
    BY <2>1, <2>2, <2>4, Files DEF RemovalInv, Put, Goto, Present, TypeInv
  <2>5. CASE pc = "installer" /\ Put(Installer, "none") /\ Goto("uninstaller")
    BY <2>1, <2>2, <2>5, Files DEF RemovalInv, Put, Goto, Present, TypeInv
  <2>6. CASE pc = "uninstaller" /\ Put(Uninstaller, "none") /\ Goto("control")
    BY <2>1, <2>2, <2>6, Files DEF RemovalInv, Put, Goto, Present, TypeInv
  <2>7. QED
    BY <1>5, <2>3, <2>4, <2>5, <2>6 DEF RemoveProgram
<1>6. CASE RemoveMarker
  BY <1>6 DEF RemovalInv, RemoveMarker, Goto, Empty, Entries, Present
<1>7. CASE RemoveControlDirectory \/ UninstallInterrupted \/ UninstallFails
  BY <1>7 DEF RemovalInv, RemoveControlDirectory, UninstallInterrupted, UninstallFails,
              UninstallStops, End, Goto
<1>8. QED
  BY <1>1, <1>2, <1>3, <1>4, <1>5, <1>6, <1>7 DEF Uninstall

LEMMA OthersKeepRemoval ==
  ASSUME RemovalInv, TypeInv, Install \/ Kill \/ Use
  PROVE  RemovalInv'
<1>1. pc' \notin Uninstalling
  BY DEF Install, StartInstall, MakeTemporary, RecordTemporary, LogReplacement, BackUp, Activate,
         DoctorPasses, RemoveBackup, EndTransaction, UndoTemporary,
         Undo, Restore, InstallFails, Kill, Use,
         End, Goto, Uninstalling, Removing, Final
<1>2. QED
  BY <1>1 DEF RemovalInv, Uninstalling, Removing, Final

-----------------------------------------------------------------------------
(* Results.                                                                *)

\* No result while a command runs.
LEMMA RunningHasNotEnded ==
  ASSUME pc' # "idle"
  PROVE  EndedInv'
  BY DEF EndedInv, Ended, UninstallRemovesExactly

\* At the end of a rollback it has been at every target it logged.
LEMMA RolledBack ==
  ASSUME TypeInv, JobInv, InstallInv, Undo, at > Len(targets)
  PROVE  /\ pc = "undo" /\ pc' = "idle" /\ outcome' = "failed"
         /\ UNCHANGED <<file, runs, marker, job, committing, before, kills>>
         /\ \A t \in Target : Back(t)
<1>1. /\ pc = "undo" /\ pc' = "idle" /\ outcome' = "failed"
      /\ UNCHANGED <<file, runs, marker, job, committing, before, kills>>
  BY DEF Undo, End, Goto, history, bounds
<1>2. Len(targets) \in Nat /\ at \in 1 .. Len(targets) + 1
  BY <1>1 DEF InstallInv, PlanInv, Plan, Installing, RollingBack
<1>3. ASSUME NEW t \in Target
      PROVE  Back(t)
  <2>1. /\ IF Behind(t) THEN Back(t) ELSE Recoverable(t)
        /\ log[t] # "none" => \E k \in 1 .. Len(targets) : targets[k] = t
    BY <1>1 DEF InstallInv, TargetInv, Installing, RollingBack
  <2>2. CASE log[t] = "none"
    BY <2>1, <2>2 DEF Recoverable, Back
  <2>3. CASE log[t] # "none"
    <3>1. PICK k \in 1 .. Len(targets) : targets[k] = t
      BY <2>1, <2>3
    <3>2. k < at
      BY <1>2
    <3>3. Behind(t)
      BY <1>1, <3>1, <3>2 DEF Behind
    <3>4. QED
      BY <2>1, <3>3
  <2>4. QED
    BY <2>2, <2>3
<1>4. QED
  BY <1>1, <1>3

\* At the end of a transaction every target is new.
LEMMA Committed ==
  ASSUME TypeInv, JobInv, InstallInv, EndTransaction
  PROVE  /\ pc = "committed" /\ pc' = "idle" /\ outcome' = "succeeded"
         /\ UNCHANGED <<file, runs, marker, job, before, kills>>
         /\ \A t \in Target \ {Policy} : file[t] = New(t)
<1>1. /\ pc = "committed" /\ pc' = "idle" /\ outcome' = "succeeded"
      /\ UNCHANGED <<file, runs, marker, job, before, kills>>
  BY DEF EndTransaction, End, Goto, files, history, bounds
<1>2. /\ \A t \in Target \ {Policy} : \E k \in 1 .. Len(targets) : targets[k] = t
      /\ \A k \in 1 .. Len(targets) : file[targets[k]] = New(targets[k])
  BY <1>1 DEF InstallInv, PlanInv, Plan, StepInv, Replacement, Installing, Committing
<1>3. QED
  BY <1>1, <1>2

LEMMA InstallKeepsEnded ==
  ASSUME TypeInv, JobInv, InstallInv, Install
  PROVE  EndedInv'
<1>1. CASE Undo /\ at > Len(targets)
  <2>1. /\ pc = "undo" /\ pc' = "idle" /\ outcome' = "failed"
        /\ UNCHANGED <<file, job, committing, before>> /\ \A t \in Target : Back(t)
    BY <1>1, RolledBack
  <2>2. job.cmd = "install"
    BY <2>1 DEF JobInv, Installing, RollingBack
  <2>3. QED
    BY <2>1, <2>2 DEF EndedInv, Ended, UninstallRemovesExactly, Back
<1>2. CASE EndTransaction
  <2>1. /\ pc = "committed" /\ pc' = "idle" /\ outcome' = "succeeded"
        /\ UNCHANGED <<file, job>> /\ \A t \in Target \ {Policy} : file[t] = New(t)
    BY <1>2, Committed
  <2>2. job.cmd = "install"
    BY <2>1 DEF JobInv, Installing, Committing
  <2>3. QED
    BY <2>1, <2>2 DEF EndedInv, Ended, UninstallRemovesExactly, New
<1>3. CASE ~(Undo /\ at > Len(targets)) /\ ~EndTransaction
  <2>1. pc' # "idle"
    BY <1>3 DEF Install, StartInstall, MakeTemporary, RecordTemporary, LogReplacement, BackUp,
                Activate, DoctorPasses, RemoveBackup, EndTransaction, UndoTemporary,
                Undo, Restore, InstallFails,
                Goto
  <2>2. QED
    BY <2>1, RunningHasNotEnded
<1>4. QED
  BY <1>1, <1>2, <1>3

\* The marker is the last to go.
LEMMA UninstallKeepsEnded ==
  ASSUME TypeInv, JobInv, RetryInv, RemovalInv, Uninstall
  PROVE  EndedInv'
<1>1. CASE RemoveControlDirectory
  <2>1. /\ pc = "directory" /\ UNCHANGED <<file, strays, runs, marker, staged, job, before>>
    BY <1>1 DEF RemoveControlDirectory, files, history
  <2>2. /\ job.cmd = "uninstall" /\ marker = "none" /\ Attempted /\ AttemptedMode = job.mode
    BY <2>1, ModeOfUninstall DEF JobInv, Uninstalling, Final
  <2>3. /\ ~Present(Launcher) /\ ~Present(Installer) /\ ~Present(Uninstaller)
        /\ Entries("control") = {} /\ ~staged
        /\ job.mode = "purge" => Empty("config") /\ Empty("state")
    BY <2>1 DEF RemovalInv, Uninstalling, Removing, Final
  <2>4. Entries("bin") = {}
    BY <2>3, Files DEF Entries
  <2>5. Entries("bin")' = {} /\ Entries("control")' = {}
    BY <2>1, <2>3, <2>4 DEF Entries, Present
  <2>6. job.mode = "purge" => Empty("config")' /\ Empty("state")'
    BY <2>1, <2>3 DEF Empty, Entries, Present
  <2>7. job.mode = "preserve" => file[Policy] = before.file[Policy] /\ runs = before.runs
    BY <2>2 DEF RetryInv
  <2>8. UninstallRemovesExactly'
    BY <2>1, <2>2, <2>3, <2>5, <2>6, <2>7 DEF UninstallRemovesExactly
  <2>9. QED
    BY <2>1, <2>2, <2>8 DEF EndedInv, Ended
<1>2. CASE UninstallInterrupted \/ UninstallFails
  <2>1. job'.cmd = "uninstall" /\ outcome' \in {"failed", "orphaned"}
    BY <1>2 DEF UninstallInterrupted, UninstallFails, UninstallStops, End, JobInv, Uninstalling
  <2>2. QED
    BY <2>1 DEF EndedInv, Ended, UninstallRemovesExactly
<1>3. CASE ~RemoveControlDirectory /\ ~UninstallInterrupted /\ ~UninstallFails
  <2>1. pc' # "idle"
    BY <1>3 DEF Uninstall, StartUninstall, StageMarker, ActivateMarker, PurgeEntry, PurgeRoot,
                RemoveRuntimeMetadata, DataRemoved, RemoveProgram, RemoveControl, RemoveMarker,
                Goto
  <2>2. QED
    BY <2>1, RunningHasNotEnded
<1>4. QED
  BY <1>1, <1>2, <1>3

\* What a command left, a user changes only as if it had been so before.
LEMMA UseKeepsEnded ==
  ASSUME TypeInv, JobInv, EndedInv, Use
  PROVE  EndedInv'
<1>1. /\ pc = "idle" /\ UNCHANGED <<strays, marker, staged, pc, job, outcome, committing>>
      /\ \/ /\ LauncherAccepts /\ runs' = TRUE /\ before'.runs = TRUE
            /\ file' = file /\ before'.file = before.file
         \/ /\ runs' = runs /\ before'.runs = before.runs /\ Present(Policy)
            /\ file'[Policy] = "edited" /\ before'.file[Policy] = "edited"
            /\ \A t \in Target \ {Policy} : file'[t] = file[t] /\ before'.file[t] = before.file[t]
  BY UseEffects DEF transaction
<1>2. ASSUME Ended("install", "failed")
      PROVE  \A t \in Target : Back(t)'
  BY <1>1, <1>2, Contents DEF EndedInv, Back
<1>3. ASSUME Ended("install", "succeeded")
      PROVE  \A t \in Target \ {Policy} : file'[t] = New(t)'
  BY <1>1, <1>3 DEF EndedInv, New
<1>4. ASSUME Ended("uninstall", "succeeded")
      PROVE  UninstallRemovesExactly'
  <2>1. /\ Entries("bin") \cup Entries("control") = {}
        /\ marker = "none" /\ ~staged
        /\ job.mode = "purge" => Empty("config") /\ Empty("state")
        /\ job.mode = "preserve" => file[Policy] = before.file[Policy] /\ runs = before.runs
    BY <1>4 DEF EndedInv, UninstallRemovesExactly
  <2>2. ~LauncherAccepts
    BY <2>1, Files DEF LauncherAccepts, Entries
  <2>3. /\ runs' = runs /\ before'.runs = before.runs /\ Present(Policy)
        /\ file'[Policy] = before'.file[Policy]
        /\ \A t \in Target \ {Policy} : file'[t] = file[t]
    BY <1>1, <2>2
  <2>4. job.mode # "purge"
    BY <2>1, <2>3, Files DEF Empty, Entries
  <2>5. Entries("bin")' = Entries("bin") /\ Entries("control")' = Entries("control")
    <3>1. \A t \in Target : t.dir \in {"bin", "control"} => t # Policy
      BY Files DEF MetadataIn, Policy, At, Launcher, Installer, Uninstaller
    <3>2. QED
      BY <2>3, <3>1 DEF Entries, Present
  <2>6. QED
    BY <1>1, <2>1, <2>3, <2>4, <2>5 DEF UninstallRemovesExactly
<1>5. UninstallRemovesExactly'
  <2>1. CASE Ended("uninstall", "succeeded")
    BY <1>4, <2>1
  <2>2. CASE ~Ended("uninstall", "succeeded")
    BY <1>1, <2>2 DEF Ended, UninstallRemovesExactly
  <2>3. QED
    BY <2>1, <2>2
<1>6. QED
  BY <1>1, <1>2, <1>3, <1>5 DEF EndedInv, Ended

LEMMA KillKeepsEnded ==
  ASSUME Kill
  PROVE  EndedInv'
  BY DEF Kill, End, EndedInv, Ended, UninstallRemovesExactly

-----------------------------------------------------------------------------
(* Ways forward.                                                           *)

\* An installer guards the state directory, or leaves what guarded it.
LEMMA InstallKeepsForward ==
  ASSUME TypeInv, JobInv, JobInv', InstallInv, ForwardInv, Install
  PROVE  ForwardInv'
<1> USE DEF Installing, Replacing, Committing, RollingBack
<1>1. CASE StartInstall
  <2>1. /\ pc = "idle" /\ pc' = "mktemp" /\ UNCHANGED <<runs, kills>>
        /\ before'.file = file /\ before'.runs = runs
    BY <1>1, Beginnings DEF StartInstall, Begin, InstallAccepted, Goto, files, bounds
  <2>2. QED
    BY <2>1 DEF ForwardInv
<1>2. CASE Undo /\ at > Len(targets)
  <2>1. /\ pc = "undo" /\ pc' = "idle" /\ outcome' = "failed"
        /\ UNCHANGED <<file, runs, marker, before, kills>>
        /\ \A t \in Target : Back(t)
    BY <1>2, RolledBack
  <2>2. marker' = "none"
    BY <2>1 DEF JobInv
  <2>3. kills = 0 => Guarded(before.file, before.runs) /\ runs = before.runs
    BY <2>1 DEF ForwardInv
  <2>4. kills = 0 => Guarded(file, runs)
    BY <2>1, <2>3, Files DEF Guarded, Back
  <2>5. QED
    BY <2>1, <2>2, <2>4 DEF ForwardInv, Guarded
<1>3. CASE EndTransaction
  <2>1. /\ pc = "committed" /\ pc' = "idle" /\ outcome' = "succeeded"
        /\ UNCHANGED <<file, runs, marker, before, kills>>
        /\ \A t \in Target \ {Policy} : file[t] = New(t)
    BY <1>3, Committed
  <2>2. marker' = "none"
    BY <2>1 DEF JobInv
  <2>3. file[Sentinel("state")] = "owned"
    <3>1. Sentinel("state") \in Target \ {Policy} /\ Sentinel("state").name = "sentinel"
      BY Files DEF Sentinel, Policy, At
    <3>2. QED
      BY <2>1, <3>1 DEF New
  <2>4. Guarded(file, runs)
    BY <2>3 DEF Guarded
  <2>5. QED
    BY <2>1, <2>2, <2>4 DEF ForwardInv, Guarded
<1>4. CASE ~StartInstall /\ ~(Undo /\ at > Len(targets)) /\ ~EndTransaction
  <2>1. pc \in Installing /\ pc' \in Installing /\ UNCHANGED <<runs, before, kills>>
    BY <1>4 DEF Install, MakeTemporary, RecordTemporary, LogReplacement, BackUp, Activate,
                DoctorPasses, RemoveBackup, EndTransaction, UndoTemporary,
                Undo, Restore, InstallFails, Goto,
                files, history, bounds
  <2>2. QED
    BY <2>1 DEF ForwardInv
<1>5. QED
  BY <1>1, <1>2, <1>3, <1>4

\* The data goes before its sentinel, and the uninstaller after both.
LEMMA UninstallKeepsForward ==
  ASSUME TypeInv, JobInv, RemovalInv, ForwardInv, Uninstall
  PROVE  ForwardInv'
<1>1. /\ pc \notin Installing /\ pc' \notin Installing
      /\ kills' = kills
  BY DEF Uninstall, StartUninstall, Begin, StageMarker, ActivateMarker, PurgeEntry, PurgeRoot,
         RemoveRuntimeMetadata, DataRemoved, RemoveProgram, RemoveControl, RemoveMarker,
         RemoveControlDirectory, UninstallInterrupted, UninstallFails, UninstallStops, End, Goto,
         bounds, Installing, Replacing, Committing, RollingBack, Removing, Final
<1>2. CASE PurgeEntry \/ PurgeRoot \/ RemoveRuntimeMetadata \/ DataRemoved \/ RemoveProgram
             \/ RemoveControl
  <2>1. pc' # "idle"
    BY <1>2 DEF PurgeEntry, PurgeRoot, RemoveRuntimeMetadata, DataRemoved, RemoveProgram,
                RemoveControl, Goto
  <2>2. ASSUME Guarded(file, runs)
        PROVE  Guarded(file', runs')
    <3>1. Removes
      BY <1>2, RemovalSteps
    <3>2. CASE Present(Sentinel("state"))
      <4>1. Present(Sentinel("state"))' \/ Empty("state")'
        BY <1>2, <3>2, RemovalKeepsRoots DEF Roots
      <4>2. QED
        BY <4>1 DEF Present, Empty, Entries, Guarded
    <3>3. CASE ~Present(Sentinel("state"))
      <4>1. ~runs /\ \A t \in Target : t.dir = "state" => ~Present(t)
        BY <2>2, <3>3 DEF Guarded, Present
      <4>2. \A t \in Target : t.dir = "state" => ~Present(t)'
        BY <3>1, <4>1, RemovalShrinks
      <4>3. ~runs'
        BY <3>1, <4>1 DEF Removes
      <4>4. QED
        BY <4>2, <4>3 DEF Guarded, Present
    <3>4. QED
      BY <3>2, <3>3
  <2>3. QED
    BY <1>1, <2>1, <2>2 DEF ForwardInv
<1>3. CASE StartUninstall \/ StageMarker \/ ActivateMarker
  <2>1. UNCHANGED <<file, runs>> /\ pc' # "idle"
    BY <1>3 DEF StartUninstall, Begin, StageMarker, ActivateMarker, Goto
  <2>2. QED
    BY <1>1, <2>1 DEF ForwardInv
<1>4. CASE RemoveMarker
  <2>1. UNCHANGED <<file, runs>> /\ pc' # "idle"
    BY <1>4 DEF RemoveMarker, Goto
  <2>2. QED
    BY <1>1, <2>1 DEF ForwardInv
<1>5. CASE RemoveControlDirectory
  <2>1. UNCHANGED <<file, runs>> /\ marker' = "none" /\ outcome' = "succeeded"
    BY <1>5 DEF RemoveControlDirectory, End, files, JobInv, Uninstalling, Final
  <2>2. QED
    BY <1>1, <2>1 DEF ForwardInv
<1>6. CASE UninstallInterrupted \/ (UninstallFails /\ pc \in Removing \cup {"uninstaller"})
  <2>1. UNCHANGED <<file, runs>> /\ Present(Uninstaller) /\ outcome' = "failed"
    BY <1>6 DEF UninstallInterrupted, UninstallFails, UninstallStops, End, RemovalInv, Removing
  <2>2. QED
    BY <1>1, <2>1 DEF ForwardInv, Present
<1>7. CASE UninstallFails /\ pc \in {"control", "marker"}
  <2>1. /\ UNCHANGED <<file, runs, marker>> /\ ~Present(Uninstaller) /\ outcome' = "orphaned"
        /\ marker # "none"
    BY <1>7 DEF UninstallFails, UninstallStops, End, RemovalInv, JobInv, Uninstalling, Final, Mode
  <2>2. QED
    BY <1>1, <2>1 DEF ForwardInv, Present
<1>8. CASE UninstallFails /\ pc = "directory"
  <2>1. UNCHANGED <<file, runs>> /\ marker' = "none" /\ outcome' = "failed"
    BY <1>8 DEF UninstallFails, UninstallStops, End, JobInv, Uninstalling, Final
  <2>2. QED
    BY <1>1, <2>1 DEF ForwardInv
<1>9. QED
  BY <1>2, <1>3, <1>4, <1>5, <1>6, <1>7, <1>8 DEF Uninstall, UninstallFails, Final

\* A run needs a whole installation, so the state directory is guarded.
LEMMA UseKeepsForward ==
  ASSUME TypeInv, ForwardInv, Use
  PROVE  ForwardInv'
<1>1. /\ pc = "idle" /\ UNCHANGED <<marker, pc, outcome, kills>>
      /\ \/ LauncherAccepts /\ file' = file
         \/ runs' = runs /\ \A t \in Target \ {Policy} : file'[t] = file[t]
  BY UseEffects
<1>2. pc \notin Installing
  BY <1>1 DEF Installing, Replacing, Committing, RollingBack
<1>3. kills = 0 => Guarded(file, runs)
  BY <1>2 DEF ForwardInv
<1>4. kills = 0 => Guarded(file', runs')
  <2>1. CASE LauncherAccepts /\ file' = file
    BY <1>3, <2>1, AcceptedState DEF Guarded, Present
  <2>2. CASE runs' = runs /\ \A t \in Target \ {Policy} : file'[t] = file[t]
    <3>1. \A t \in Target : t.dir = "state" => file'[t] = file[t]
      BY <2>2, Files
    <3>2. Sentinel("state") \in Target /\ Sentinel("state").dir = "state"
      BY Files DEF Sentinel, At
    <3>3. QED
      BY <1>3, <2>2, <3>1, <3>2 DEF Guarded
  <2>3. QED
    BY <1>1, <2>1, <2>2
<1>5. Uninstaller \in Target \ {Policy}
  BY Files DEF Uninstaller, Policy, At
<1>6. Present(Uninstaller)' <=> Present(Uninstaller)
  BY <1>1, <1>5 DEF Present
<1>7. QED
  BY <1>1, <1>2, <1>4, <1>6 DEF ForwardInv

LEMMA KillKeepsForward ==
  ASSUME TypeInv, Kill
  PROVE  ForwardInv'
<1>1. kills' # 0 /\ outcome' = "killed"
  BY DEF TypeInv, Kill, End
<1>2. QED
  BY <1>1 DEF ForwardInv

-----------------------------------------------------------------------------
(* What holds in every reachable state.                                    *)

\* A step of the installer.
LEMMA InstallKeeps ==
  ASSUME IInv, Install
  PROVE  IInv'
<1>1. TypeInv /\ JobInv /\ InstallInv /\ PlanInv /\ RetryInv /\ RemovalInv /\ EndedInv /\ ForwardInv
  BY DEF IInv, InstallInv
<1>2. TypeInv' /\ JobInv' /\ PlanInv'
  BY <1>1, InstallTypes, InstallJobs, InstallPlans
<1>3. TargetInv' /\ StepInv'
  <2>1. CASE pc' \in Installing
    <3>1. Undo => ~(at > Len(targets))
      BY <2>1 DEF Undo, End, Goto, Installing, Replacing, Committing, RollingBack
    <3>2. ~EndTransaction
      BY <2>1 DEF EndTransaction, End, Goto, Installing, Replacing, Committing, RollingBack
    <3>3. QED
      BY <1>1, <1>2, <3>1, <3>2, StartKeepsTargets, TemporaryKeepsTargets, LogKeepsTargets,
         BackUpKeepsTargets, ActivateKeepsTargets, DoctorKeepsTargets, CommitKeepsTargets,
         FailureKeepsTargets, UndoKeepsTargets, RestoreKeepsTargets DEF Install
  <2>2. CASE pc' \notin Installing
    BY <1>1, <2>2, OtherTargets DEF InstallInv
  <2>3. QED
    BY <2>1, <2>2
<1>4. RetryInv' /\ RemovalInv' /\ EndedInv' /\ ForwardInv'
  BY <1>1, <1>2, InstallKeepsRetry, OthersKeepRemoval, InstallKeepsEnded, InstallKeepsForward
<1>5. QED
  BY <1>2, <1>3, <1>4 DEF IInv, InstallInv

\* A step of the uninstaller.
LEMMA UninstallKeeps ==
  ASSUME IInv, Uninstall
  PROVE  IInv'
<1>1. /\ TypeInv /\ JobInv /\ InstallInv /\ PlanInv /\ TargetInv /\ StepInv
      /\ RetryInv /\ RemovalInv /\ EndedInv /\ ForwardInv
  BY DEF IInv, InstallInv
<1>2. TypeInv' /\ JobInv' /\ PlanInv'
  BY <1>1, UninstallTypes, UninstallJobs, OtherPlans
<1>3. pc' \notin Installing
  BY DEF Uninstall, StartUninstall, Begin, StageMarker, ActivateMarker, PurgeEntry, PurgeRoot,
         RemoveRuntimeMetadata, DataRemoved, RemoveProgram, RemoveControl, RemoveMarker,
         RemoveControlDirectory, UninstallInterrupted, UninstallFails, UninstallStops, End, Goto,
         Installing, Replacing, Committing, RollingBack, Removing, Final
<1>4. TargetInv' /\ StepInv'
  BY <1>1, <1>3, OtherTargets
<1>5. RetryInv' /\ RemovalInv' /\ EndedInv' /\ ForwardInv'
  BY <1>1, <1>2, UninstallKeepsRetry, UninstallKeepsRemoval, UninstallKeepsEnded,
     UninstallKeepsForward
<1>6. QED
  BY <1>2, <1>4, <1>5 DEF IInv, InstallInv

\* A kill, and a user.
LEMMA OthersKeep ==
  ASSUME IInv, Kill \/ Use
  PROVE  IInv'
<1>1. /\ TypeInv /\ JobInv /\ InstallInv /\ PlanInv /\ TargetInv /\ StepInv
      /\ RetryInv /\ RemovalInv /\ EndedInv /\ ForwardInv
  BY DEF IInv, InstallInv
<1>2. TypeInv' /\ JobInv' /\ PlanInv'
  BY <1>1, KillTypes, UseTypes, OtherJobs, OtherPlans
<1>3. pc' \notin Installing
  BY DEF Kill, Use, End, Goto, Installing, Replacing, Committing, RollingBack
<1>4. TargetInv' /\ StepInv'
  BY <1>1, <1>3, OtherTargets
<1>5. RetryInv' /\ RemovalInv' /\ EndedInv' /\ ForwardInv'
  BY <1>1, <1>2, KillKeepsRetry, UseKeepsRetry, OthersKeepRemoval, KillKeepsEnded, UseKeepsEnded,
     KillKeepsForward, UseKeepsForward
<1>6. QED
  BY <1>2, <1>4, <1>5 DEF IInv, InstallInv

\* A stuttering step.
LEMMA StutterKeeps ==
  ASSUME IInv, UNCHANGED vars
  PROVE  IInv'
<1>1. /\ UNCHANGED <<file, strays, runs, marker, staged, pc, job, outcome>>
      /\ UNCHANGED <<targets, at, temp, log, backup, committing, before, kills>>
  BY DEF vars, files, transaction, history, bounds
<1>2. TypeInv' /\ JobInv'
  BY <1>1 DEF IInv, TypeInv, JobInv
<1>3. PlanInv' /\ StepInv'
  BY <1>1 DEF IInv, InstallInv, PlanInv, StepInv, Replacement, New, Current
<1>4. TargetInv'
  BY <1>1 DEF IInv, InstallInv, TargetInv, Behind, Back, Recoverable
<1>5. RemovalInv' /\ ForwardInv'
  BY <1>1 DEF IInv, RemovalInv, ForwardInv, Present, Empty, Entries
<1>6. RetryInv'
  <2>1. Attempted' = Attempted /\ AttemptedMode' = AttemptedMode
    BY <1>1 DEF Attempted, AttemptedMode
  <2>2. QED
    BY <1>1, <2>1, SameFilesKeepRetry DEF IInv
<1>7. EndedInv'
  BY <1>1 DEF IInv, EndedInv, Ended, Back, New, UninstallRemovesExactly, Entries, Present, Empty
<1>8. QED
  BY <1>2, <1>3, <1>4, <1>5, <1>6, <1>7 DEF IInv, InstallInv

\* Nothing is installed.
LEMMA InitIsFine ==
  ASSUME Init
  PROVE  IInv
<1> USE DEF Installing, Uninstalling, Replacing, Committing, RollingBack, Removing, Final
<1>1. file = NoEntry /\ pc = "idle" /\ marker = "none" /\ ~runs /\ outcome = "none" /\ job.cmd = "none"
  BY DEF Init
<1>2. TypeInv
  BY Contents DEF Init, TypeInv
<1>3. JobInv
  BY DEF Init, JobInv
<1>4. InstallInv
  BY DEF Init, InstallInv, PlanInv, TargetInv, StepInv
<1>5. RetryInv /\ RemovalInv
  BY <1>1 DEF RetryInv, RemovalInv, Attempted
<1>6. EndedInv
  BY <1>1 DEF EndedInv, Ended, UninstallRemovesExactly
<1>7. ForwardInv
  BY <1>1, Contents DEF ForwardInv, Guarded
<1>8. QED
  BY <1>2, <1>3, <1>4, <1>5, <1>6, <1>7 DEF IInv

\* The files, the commands and the marker agree in every reachable state.
LEMMA Invariance == Spec => []IInv
<1>1. Init => IInv
  BY InitIsFine
<1>2. IInv /\ [Next]_vars => IInv'
  BY InstallKeeps, UninstallKeeps, OthersKeep, StutterKeeps DEF Next
<1>3. QED
  BY <1>1, <1>2, PTL DEF Spec

-----------------------------------------------------------------------------
(* What the run checks.                                                    *)

(***************************************************************************)
(* rollback_transaction and the EXIT trap: an installer that fails before  *)
(* commit leaves each target as it found it, wherever it was.              *)
(***************************************************************************)
THEOREM RollbackIsExact == Spec => []RollbackRestores
<1>1. ASSUME IInv
      PROVE  RollbackRestores
  <2>1. ASSUME Ended("install", "failed"), ~committing
        PROVE  file = before.file
    <3>1. file \in [Target -> Content] /\ before.file \in [Target -> Content]
      BY <1>1 DEF IInv, TypeInv
    <3>2. \A t \in Target : file[t] = before.file[t]
      BY <1>1, <2>1 DEF IInv, EndedInv, Back
    <3>3. QED
      BY <3>1, <3>2
  <2>2. QED
    BY <2>1 DEF RollbackRestores
<1>2. QED
  BY <1>1, Invariance, PTL

(***************************************************************************)
(* replace_owned, file by file: when install.sh succeeds the program, its  *)
(* control and the runtime's metadata are of the release it was given, so  *)
(* that the launcher's validation accepts them.                            *)
(***************************************************************************)
THEOREM InstallationsAreWhole == Spec => []InstalledIsWhole
<1>1. ASSUME IInv
      PROVE  InstalledIsWhole
  <2>1. ASSUME Ended("install", "succeeded")
        PROVE  /\ LauncherAccepts
               /\ \A t \in {Launcher, Installer, Uninstaller} \cup MetadataIn("control") :
                    file[t] = job.release
    <3>1. /\ \A t \in Target \ {Policy} : file[t] = New(t)
          /\ job.release \in Release
      BY <1>1, <2>1 DEF IInv, EndedInv, JobInv, Ended
    <3>2. \A t \in {Launcher, Installer, Uninstaller} \cup MetadataIn("control")
                     \cup MetadataIn("state") :
            t \in Target \ {Policy} /\ t.name # "sentinel"
      BY DEF Target, Launcher, Installer, Uninstaller, Policy, MetadataIn, Metadata, At
    <3>3. \A t \in {Launcher, Installer, Uninstaller} \cup MetadataIn("control")
                     \cup MetadataIn("state") : file[t] = job.release
      BY <3>1, <3>2 DEF New
    <3>4. Present(Launcher)
      BY <3>1, <3>3, Contents DEF Present
    <3>5. ManifestValid("control") /\ ManifestValid("state")
      BY <3>1, <3>3 DEF ManifestValid
    <3>6. At("state", "ownership") \in MetadataIn("state")
          /\ At("control", "ownership") \in MetadataIn("control")
      BY DEF MetadataIn, Metadata
    <3>7. LauncherAccepts
      BY <3>3, <3>4, <3>5, <3>6 DEF LauncherAccepts, MetadataMatches
    <3>8. QED
      BY <3>3, <3>7
  <2>2. QED
    BY <2>1 DEF InstalledIsWhole
<1>2. QED
  BY <1>1, Invariance, PTL

(***************************************************************************)
(* The marker and the order of removal of uninstall.sh: a retry in the     *)
(* recorded mode passes every check, as long as there is an uninstaller    *)
(* to run, wherever signals, failures or kills stopped the attempts before *)
(* it and whatever the user did between them.                              *)
(***************************************************************************)
THEOREM RetriesAreAccepted == Spec => []RetryAccepted
<1>1. ASSUME IInv
      PROVE  RetryAccepted
  <2>1. ASSUME pc = "idle", marker # "none", Present(Uninstaller)
        PROVE  UninstallAccepted(marker)
    <3>1. Attempted /\ AttemptedMode = marker
      BY <2>1 DEF Attempted, AttemptedMode
    <3>2. Resumable
      BY <1>1, <2>1, <3>1 DEF IInv, RetryInv
    <3>3. marker = "purge" => PurgeAuthorised
      BY <3>1, <3>2 DEF Resumable, PurgeAuthorised
    <3>4. QED
      BY <2>1, <3>2, <3>3 DEF Resumable, UninstallAccepted, RuntimeChecked
  <2>2. QED
    BY <2>1 DEF RetryAccepted
<1>2. QED
  BY <1>1, Invariance, PTL

(***************************************************************************)
(* A completed uninstall, at whichever attempt: nothing of the program,    *)
(* and the user's data as the mode says.                                   *)
(***************************************************************************)
THEOREM RemovalsAreExact == Spec => []UninstallRemovesExactly
<1>1. IInv => UninstallRemovesExactly
  BY DEF IInv, EndedInv
<1>2. QED
  BY <1>1, Invariance, PTL

(***************************************************************************)
(* The order of removal and the traps of uninstall.sh, and the rollback of *)
(* install.sh: what is in the state directory is always under its          *)
(* sentinel, and an uninstall that a signal or a failing operation ends    *)
(* has kept its uninstaller or lost its marker, so that one of the two     *)
(* commands is accepted.  It has done neither exactly when an rm failed    *)
(* between the removal of the uninstaller and that of the marker, and then *)
(* both are refused.                                                       *)
(***************************************************************************)
THEOREM OnlyOrphansAreShutOut == Spec => []SomeWayForward
<1>1. ASSUME IInv, pc = "idle", kills = 0, \A t \in strays : t.dir = "bin", outcome # "orphaned"
      PROVE  WayForward
  <2>1. pc \notin Installing
    BY <1>1 DEF Installing, Replacing, Committing, RollingBack
  <2>2. Guarded(file, runs) /\ (marker # "none" => Present(Uninstaller))
    BY <1>1, <2>1 DEF IInv, ForwardInv
  <2>3. CASE marker = "none"
    <3>1. ~ \E t \in strays : t.dir = "config"
      BY <1>1
    <3>2. Empty("state") \/ Present(Sentinel("state"))
      <4>1. CASE runs \/ \E t \in Target : t.dir = "state" /\ Present(t)
        BY <2>2, <4>1 DEF Guarded, Present
      <4>2. CASE ~(runs \/ \E t \in Target : t.dir = "state" /\ Present(t))
        BY <1>1, <4>2 DEF Empty, Entries
      <4>3. QED
        BY <4>1, <4>2
    <3>3. QED
      BY <2>3, <3>1, <3>2 DEF InstallAccepted, WayForward
  <2>4. CASE marker # "none"
    <3>1. Attempted /\ AttemptedMode = marker /\ marker \in Mode
      BY <1>1, <2>4 DEF IInv, TypeInv, Attempted, AttemptedMode
    <3>2. Resumable
      BY <1>1, <2>2, <2>4, <3>1 DEF IInv, RetryInv
    <3>3. marker = "purge" => PurgeAuthorised
      BY <3>1, <3>2 DEF Resumable, PurgeAuthorised
    <3>4. UninstallAccepted(marker)
      BY <2>2, <2>4, <3>2, <3>3 DEF Resumable, UninstallAccepted, RuntimeChecked
    <3>5. QED
      BY <3>1, <3>4 DEF WayForward
  <2>5. QED
    BY <2>3, <2>4
<1>2. ASSUME IInv, pc = "idle", outcome = "orphaned"
      PROVE  ~WayForward
  <2>1. marker # "none" /\ ~Present(Uninstaller)
    BY <1>2 DEF IInv, ForwardInv
  <2>2. QED
    BY <2>1 DEF WayForward, InstallAccepted, UninstallAccepted
<1>3. IInv => SomeWayForward
  BY <1>1, <1>2 DEF SomeWayForward
<1>4. QED
  BY <1>3, Invariance, PTL
=============================================================================
