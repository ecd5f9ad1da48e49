---------------------------- MODULE InstalledFiles ----------------------------
(***************************************************************************)
(* What a POSIX installation of GoalRouter owns on disk, and what its      *)
(* launcher, installer and uninstaller take for a valid installation.      *)
(* The content of a file is the release it was written from; all files of  *)
(* one release that ownership.sha256 hashes count as one field.  A         *)
(* directory is there as long as it holds something.                       *)
(***************************************************************************)
EXTENDS Naturals, Sequences, FiniteSets

CONSTANTS Release

ASSUME ReleaseAssumption ==
  Release # {} /\ Release \cap {"none", "owned", "edited"} = {}

VARIABLES
  file,     \* the content of each owned file
  strays,   \* owned files beside which a replacement or a backup was left
  runs,     \* are there run directories in the state directory?
  marker,   \* the mode in .uninstalling
  staged    \* is there a staged .uninstalling.XXXXXXXX?

files == <<file, strays, runs, marker, staged>>

At(dir, name) == [dir |-> dir, name |-> name]

Metadata  == {"fields", "ownership", "install"}
Launcher    == At("bin", "launcher")
Installer   == At("bin", "installer")
Uninstaller == At("bin", "uninstaller")
Policy      == At("config", "policy")
Sentinel(dir) == At(dir, "sentinel")
MetadataIn(dir) == {At(dir, name) : name \in Metadata}

Roots == {"config", "state"}

Target ==
  {Launcher, Installer, Uninstaller, Policy} \cup {Sentinel(dir) : dir \in Roots}
    \cup MetadataIn("control") \cup MetadataIn("state")

Content == Release \cup {"none", "owned", "edited"}
Mode == {"preserve", "purge"}

Present(t) == file[t] # "none"
Entries(dir) == {t \in Target : t.dir = dir /\ Present(t)}
Empty(dir) ==
  /\ Entries(dir) = {}
  /\ ~ \E t \in strays : t.dir = dir
  /\ dir = "state" => ~runs

\* sha256sum -c of a directory's ownership manifest.
ManifestValid(dir) == \E v \in Release : \A t \in MetadataIn(dir) : file[t] = v

\* The runtime's metadata is the same as the trusted control's.
MetadataMatches ==
  /\ ManifestValid("state")
  /\ file[At("state", "ownership")] = file[At("control", "ownership")]

\* validate_trusted_control and validate_installed_metadata of the launcher.
LauncherAccepts == Present(Launcher) /\ ManifestValid("control") /\ MetadataMatches

\* The uninstaller compares the runtime's metadata unless it resumes.
RuntimeChecked == marker = "none" => MetadataMatches /\ ~Empty("config")

\* A purge wants each root's sentinel; a resumed one accepts an empty root.
PurgeAuthorised ==
  \A dir \in Roots : Present(Sentinel(dir)) \/ (marker = "purge" /\ Empty(dir))

\* Mutant of UninstallAccepted: a retry may use the other mode.
UninstallAcceptedAnyMode(mode) ==
  /\ Present(Uninstaller)
  /\ ManifestValid("control")
  /\ ~ \E t \in strays : t.dir = "control"
  /\ RuntimeChecked
  /\ mode = "purge" => PurgeAuthorised

\* The checks of uninstall.sh before it removes anything.
UninstallAccepted(mode) ==
  /\ Present(Uninstaller)
  /\ ManifestValid("control")
  /\ ~ \E t \in strays : t.dir = "control"
  /\ marker \in {"none", mode}
  /\ RuntimeChecked
  /\ mode = "purge" => PurgeAuthorised

\* The checks of install.sh before it downloads anything.
InstallAccepted(force) ==
  LET installed == \E t \in MetadataIn("state") : Present(t) IN
  /\ marker = "none"
  /\ installed => ManifestValid("state") \/ force
  /\ ~installed =>
       /\ ~ \E t \in strays : t.dir = "config"
       /\ Empty("state") \/ Present(Sentinel("state"))
=============================================================================
