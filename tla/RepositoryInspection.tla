------------------------- MODULE RepositoryInspection -------------------------
(***************************************************************************)
(* LocalRepositoryInspector.inspect while somebody else edits the          *)
(* repository: the inspector pins the worktree root and the index, reads   *)
(* Git's metadata with concurrent subprocesses, compares the worktree with *)
(* the index batch by batch, and rejects what changed under it.  A         *)
(* fingerprint (inode, mode, size, mtime, ctime) is the time of the last   *)
(* change: distinct changes are assumed to leave distinct fingerprints.    *)
(***************************************************************************)
EXTENDS Naturals, FiniteSets

CONSTANTS
  Path,       \* the paths of the repository
  Nested,     \* those below a directory of their own, the others are in the root
  Skippable,  \* those whose index entry may be skip-worktree (tag S)
  File, Link, \* contents of regular files and symbolic links
  Absent,     \* no such entry
  Unmerged,   \* an index entry in several stages (tag M)
  None,
  BatchMax,   \* _BLOB_HASH_BATCH_MAX
  MaxEdits    \* bound on the edits

ASSUME ValueAssumption ==
  /\ Absent \notin File \cup Link \cup {Unmerged, None}
  /\ Unmerged \notin File \cup Link \cup {None}
  /\ None \notin Nat \cup File \cup Link
  /\ File \cap Link = {}
ASSUME PathAssumption == Nested \subseteq Path /\ Skippable \subseteq Path
ASSUME BatchAssumption == BatchMax \in Nat \ {0}

VARIABLES
  skipped,             \* the paths that are skip-worktree
  tree, index, work,   \* the entry of each path in HEAD, in the index, on disk
  clock,               \* number of edits so far
  touched,             \* the time of the last change of each worktree entry
  rootTouched,         \* of the root directory's list of entries
  indexTouched,        \* of the index file
  pc,
  pins,                \* fingerprints of root and index
  metadata,            \* what each Git command reported
  queue, batch,        \* index entries to compare, and those under comparison
  opened, digest,      \* fingerprint and object id of each entry under comparison
  dirty,               \* the dirty paths found so far
  agreed, committed, differed   \* history: see Observe

repository == <<skipped, tree, index, work, clock, touched, rootTouched, indexTouched>>
findings   == <<queue, batch, opened, digest, dirty>>
inspector  == <<pc, pins, metadata, findings>>
history    == <<agreed, committed, differed>>
vars == <<repository, inspector, history>>

Content == File \cup Link
Command == {"index", "head", "untracked"}

\* A regular file or a link is compared only with an entry of its own kind.
SameKind(c, d) == {c, d} \subseteq File \/ {c, d} \subseteq Link

\* A clean repository: the editor starts from it, before the pins or after.
Init ==
  /\ skipped \in SUBSET Skippable
  /\ tree \in [Path -> Content \cup {Absent}]
  /\ index = tree
  /\ work = tree
  /\ clock = 0
  /\ touched = [p \in Path |-> 0]
  /\ rootTouched = 0
  /\ indexTouched = 0
  /\ pc = "pin_root"
  /\ pins = [root |-> None, index |-> None]
  /\ metadata = [c \in Command |-> None]
  /\ queue = {}
  /\ batch = {}
  /\ opened = [p \in Path |-> None]
  /\ digest = [p \in Path |-> None]
  /\ dirty = {}
  /\ agreed = {}
  /\ committed = {}
  /\ differed = {}

-----------------------------------------------------------------------------
(* The editor.                                                             *)

Tick == clock < MaxEdits /\ clock' = clock + 1

\* An entry is created, removed or replaced: its directory changes too.
Replace(p, c) ==
  /\ Tick
  /\ c # work[p]
  /\ work' = [work EXCEPT ![p] = c]
  /\ touched' = [touched EXCEPT ![p] = clock']
  /\ rootTouched' = IF p \in Nested THEN rootTouched ELSE clock'
  /\ UNCHANGED <<tree, index, indexTouched>>

\* A regular file is overwritten in place.
Overwrite(p, c) ==
  /\ Tick
  /\ SameKind(work[p], c) /\ c \in File \ {work[p]}
  /\ work' = [work EXCEPT ![p] = c]
  /\ touched' = [touched EXCEPT ![p] = clock']
  /\ UNCHANGED <<tree, index, rootTouched, indexTouched>>

\* git add, git rm --cached or a conflicting merge replaces the index file.
Stage(p, c) ==
  /\ Tick
  /\ c # index[p]
  /\ index' = [index EXCEPT ![p] = c]
  /\ indexTouched' = clock'
  /\ UNCHANGED <<tree, work, touched, rootTouched>>

\* git commit or git reset --soft: HEAD moves, the index stays.
MoveHead(p, c) ==
  /\ Tick
  /\ c # tree[p]
  /\ tree' = [tree EXCEPT ![p] = c]
  /\ UNCHANGED <<index, work, touched, rootTouched, indexTouched>>

Edit ==
  /\ \E p \in Path :
       \/ \E c \in Content \cup {Absent} : Replace(p, c) \/ MoveHead(p, c)
       \/ \E c \in Content : Overwrite(p, c)
       \/ \E c \in Content \cup {Absent, Unmerged} : Stage(p, c)
  /\ UNCHANGED <<skipped, inspector>>

-----------------------------------------------------------------------------
(* The inspector.                                                          *)

Goto(to) == pc' = to

PinRoot ==
  /\ pc = "pin_root"
  /\ pins' = [pins EXCEPT !.root = rootTouched]
  /\ Goto("pin_index")
  /\ UNCHANGED <<repository, metadata, findings>>

PinIndex ==
  /\ pc = "pin_index"
  /\ pins' = [pins EXCEPT !.index = indexTouched]
  /\ Goto("git")
  /\ UNCHANGED <<repository, metadata, findings>>

(***************************************************************************)
(* git ls-files --others --exclude-standard (repository.py:593).  A Path   *)
(* is one that no ignore file excludes: ignored entries are not told from  *)
(* no entry, and an edit of .gitignore or .git/info/exclude is no step.    *)
(***************************************************************************)
Untracked == {p \in Path : index[p] = Absent /\ work[p] # Absent}

\* The commands of the task group end in any order; each reads at its own time.
GitReads(c) ==
  /\ pc = "git"
  /\ metadata[c] = None
  /\ metadata' = [metadata EXCEPT ![c] = CASE c = "index" -> index
                                           [] c = "head" -> tree
                                           [] c = "untracked" -> Untracked]
  /\ UNCHANGED <<repository, pc, pins, findings>>

Entry(p) == metadata["index"][p]

(***************************************************************************)
(* _collect_dirty_paths: untracked paths are dirty, and so are entries     *)
(* that HEAD and the index do not share.  Every staged entry that is not   *)
(* skip-worktree is then compared with the worktree.                       *)
(***************************************************************************)
CollectDirtyPaths ==
  /\ pc = "git"
  /\ \A c \in Command : metadata[c] # None
  /\ dirty' = metadata["untracked"] \cup {p \in Path : Entry(p) # metadata["head"][p]}
  /\ queue' = {p \in Path \ skipped : Entry(p) \in Content}
  /\ Goto("batch")
  /\ UNCHANGED <<repository, pins, metadata, batch, opened, digest>>

NextBatch ==
  /\ pc = "batch"
  /\ IF queue = {}
       THEN Goto("check_root") /\ UNCHANGED <<queue, batch>>
       ELSE \E b \in SUBSET queue :
              /\ Cardinality(b) = BatchMax \/ (b = queue /\ Cardinality(b) < BatchMax)
              /\ batch' = b
              /\ queue' = queue \ b
              /\ Goto("open")
  /\ UNCHANGED <<repository, pins, metadata, opened, digest, dirty>>

\* What opening decided is compared first, then the regular files are hashed.
AfterOpening(rest, digests) ==
  CASE rest = {} -> "batch"
    [] \E p \in rest : digests[p] # None -> "compare"
    [] OTHER -> "hash"

\* _open_worktree_entry: a link is read at once, a regular file only opened.
Open(p) ==
  /\ pc = "open"
  /\ p \in batch /\ opened[p] = None
  /\ opened' = [opened EXCEPT ![p] = touched[p]]
  /\ digest' = [digest EXCEPT ![p] =
       CASE ~SameKind(work[p], Entry(p)) -> Absent
         [] work[p] \in Link -> work[p]
         [] OTHER -> None]
  /\ Goto(IF \A q \in batch \ {p} : opened[q] # None THEN AfterOpening(batch, digest') ELSE "open")
  /\ UNCHANGED <<repository, pins, metadata, queue, batch, dirty>>

\* The helper hashes a descriptor; a file that is written meanwhile may
\* yield any mixture of its contents.
Hash(p) ==
  /\ pc = "hash"
  /\ p \in batch /\ digest[p] = None
  /\ \E c \in IF touched[p] = opened[p] THEN {work[p]} ELSE Content :
       digest' = [digest EXCEPT ![p] = c]
  /\ UNCHANGED <<repository, pc, pins, metadata, queue, batch, opened, dirty>>

Hashed == \A p \in batch : digest[p] # None

Close(paths) ==
  /\ opened' = [p \in Path |-> IF p \in paths THEN None ELSE opened[p]]
  /\ digest' = [p \in Path |-> IF p \in paths THEN None ELSE digest[p]]

Fail ==
  /\ Goto("failed")
  /\ Close(batch)
  /\ UNCHANGED <<queue, batch, dirty>>

\* Mutant of Validated: the entry was closed without a second look.
ValidatedBlindly(p) == opened[p] # None

\* _validate_opened_worktree_entry: the entry is still what was opened.
Validated(p) == touched[p] = opened[p]

(***************************************************************************)
(* The entries are validated and compared one by one: entries of another   *)
(* kind and links before anything is hashed, regular files after all are.  *)
(***************************************************************************)
Compare(p) ==
  /\ p \in batch
  /\ (pc = "compare" /\ digest[p] # None) \/ (pc = "hash" /\ Hashed)
  /\ IF Validated(p)
       THEN /\ dirty' = IF digest[p] = Entry(p) THEN dirty ELSE dirty \cup {p}
            /\ batch' = batch \ {p}
            /\ Close({p})
            /\ Goto(IF pc = "hash" /\ batch' # {} THEN "hash"
                    ELSE AfterOpening(batch', digest))
            /\ UNCHANGED queue
       ELSE Fail
  /\ UNCHANGED <<repository, pins, metadata>>

\* Mutant of CheckRoot: the root is not looked at again.
CheckRootNever ==
  /\ pc = "check_root"
  /\ Goto("check_index")
  /\ UNCHANGED <<repository, pins, metadata, findings>>

CheckRoot ==
  /\ pc = "check_root"
  /\ Goto(IF rootTouched = pins.root THEN "check_index" ELSE "failed")
  /\ UNCHANGED <<repository, pins, metadata, findings>>

\* Mutant of CheckIndex: the index is not looked at again.
CheckIndexNever ==
  /\ pc = "check_index"
  /\ Goto("returned")
  /\ UNCHANGED <<repository, pins, metadata, findings>>

CheckIndex ==
  /\ pc = "check_index"
  /\ Goto(IF indexTouched = pins.index THEN "returned" ELSE "failed")
  /\ UNCHANGED <<repository, pins, metadata, findings>>

\* A Git command or a file operation fails, or one of the timeouts expires.
Error ==
  /\ pc \notin {"returned", "failed"}
  /\ Fail
  /\ UNCHANGED <<repository, pins, metadata>>

Inspect ==
  \/ PinRoot \/ PinIndex \/ CollectDirtyPaths \/ NextBatch
  \/ \E c \in Command : GitReads(c)
  \/ \E p \in Path : Open(p) \/ Hash(p) \/ Compare(p)
  \/ CheckRoot \/ CheckIndex \/ Error

-----------------------------------------------------------------------------
(***************************************************************************)
(* History since the pins: the paths that, at some moment, were on disk as *)
(* the index that is still current has them; that HEAD and this index had  *)
(* alike; and that one of these differed on.                               *)
(***************************************************************************)
Observe ==
  LET kept(old) == IF index' = index /\ pins.index # None THEN old ELSE {}
  IN /\ agreed' = kept(agreed) \cup {p \in Path : work'[p] = index'[p]}
     /\ committed' = kept(committed) \cup {p \in Path : tree'[p] = index'[p]}
     /\ differed' = kept(differed) \cup
          {p \in Path : work'[p] # index'[p] \/ tree'[p] # index'[p]}

Next ==
  /\ pc \notin {"returned", "failed"}
  /\ Inspect \/ Edit
  /\ Observe

Spec == Init /\ [][Next]_vars

-----------------------------------------------------------------------------
(* Properties.                                                             *)

(***************************************************************************)
(* A path that inspect returns as clean was committed and unmodified while *)
(* it ran: at one moment HEAD, and at one moment the worktree, had what    *)
(* the index has when inspect returns.                                     *)
(***************************************************************************)
CleanWasTrue ==
  pc = "returned" => \A p \in Path \ (dirty \cup skipped) : p \in agreed \cap committed

(***************************************************************************)
(* A path that it returns as dirty did differ while it ran: no race makes  *)
(* up a change.                                                            *)
(***************************************************************************)
DirtyWasTrue == pc = "returned" => dirty \subseteq differed

(***************************************************************************)
(* When the root has passed its second look, every untracked entry it has  *)
(* then is reported, unless the index changed and inspect is to fail.      *)
(***************************************************************************)
RootEntriesReported ==
  [][pc' = "check_index" /\ pc # pc' /\ indexTouched = pins.index
       => Untracked \ Nested \subseteq dirty]_vars
=============================================================================
