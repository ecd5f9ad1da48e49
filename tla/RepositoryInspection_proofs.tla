---------------------- MODULE RepositoryInspection_proofs ----------------------
(***************************************************************************)
(* However many paths there are, in whatever batches they are compared and *)
(* however often the repository is edited meanwhile: what inspect returns  *)
(* as clean was clean, what it returns as dirty was dirty, and it misses   *)
(* nothing untracked in the root.                                          *)
(***************************************************************************)
EXTENDS RepositoryInspection, TLAPS

Phase == {"pin_root", "pin_index", "git", "batch", "open", "compare", "hash", "check_root",
          "check_index", "returned", "failed"}

\* The index file is still the one that was pinned.
Current == pins.index # None /\ indexTouched = pins.index

RepositoryTypes ==
  /\ skipped \subseteq Path
  /\ tree \in [Path -> Content \cup {Absent}] /\ work \in [Path -> Content \cup {Absent}]
  /\ index \in [Path -> Content \cup {Absent, Unmerged}]
  /\ clock \in Nat /\ touched \in [Path -> Nat] /\ rootTouched \in Nat /\ indexTouched \in Nat
  /\ rootTouched <= clock /\ indexTouched <= clock /\ \A p \in Path : touched[p] <= clock

InspectorTypes ==
  /\ pc \in Phase
  /\ pins \in [root : Nat \cup {None}, index : Nat \cup {None}]
  /\ pins.root # None => pins.root <= rootTouched
  /\ pins.index # None => pins.index <= indexTouched
  /\ metadata = [c \in Command |-> metadata[c]]
  /\ queue \subseteq Path /\ batch \subseteq Path
  /\ opened \in [Path -> Nat \cup {None}] /\ digest \in [Path -> Content \cup {Absent, None}]

\* What each phase of the inspection has behind it.
PhaseInv ==
  /\ pc \in {"pin_root", "pin_index"} => pins.index = None
  /\ pc \notin {"pin_root", "pin_index", "failed"} => pins.index # None
  /\ pins.index = None => \A c \in Command : metadata[c] = None
  /\ pc \notin {"pin_root", "pin_index", "git", "failed"} => \A c \in Command : metadata[c] # None
  /\ pc \in {"pin_root", "pin_index", "git", "check_root", "check_index", "returned"} => queue = {}
  /\ pc \notin {"open", "compare", "hash", "failed"} => batch = {}
  /\ pc = "returned" => Current

\* An entry that still is what was opened: its digest tells whether it agrees with the index.
BatchInv ==
  /\ \A p \in queue \cup batch : Entry(p) \in Content
  /\ \A p \in Path :
       /\ p \notin batch => opened[p] = None
       /\ opened[p] # None => opened[p] <= touched[p]
       /\ p \in batch /\ opened[p] = touched[p] /\ digest[p] # None =>
            (digest[p] = Entry(p) <=> work[p] = Entry(p))

\* The history has what is the case now.
Seen ==
  \A p \in Path :
    /\ work[p] = index[p] => p \in agreed
    /\ tree[p] = index[p] => p \in committed
    /\ work[p] # index[p] \/ tree[p] # index[p] => p \in differed

\* What Git reported of the current index was true when it did.
ReadInv ==
  Current =>
    /\ Seen
    /\ metadata["index"] # None => metadata["index"] = index
    /\ metadata["head"] # None =>
         \A p \in Path : /\ metadata["head"][p] # Unmerged
                         /\ metadata["head"][p] = index[p] => p \in committed
                         /\ metadata["head"][p] # index[p] => p \in differed
    /\ metadata["untracked"] # None =>
         /\ metadata["untracked"] \subseteq differed
         /\ \A p \in Path \ metadata["untracked"] : index[p] = Absent => p \in agreed
         /\ rootTouched = pins.root => Untracked \ Nested \subseteq metadata["untracked"]

\* What was collected of it and compared with it is true, and the rest is still to be compared.
DirtyInv ==
  Current /\ pc \notin {"pin_root", "pin_index", "git", "failed"} =>
    /\ dirty \subseteq differed
    /\ metadata["untracked"] \subseteq dirty
    /\ \A p \in Path \ (dirty \cup skipped) : p \in committed /\ p \in agreed \cup queue \cup batch

IInv == RepositoryTypes /\ InspectorTypes /\ PhaseInv /\ BatchInv /\ ReadInv /\ DirtyInv
-----------------------------------------------------------------------------
(* The history.                                                            *)

\* It has what is the case after a step, and of the same index what it had before.
LEMMA HistoryGrows ==
  ASSUME Observe
  PROVE  /\ Seen'
         /\ index' = index /\ pins.index # None =>
              agreed \subseteq agreed' /\ committed \subseteq committed' /\ differed \subseteq differed'
<1>1. QED
  BY DEF Observe, Seen
-----------------------------------------------------------------------------
(* Every step keeps the invariant.                                         *)

\* An entry is created, removed or replaced.
LEMMA ReplaceKeeps ==
  ASSUME IInv, NEW p \in Path, NEW c \in Content \cup {Absent}, Replace(p, c), UNCHANGED
     <<skipped, inspector>>, Observe
  PROVE  IInv'
<1> USE PathAssumption, ValueAssumption DEF Replace, Tick, inspector, repository, findings
<1>1. RepositoryTypes'
  BY DEF IInv, RepositoryTypes, Content
<1>2. InspectorTypes'
  BY DEF IInv, RepositoryTypes, InspectorTypes, Phase, Command
<1>3. PhaseInv'
  BY DEF IInv, RepositoryTypes, InspectorTypes, PhaseInv, Current, Command
<1>4. BatchInv'
  BY DEF IInv, RepositoryTypes, InspectorTypes, PhaseInv, BatchInv, Entry, Content, Command
<1>5. ReadInv'
  <2>1. Current' => Current /\ UNCHANGED <<index, indexTouched>> /\ pins'.index = pins.index
    BY DEF IInv, RepositoryTypes, InspectorTypes, PhaseInv, Current
  <2>2. QED
    BY <2>1, HistoryGrows DEF IInv, RepositoryTypes, InspectorTypes, PhaseInv, ReadInv,
       Untracked, Command, Current
<1>6. DirtyInv'
  <2>1. Current' => Current /\ UNCHANGED <<index, indexTouched>> /\ pins'.index = pins.index
    BY DEF IInv, RepositoryTypes, InspectorTypes, PhaseInv, Current
  <2>2. QED
    BY <2>1, HistoryGrows DEF IInv, RepositoryTypes, InspectorTypes, PhaseInv, BatchInv,
       ReadInv, DirtyInv, Command, Current, Entry, Seen
<1>7. QED
  BY <1>1, <1>2, <1>3, <1>4, <1>5, <1>6 DEF IInv

\* A file is overwritten.
LEMMA OverwriteKeeps ==
  ASSUME IInv, NEW p \in Path, NEW c \in Content, Overwrite(p, c), UNCHANGED <<skipped,
     inspector>>, Observe
  PROVE  IInv'
<1> USE PathAssumption, ValueAssumption DEF Overwrite, Tick, inspector, SameKind,
   repository, findings
<1>1. RepositoryTypes'
  BY DEF IInv, RepositoryTypes, Content
<1>2. InspectorTypes'
  BY DEF IInv, RepositoryTypes, InspectorTypes, Phase, Command
<1>3. PhaseInv'
  BY DEF IInv, RepositoryTypes, InspectorTypes, PhaseInv, Current, Command
<1>4. BatchInv'
  BY DEF IInv, RepositoryTypes, InspectorTypes, PhaseInv, BatchInv, Entry, Content, Command
<1>5. ReadInv'
  <2>1. Current' => Current /\ UNCHANGED <<index, indexTouched>> /\ pins'.index = pins.index
    BY DEF IInv, RepositoryTypes, InspectorTypes, PhaseInv, Current
  <2>2. QED
    BY <2>1, HistoryGrows DEF IInv, RepositoryTypes, InspectorTypes, PhaseInv, ReadInv,
       Untracked, Command, Current
<1>6. DirtyInv'
  <2>1. Current' => Current /\ UNCHANGED <<index, indexTouched>> /\ pins'.index = pins.index
    BY DEF IInv, RepositoryTypes, InspectorTypes, PhaseInv, Current
  <2>2. QED
    BY <2>1, HistoryGrows DEF IInv, RepositoryTypes, InspectorTypes, PhaseInv, BatchInv,
       ReadInv, DirtyInv, Command, Current, Entry, Seen
<1>7. QED
  BY <1>1, <1>2, <1>3, <1>4, <1>5, <1>6 DEF IInv

\* The index is replaced: what was read of it is no longer current.
LEMMA StageKeeps ==
  ASSUME IInv, NEW p \in Path, NEW c \in Content \cup {Absent, Unmerged}, Stage(p, c),
     UNCHANGED <<skipped, inspector>>, pc # "returned", Observe
  PROVE  IInv'
<1> USE PathAssumption, ValueAssumption DEF Stage, Tick, inspector, repository, findings
<1>1. RepositoryTypes'
  BY DEF IInv, RepositoryTypes, Content
<1>2. InspectorTypes'
  BY DEF IInv, RepositoryTypes, InspectorTypes, Phase, Command
<1>3. PhaseInv'
  BY DEF IInv, RepositoryTypes, InspectorTypes, PhaseInv, Current, Command
<1>4. BatchInv'
  BY DEF IInv, RepositoryTypes, InspectorTypes, PhaseInv, BatchInv, Entry, Content, Command
<1>5. ReadInv'
  <2>1. Current' => Current /\ UNCHANGED <<index, indexTouched>> /\ pins'.index = pins.index
    BY DEF IInv, RepositoryTypes, InspectorTypes, PhaseInv, Current
  <2>2. QED
    BY <2>1, HistoryGrows DEF IInv, RepositoryTypes, InspectorTypes, PhaseInv, ReadInv,
       Untracked, Command, Current
<1>6. DirtyInv'
  <2>1. Current' => Current /\ UNCHANGED <<index, indexTouched>> /\ pins'.index = pins.index
    BY DEF IInv, RepositoryTypes, InspectorTypes, PhaseInv, Current
  <2>2. QED
    BY <2>1, HistoryGrows DEF IInv, RepositoryTypes, InspectorTypes, PhaseInv, BatchInv,
       ReadInv, DirtyInv, Command, Current, Entry, Seen
<1>7. QED
  BY <1>1, <1>2, <1>3, <1>4, <1>5, <1>6 DEF IInv

\* HEAD moves.
LEMMA MoveHeadKeeps ==
  ASSUME IInv, NEW p \in Path, NEW c \in Content \cup {Absent}, MoveHead(p, c), UNCHANGED
     <<skipped, inspector>>, Observe
  PROVE  IInv'
<1> USE PathAssumption, ValueAssumption DEF MoveHead, Tick, inspector, repository, findings
<1>1. RepositoryTypes'
  BY DEF IInv, RepositoryTypes, Content
<1>2. InspectorTypes'
  BY DEF IInv, RepositoryTypes, InspectorTypes, Phase, Command
<1>3. PhaseInv'
  BY DEF IInv, RepositoryTypes, InspectorTypes, PhaseInv, Current, Command
<1>4. BatchInv'
  BY DEF IInv, RepositoryTypes, InspectorTypes, PhaseInv, BatchInv, Entry, Content, Command
<1>5. ReadInv'
  <2>1. Current' => Current /\ UNCHANGED <<index, indexTouched>> /\ pins'.index = pins.index
    BY DEF IInv, RepositoryTypes, InspectorTypes, PhaseInv, Current
  <2>2. QED
    BY <2>1, HistoryGrows DEF IInv, RepositoryTypes, InspectorTypes, PhaseInv, ReadInv,
       Untracked, Command, Current
<1>6. DirtyInv'
  <2>1. Current' => Current /\ UNCHANGED <<index, indexTouched>> /\ pins'.index = pins.index
    BY DEF IInv, RepositoryTypes, InspectorTypes, PhaseInv, Current
  <2>2. QED
    BY <2>1, HistoryGrows DEF IInv, RepositoryTypes, InspectorTypes, PhaseInv, BatchInv,
       ReadInv, DirtyInv, Command, Current, Entry, Seen
<1>7. QED
  BY <1>1, <1>2, <1>3, <1>4, <1>5, <1>6 DEF IInv

\* The root is pinned.
LEMMA PinRootKeeps ==
  ASSUME IInv, PinRoot, Observe
  PROVE  IInv'
<1> USE PathAssumption, ValueAssumption DEF PinRoot, Goto, repository, findings
<1>1. RepositoryTypes'
  BY DEF IInv, RepositoryTypes, Content
<1>2. InspectorTypes'
  BY DEF IInv, RepositoryTypes, InspectorTypes, Phase, Command
<1>3. PhaseInv'
  BY DEF IInv, RepositoryTypes, InspectorTypes, PhaseInv, Current, Command
<1>4. BatchInv'
  BY DEF IInv, RepositoryTypes, InspectorTypes, PhaseInv, BatchInv, Entry, Content, Command
<1>5. ReadInv'
  <2>1. Current' => Current /\ UNCHANGED <<index, indexTouched>> /\ pins'.index = pins.index
    BY DEF IInv, RepositoryTypes, InspectorTypes, PhaseInv, Current
  <2>2. QED
    BY <2>1, HistoryGrows DEF IInv, RepositoryTypes, InspectorTypes, PhaseInv, ReadInv,
       Untracked, Command, Current
<1>6. DirtyInv'
  <2>1. Current' => Current /\ UNCHANGED <<index, indexTouched>> /\ pins'.index = pins.index
    BY DEF IInv, RepositoryTypes, InspectorTypes, PhaseInv, Current
  <2>2. QED
    BY <2>1, HistoryGrows DEF IInv, RepositoryTypes, InspectorTypes, PhaseInv, BatchInv,
       ReadInv, DirtyInv, Command, Current, Entry, Seen
<1>7. QED
  BY <1>1, <1>2, <1>3, <1>4, <1>5, <1>6 DEF IInv

\* The index is pinned, and is current.
LEMMA PinIndexKeeps ==
  ASSUME IInv, PinIndex, Observe
  PROVE  IInv'
<1> USE PathAssumption, ValueAssumption DEF PinIndex, Goto, repository, findings
<1>1. RepositoryTypes'
  BY DEF IInv, RepositoryTypes, Content
<1>2. InspectorTypes'
  BY DEF IInv, RepositoryTypes, InspectorTypes, Phase, Command
<1>3. PhaseInv'
  BY DEF IInv, RepositoryTypes, InspectorTypes, PhaseInv, Current, Command
<1>4. BatchInv'
  BY DEF IInv, RepositoryTypes, InspectorTypes, PhaseInv, BatchInv, Entry, Content, Command
<1>5. ReadInv'
  <2>1. \A c \in Command : metadata'[c] = None
    BY DEF IInv, PhaseInv
  <2>2. QED
    BY <2>1, HistoryGrows DEF ReadInv, Command
<1>6. DirtyInv'
  BY DEF DirtyInv
<1>7. QED
  BY <1>1, <1>2, <1>3, <1>4, <1>5, <1>6 DEF IInv

\* A Git command reports.
LEMMA GitReadsKeeps ==
  ASSUME IInv, NEW c \in Command, GitReads(c), Observe
  PROVE  IInv'
<1> USE PathAssumption, ValueAssumption DEF GitReads, repository, findings
<1>1. RepositoryTypes'
  BY DEF IInv, RepositoryTypes, Content
<1>2. InspectorTypes'
  BY DEF IInv, RepositoryTypes, InspectorTypes, Phase, Command
<1>3. PhaseInv'
  BY DEF IInv, RepositoryTypes, InspectorTypes, PhaseInv, Current, Command
<1>4. BatchInv'
  BY DEF IInv, RepositoryTypes, InspectorTypes, PhaseInv, BatchInv, Entry, Content, Command
<1>5. ReadInv'
  <2>1. UNCHANGED <<index, tree, work, pins, rootTouched, indexTouched>> /\ (Current' => Current)
    BY DEF Current
  <2>2. \A d \in Command \ {c} : metadata'[d] = metadata[d]
    BY DEF IInv, InspectorTypes
  <2>3. ASSUME Current'
        PROVE  /\ Seen' /\ ReadInv
               /\ agreed \subseteq agreed' /\ committed \subseteq committed'
               /\ differed \subseteq differed'
    BY <2>1, <2>3, HistoryGrows DEF IInv, Current
  <2>4. CASE c = "index"
    <3>1. metadata'["index"] = index
      BY <2>4 DEF IInv, InspectorTypes
    <3>2. QED
      BY <2>1, <2>2, <2>3, <2>4, <3>1 DEF ReadInv, Current, Command, Untracked
  <2>5. CASE c = "head"
    <3>1. metadata'["head"] = tree /\ \A p \in Path : tree[p] # Unmerged
      BY <2>5 DEF IInv, InspectorTypes, RepositoryTypes, Content
    <3>2. QED
      BY <2>1, <2>2, <2>3, <2>5, <3>1 DEF ReadInv, Current, Command, Untracked, Seen
  <2>6. CASE c = "untracked"
    <3>1. metadata'["untracked"] = Untracked
      BY <2>6 DEF IInv, InspectorTypes
    <3>2. /\ \A p \in Untracked : work[p] # index[p] /\ p \in Path
          /\ \A p \in Path \ Untracked : index[p] = Absent => work[p] = index[p]
      BY DEF Untracked
    <3>3. Untracked' = Untracked
      BY <2>1 DEF Untracked
    <3>4. QED
      BY <2>1, <2>2, <2>3, <2>6, <3>1, <3>2, <3>3 DEF ReadInv, Current, Command, Seen
  <2>7. QED
    BY <2>4, <2>5, <2>6 DEF Command
<1>6. DirtyInv'
  <2>1. Current' => Current /\ UNCHANGED <<index, indexTouched>> /\ pins'.index = pins.index
    BY DEF IInv, RepositoryTypes, InspectorTypes, PhaseInv, Current
  <2>2. QED
    BY <2>1, HistoryGrows DEF IInv, RepositoryTypes, InspectorTypes, PhaseInv, BatchInv,
       ReadInv, DirtyInv, Command, Current, Entry, Seen
<1>7. QED
  BY <1>1, <1>2, <1>3, <1>4, <1>5, <1>6 DEF IInv

\* What Git reported is collected.
LEMMA CollectDirtyPathsKeeps ==
  ASSUME IInv, CollectDirtyPaths, Observe
  PROVE  IInv'
<1> USE PathAssumption, ValueAssumption DEF CollectDirtyPaths, Goto, repository, findings
<1>1. RepositoryTypes'
  BY DEF IInv, RepositoryTypes, Content
<1>2. InspectorTypes'
  BY DEF IInv, RepositoryTypes, InspectorTypes, Phase, Command
<1>3. PhaseInv'
  BY DEF IInv, RepositoryTypes, InspectorTypes, PhaseInv, Current, Command
<1>4. BatchInv'
  BY DEF IInv, RepositoryTypes, InspectorTypes, PhaseInv, BatchInv, Entry, Content, Command
<1>5. ReadInv'
  <2>1. Current' => Current /\ UNCHANGED <<index, indexTouched>> /\ pins'.index = pins.index
    BY DEF IInv, RepositoryTypes, InspectorTypes, PhaseInv, Current
  <2>2. QED
    BY <2>1, HistoryGrows DEF IInv, RepositoryTypes, InspectorTypes, PhaseInv, ReadInv,
       Untracked, Command, Current
<1>6. DirtyInv'
  <2>1. Current' => Current /\ UNCHANGED <<index, indexTouched>> /\ pins'.index = pins.index
    BY DEF IInv, RepositoryTypes, InspectorTypes, PhaseInv, Current
  <2>2. QED
    BY <2>1, HistoryGrows DEF IInv, RepositoryTypes, InspectorTypes, PhaseInv, BatchInv,
       ReadInv, DirtyInv, Command, Current, Entry, Seen
<1>7. QED
  BY <1>1, <1>2, <1>3, <1>4, <1>5, <1>6 DEF IInv

\* The next entries are compared.
LEMMA NextBatchKeeps ==
  ASSUME IInv, NextBatch, Observe
  PROVE  IInv'
<1> USE PathAssumption, ValueAssumption DEF NextBatch, Goto, repository, findings
<1>1. RepositoryTypes'
  BY DEF IInv, RepositoryTypes, Content
<1>2. InspectorTypes'
  BY DEF IInv, RepositoryTypes, InspectorTypes, Phase, Command
<1>3. PhaseInv'
  BY DEF IInv, RepositoryTypes, InspectorTypes, PhaseInv, Current, Command
<1>4. BatchInv'
  BY DEF IInv, RepositoryTypes, InspectorTypes, PhaseInv, BatchInv, Entry, Content, Command
<1>5. ReadInv'
  <2>1. Current' => Current /\ UNCHANGED <<index, indexTouched>> /\ pins'.index = pins.index
    BY DEF IInv, RepositoryTypes, InspectorTypes, PhaseInv, Current
  <2>2. QED
    BY <2>1, HistoryGrows DEF IInv, RepositoryTypes, InspectorTypes, PhaseInv, ReadInv,
       Untracked, Command, Current
<1>6. DirtyInv'
  <2>1. Current' => Current /\ UNCHANGED <<index, indexTouched>> /\ pins'.index = pins.index
    BY DEF IInv, RepositoryTypes, InspectorTypes, PhaseInv, Current
  <2>2. QED
    BY <2>1, HistoryGrows DEF IInv, RepositoryTypes, InspectorTypes, PhaseInv, BatchInv,
       ReadInv, DirtyInv, Command, Current, Entry, Seen
<1>7. QED
  BY <1>1, <1>2, <1>3, <1>4, <1>5, <1>6 DEF IInv

\* An entry is opened.
LEMMA OpenKeeps ==
  ASSUME IInv, NEW p \in Path, Open(p), Observe
  PROVE  IInv'
<1> USE PathAssumption, ValueAssumption DEF Open, AfterOpening, Goto, SameKind, repository, findings
<1>1. RepositoryTypes'
  BY DEF IInv, RepositoryTypes, Content
<1>2. InspectorTypes'
  BY DEF IInv, RepositoryTypes, InspectorTypes, Phase, Command
<1>3. PhaseInv'
  BY DEF IInv, RepositoryTypes, InspectorTypes, PhaseInv, Current, Command
<1>4. BatchInv'
  BY DEF IInv, RepositoryTypes, InspectorTypes, PhaseInv, BatchInv, Entry, Content, Command
<1>5. ReadInv'
  <2>1. Current' => Current /\ UNCHANGED <<index, indexTouched>> /\ pins'.index = pins.index
    BY DEF IInv, RepositoryTypes, InspectorTypes, PhaseInv, Current
  <2>2. QED
    BY <2>1, HistoryGrows DEF IInv, RepositoryTypes, InspectorTypes, PhaseInv, ReadInv,
       Untracked, Command, Current
<1>6. DirtyInv'
  <2>1. Current' => Current /\ UNCHANGED <<index, indexTouched>> /\ pins'.index = pins.index
    BY DEF IInv, RepositoryTypes, InspectorTypes, PhaseInv, Current
  <2>2. QED
    BY <2>1, HistoryGrows DEF IInv, RepositoryTypes, InspectorTypes, PhaseInv, BatchInv,
       ReadInv, DirtyInv, Command, Current, Entry, Seen
<1>7. QED
  BY <1>1, <1>2, <1>3, <1>4, <1>5, <1>6 DEF IInv

\* An entry is hashed.
LEMMA HashKeeps ==
  ASSUME IInv, NEW p \in Path, Hash(p), Observe
  PROVE  IInv'
<1> USE PathAssumption, ValueAssumption DEF Hash, repository, findings
<1>1. RepositoryTypes'
  BY DEF IInv, RepositoryTypes, Content
<1>2. InspectorTypes'
  BY DEF IInv, RepositoryTypes, InspectorTypes, Phase, Command
<1>3. PhaseInv'
  BY DEF IInv, RepositoryTypes, InspectorTypes, PhaseInv, Current, Command
<1>4. BatchInv'
  BY DEF IInv, RepositoryTypes, InspectorTypes, PhaseInv, BatchInv, Entry, Content, Command
<1>5. ReadInv'
  <2>1. Current' => Current /\ UNCHANGED <<index, indexTouched>> /\ pins'.index = pins.index
    BY DEF IInv, RepositoryTypes, InspectorTypes, PhaseInv, Current
  <2>2. QED
    BY <2>1, HistoryGrows DEF IInv, RepositoryTypes, InspectorTypes, PhaseInv, ReadInv,
       Untracked, Command, Current
<1>6. DirtyInv'
  <2>1. Current' => Current /\ UNCHANGED <<index, indexTouched>> /\ pins'.index = pins.index
    BY DEF IInv, RepositoryTypes, InspectorTypes, PhaseInv, Current
  <2>2. QED
    BY <2>1, HistoryGrows DEF IInv, RepositoryTypes, InspectorTypes, PhaseInv, BatchInv,
       ReadInv, DirtyInv, Command, Current, Entry, Seen
<1>7. QED
  BY <1>1, <1>2, <1>3, <1>4, <1>5, <1>6 DEF IInv

\* An entry is validated and compared.
LEMMA CompareKeeps ==
  ASSUME IInv, NEW p \in Path, Compare(p), Observe
  PROVE  IInv'
<1> USE PathAssumption, ValueAssumption DEF Compare, AfterOpening, Validated, Hashed, Fail, Close, Goto,
   repository, findings
<1>1. RepositoryTypes'
  BY DEF IInv, RepositoryTypes, Content
<1>2. InspectorTypes'
  BY DEF IInv, RepositoryTypes, InspectorTypes, Phase, Command
<1>3. PhaseInv'
  BY DEF IInv, RepositoryTypes, InspectorTypes, PhaseInv, Current, Command
<1>4. BatchInv'
  BY DEF IInv, RepositoryTypes, InspectorTypes, PhaseInv, BatchInv, Entry, Content, Command
<1>5. ReadInv'
  <2>1. Current' => Current /\ UNCHANGED <<index, indexTouched>> /\ pins'.index = pins.index
    BY DEF IInv, RepositoryTypes, InspectorTypes, PhaseInv, Current
  <2>2. QED
    BY <2>1, HistoryGrows DEF IInv, RepositoryTypes, InspectorTypes, PhaseInv, ReadInv,
       Untracked, Command, Current
<1>6. DirtyInv'
  <2>1. Current' => Current /\ UNCHANGED <<index, indexTouched>> /\ pins'.index = pins.index
    BY DEF IInv, RepositoryTypes, InspectorTypes, PhaseInv, Current
  <2>2. QED
    BY <2>1, HistoryGrows DEF IInv, RepositoryTypes, InspectorTypes, PhaseInv, BatchInv,
       ReadInv, DirtyInv, Command, Current, Entry, Seen
<1>7. QED
  BY <1>1, <1>2, <1>3, <1>4, <1>5, <1>6 DEF IInv

\* The root is looked at again.
LEMMA CheckRootKeeps ==
  ASSUME IInv, CheckRoot, Observe
  PROVE  IInv'
<1> USE PathAssumption, ValueAssumption DEF CheckRoot, Goto, repository, findings
<1>1. RepositoryTypes'
  BY DEF IInv, RepositoryTypes, Content
<1>2. InspectorTypes'
  BY DEF IInv, RepositoryTypes, InspectorTypes, Phase, Command
<1>3. PhaseInv'
  BY DEF IInv, RepositoryTypes, InspectorTypes, PhaseInv, Current, Command
<1>4. BatchInv'
  BY DEF IInv, RepositoryTypes, InspectorTypes, PhaseInv, BatchInv, Entry, Content, Command
<1>5. ReadInv'
  <2>1. Current' => Current /\ UNCHANGED <<index, indexTouched>> /\ pins'.index = pins.index
    BY DEF IInv, RepositoryTypes, InspectorTypes, PhaseInv, Current
  <2>2. QED
    BY <2>1, HistoryGrows DEF IInv, RepositoryTypes, InspectorTypes, PhaseInv, ReadInv,
       Untracked, Command, Current
<1>6. DirtyInv'
  <2>1. Current' => Current /\ UNCHANGED <<index, indexTouched>> /\ pins'.index = pins.index
    BY DEF IInv, RepositoryTypes, InspectorTypes, PhaseInv, Current
  <2>2. QED
    BY <2>1, HistoryGrows DEF IInv, RepositoryTypes, InspectorTypes, PhaseInv, BatchInv,
       ReadInv, DirtyInv, Command, Current, Entry, Seen
<1>7. QED
  BY <1>1, <1>2, <1>3, <1>4, <1>5, <1>6 DEF IInv

\* The index is looked at again.
LEMMA CheckIndexKeeps ==
  ASSUME IInv, CheckIndex, Observe
  PROVE  IInv'
<1> USE PathAssumption, ValueAssumption DEF CheckIndex, Goto, repository, findings
<1>1. RepositoryTypes'
  BY DEF IInv, RepositoryTypes, Content
<1>2. InspectorTypes'
  BY DEF IInv, RepositoryTypes, InspectorTypes, Phase, Command
<1>3. PhaseInv'
  BY DEF IInv, RepositoryTypes, InspectorTypes, PhaseInv, Current, Command
<1>4. BatchInv'
  BY DEF IInv, RepositoryTypes, InspectorTypes, PhaseInv, BatchInv, Entry, Content, Command
<1>5. ReadInv'
  <2>1. Current' => Current /\ UNCHANGED <<index, indexTouched>> /\ pins'.index = pins.index
    BY DEF IInv, RepositoryTypes, InspectorTypes, PhaseInv, Current
  <2>2. QED
    BY <2>1, HistoryGrows DEF IInv, RepositoryTypes, InspectorTypes, PhaseInv, ReadInv,
       Untracked, Command, Current
<1>6. DirtyInv'
  <2>1. Current' => Current /\ UNCHANGED <<index, indexTouched>> /\ pins'.index = pins.index
    BY DEF IInv, RepositoryTypes, InspectorTypes, PhaseInv, Current
  <2>2. QED
    BY <2>1, HistoryGrows DEF IInv, RepositoryTypes, InspectorTypes, PhaseInv, BatchInv,
       ReadInv, DirtyInv, Command, Current, Entry, Seen
<1>7. QED
  BY <1>1, <1>2, <1>3, <1>4, <1>5, <1>6 DEF IInv

\* The inspection fails.
LEMMA ErrorKeeps ==
  ASSUME IInv, Error, Observe
  PROVE  IInv'
<1> USE PathAssumption, ValueAssumption DEF Error, Fail, Close, Goto, repository, findings
<1>1. RepositoryTypes'
  BY DEF IInv, RepositoryTypes, Content
<1>2. InspectorTypes'
  BY DEF IInv, RepositoryTypes, InspectorTypes, Phase, Command
<1>3. PhaseInv'
  BY DEF IInv, RepositoryTypes, InspectorTypes, PhaseInv, Current, Command
<1>4. BatchInv'
  BY DEF IInv, RepositoryTypes, InspectorTypes, PhaseInv, BatchInv, Entry, Content, Command
<1>5. ReadInv'
  <2>1. Current' => Current /\ UNCHANGED <<index, indexTouched>> /\ pins'.index = pins.index
    BY DEF IInv, RepositoryTypes, InspectorTypes, PhaseInv, Current
  <2>2. QED
    BY <2>1, HistoryGrows DEF IInv, RepositoryTypes, InspectorTypes, PhaseInv, ReadInv,
       Untracked, Command, Current
<1>6. DirtyInv'
  <2>1. Current' => Current /\ UNCHANGED <<index, indexTouched>> /\ pins'.index = pins.index
    BY DEF IInv, RepositoryTypes, InspectorTypes, PhaseInv, Current
  <2>2. QED
    BY <2>1, HistoryGrows DEF IInv, RepositoryTypes, InspectorTypes, PhaseInv, BatchInv,
       ReadInv, DirtyInv, Command, Current, Entry, Seen
<1>7. QED
  BY <1>1, <1>2, <1>3, <1>4, <1>5, <1>6 DEF IInv

\* A step that changes nothing.
LEMMA StutterKeeps ==
  ASSUME IInv, UNCHANGED vars
  PROVE  IInv'
<1> USE DEF IInv, vars, repository, inspector, findings, history
<1>1. RepositoryTypes' /\ InspectorTypes' /\ PhaseInv'
  BY DEF RepositoryTypes, InspectorTypes, PhaseInv, Current
<1>2. BatchInv' /\ ReadInv' /\ DirtyInv'
  BY DEF BatchInv, ReadInv, DirtyInv, Current, Seen, Entry, Untracked
<1>3. QED
  BY <1>1, <1>2

\* Nothing is pinned.
LEMMA InitHolds == Init => IInv
<1> SUFFICES ASSUME Init PROVE IInv
  OBVIOUS
<1> USE PathAssumption, ValueAssumption DEF Init
<1>1. RepositoryTypes /\ InspectorTypes
  BY DEF RepositoryTypes, InspectorTypes, Phase
<1>2. PhaseInv /\ BatchInv
  BY DEF PhaseInv, BatchInv
<1>3. ReadInv /\ DirtyInv
  BY DEF ReadInv, DirtyInv, Current
<1>4. QED
  BY <1>1, <1>2, <1>3 DEF IInv

\* Every step of the inspector or the editor keeps the invariant.
LEMMA Inductive == IInv /\ [Next]_vars => IInv'
<1> SUFFICES ASSUME IInv, [Next]_vars PROVE IInv'
  OBVIOUS
<1>1. CASE Edit /\ Observe /\ pc # "returned"
  BY <1>1, ReplaceKeeps, OverwriteKeeps, StageKeeps, MoveHeadKeeps DEF Edit
<1>2. CASE Inspect /\ Observe
  BY <1>2, PinRootKeeps, PinIndexKeeps, GitReadsKeeps, CollectDirtyPathsKeeps, NextBatchKeeps,
     OpenKeeps, HashKeeps, CompareKeeps, CheckRootKeeps, CheckIndexKeeps, ErrorKeeps DEF Inspect
<1>3. CASE UNCHANGED vars
  BY <1>3, StutterKeeps
<1>4. QED
  BY <1>1, <1>2, <1>3 DEF Next

\* The inductive invariant of an inspection.
LEMMA Invariance == Spec => []IInv
<1>1. QED
  BY InitHolds, Inductive, PTL DEF Spec
-----------------------------------------------------------------------------
(* What an inspection promises.                                            *)

\* A path that inspect returns as clean, skip-worktree aside, was at one moment of it
\* committed and at one moment unmodified, however the editor interleaved.
THEOREM CleanPathsWereClean == Spec => []CleanWasTrue
<1>1. ASSUME IInv, pc = "returned", NEW p \in Path \ (dirty \cup skipped)
      PROVE  p \in agreed \cap committed
  <2>1. Current /\ queue = {} /\ batch = {}
    BY <1>1 DEF IInv, PhaseInv
  <2>2. QED
    BY <1>1, <2>1 DEF IInv, DirtyInv
<1>2. IInv => CleanWasTrue
  BY <1>1 DEF CleanWasTrue
<1>3. QED
  BY <1>2, Invariance, PTL

\* A path that inspect returns as dirty did differ while it ran.
THEOREM DirtyPathsWereDirty == Spec => []DirtyWasTrue
<1>1. IInv => DirtyWasTrue
  BY DEF IInv, PhaseInv, DirtyInv, DirtyWasTrue
<1>2. QED
  BY <1>1, Invariance, PTL

\* When the second look at the root passes, every untracked entry of the root was reported, unless the
\* index changed and the next check fails.
THEOREM NothingInTheRootIsMissed == Spec => RootEntriesReported
<1>1. ASSUME IInv, Next, pc' = "check_index", pc # pc', indexTouched = pins.index
      PROVE  Untracked \ Nested \subseteq dirty
  <2>1. pc = "check_root" /\ rootTouched = pins.root
    BY <1>1 DEF Next, Edit, Inspect, inspector, PinRoot, PinIndex, GitReads, CollectDirtyPaths,
       NextBatch, Open, AfterOpening, Hash, Compare, CheckRoot, CheckIndex, Error, Fail, Goto
  <2>2. Current /\ metadata["untracked"] # None
    BY <1>1, <2>1 DEF IInv, PhaseInv, Current, Command
  <2>3. QED
    BY <1>1, <2>1, <2>2 DEF IInv, ReadInv, DirtyInv
<1>2. IInv /\ [Next]_vars =>
        [pc' = "check_index" /\ pc # pc' /\ indexTouched = pins.index
           => Untracked \ Nested \subseteq dirty]_vars
  BY <1>1
<1>3. QED
  BY <1>2, Invariance, PTL DEF Spec, RootEntriesReported
=============================================================================
