------------------------------- MODULE RunStore -------------------------------
(***************************************************************************)
(* JsonRunStore: how one run's directory comes into being, how state.json  *)
(* is replaced and events.jsonl grows, system call by system call, by the  *)
(* thread of the process that owns the run and by one that outlived an     *)
(* earlier owner, while status reads without a lease, system calls fail or *)
(* their process is killed, and the machine loses power.                   *)
(***************************************************************************)
EXTENDS Naturals, Sequences, FiniteSets

CONSTANTS
  Writer,      \* threads that execute create, save and append_event
  Id,          \* work-item identifiers
  SecretKeys,  \* those that are names in _SECRET_KEYS
  KeyShaped,   \* those that look like a secret value ("sk-...")
  States,      \* the RunStates that are saved: dependencies, and items with a result
  Redacted,    \* "[REDACTED]"
  NoFile,
  Torn,        \* a file of which power loss left a part, or a line that is no event
  Part,        \* a last line that does not end
  MaxCalls     \* bound on calls, failures and power losses

ASSUME IdAssumption == SecretKeys \subseteq Id /\ KeyShaped \subseteq Id
ASSUME StatesAssumption ==
  \A s \in States : s.deps \in [Id -> SUBSET Id] /\ s.done \subseteq Id
ASSUME MarksAssumption ==
  /\ Torn # Part /\ {Torn, Part} \cap Nat = {}
  /\ NoFile \notin Seq(Nat \cup {Torn, Part})

VARIABLES
  dir,       \* does the run directory exist?
  journal,   \* the lines of events.jsonl, an event being the number of its call
  state,     \* the content of state.json
  durable,   \* what state.json may be after power loss
  kept,      \* number of lines that power loss leaves
  pc,
  call,      \* the document a thread creates or saves, or the event it appends
  temp,      \* the content of its temporary file
  synced,    \* was the temporary file synchronised?
  saved,     \* history: the documents of create and save calls so far
  acked,     \* history: the events whose append_event has returned
  seen,      \* what the last status command read
  calls

files   == <<dir, journal, kept, state, durable>>
threads == <<pc, call, temp, synced>>
history == <<saved, acked>>
vars == <<files, threads, history, seen, calls>>

-----------------------------------------------------------------------------
(* Documents.                                                              *)

RedactValue(v) == IF v \in KeyShaped THEN Redacted ELSE v

\* redact_json: the value under a secret key goes, and so does a secret-shaped one.
Redact(doc) ==
  [doc EXCEPT
     !.work = [i \in Id |->
                 IF i \in SecretKeys THEN Redacted
                 ELSE [id |-> RedactValue(doc.work[i].id),
                       dependencies |-> {RedactValue(d) : d \in doc.work[i].dependencies}]],
     !.results = [i \in DOMAIN doc.results |->
                    IF i \in SecretKeys THEN Redacted ELSE RedactValue(i)]]

\* RunState.to_dict: every item and every result under its identifier.
Document(s) ==
  [work |-> [i \in Id |-> [id |-> i, dependencies |-> s.deps[i]]],
   results |-> [i \in s.done |-> i]]

\* RunState.from_dict wants an object for every item and every result.
Loadable(doc) ==
  /\ \A i \in DOMAIN doc.work : doc.work[i] # Redacted
  /\ \A i \in DOMAIN doc.results : i \in SecretKeys => doc.results[i] # Redacted

-----------------------------------------------------------------------------
Init ==
  /\ dir = FALSE
  /\ journal = NoFile
  /\ kept = 0
  /\ state = NoFile
  /\ durable = {NoFile}
  /\ pc = [w \in Writer |-> "idle"]
  /\ call = [w \in Writer |-> NoFile]
  /\ temp = [w \in Writer |-> NoFile]
  /\ synced = [w \in Writer |-> FALSE]
  /\ saved = {}
  /\ acked = {}
  /\ seen = NoFile
  /\ calls = 0

Goto(w, to) == pc' = [pc EXCEPT ![w] = to]

Counted == calls < MaxCalls /\ calls' = calls + 1

\* A thread ends, with or without an error: finally removes its temporary file.
Done(w) ==
  /\ Goto(w, "idle")
  /\ call' = [call EXCEPT ![w] = NoFile]
  /\ temp' = [temp EXCEPT ![w] = NoFile]
  /\ synced' = [synced EXCEPT ![w] = FALSE]

\* _create_sync or _save_sync is called with a RunState.
Call(w) ==
  /\ Counted
  /\ pc[w] = "idle"
  /\ \E s \in States :
       /\ call' = [call EXCEPT ![w] = Redact(Document(s))]
       /\ saved' = saved \cup {Redact(Document(s))}
  /\ Goto(w, IF state = NoFile THEN "mkdir" ELSE "check")
  /\ UNCHANGED <<files, temp, synced, acked, seen>>

\* mkdir(exist_ok=False)
MakeDirectory(w) ==
  /\ pc[w] = "mkdir"
  /\ dir' = TRUE
  /\ IF dir THEN Done(w) ELSE Goto(w, "journal") /\ UNCHANGED <<call, temp, synced>>
  /\ UNCHANGED <<journal, kept, state, durable, history, seen, calls>>

WriteJournal(w) ==
  /\ pc[w] = "journal"
  /\ journal' = <<>>
  /\ Goto(w, "open")
  /\ UNCHANGED <<dir, kept, state, durable, call, temp, synced, history, seen, calls>>

\* save wants the run directory to be there.
CheckDirectory(w) ==
  /\ pc[w] = "check"
  /\ IF dir THEN Goto(w, "open") /\ UNCHANGED <<call, temp, synced>> ELSE Done(w)
  /\ UNCHANGED <<files, history, seen, calls>>

\* NamedTemporaryFile: a name of its own in the run directory.
OpenTemporary(w) ==
  /\ pc[w] = "open"
  /\ temp' = [temp EXCEPT ![w] = Torn]
  /\ Goto(w, "write")
  /\ UNCHANGED <<files, call, synced, history, seen, calls>>

Write(w) ==
  /\ pc[w] = "write"
  /\ temp' = [temp EXCEPT ![w] = call[w]]
  /\ Goto(w, "sync")
  /\ UNCHANGED <<files, call, synced, history, seen, calls>>

\* Mutant of Synchronise: flush without fsync.
SynchroniseNot(w) ==
  /\ pc[w] = "sync"
  /\ Goto(w, "replace")
  /\ UNCHANGED <<files, call, temp, synced, history, seen, calls>>

Synchronise(w) ==
  /\ pc[w] = "sync"
  /\ synced' = [synced EXCEPT ![w] = TRUE]
  /\ Goto(w, "replace")
  /\ UNCHANGED <<files, call, temp, history, seen, calls>>

\* os.replace: atomic for readers; the directory itself is not synchronised.
Replace(w) ==
  /\ pc[w] = "replace"
  /\ state' = temp[w]
  /\ durable' = durable \cup {IF synced[w] THEN temp[w] ELSE Torn}
  /\ Done(w)
  /\ UNCHANGED <<dir, journal, kept, history, seen, calls>>

\* _append_event_sync is called with an event.
CallAppend(w) ==
  /\ Counted
  /\ pc[w] = "idle"
  /\ call' = [call EXCEPT ![w] = calls']
  /\ Goto(w, "find")
  /\ UNCHANGED <<files, temp, synced, history, seen>>

\* append_event wants the file that create left.
FindJournal(w) ==
  /\ pc[w] = "find"
  /\ IF journal = NoFile THEN Done(w) ELSE Goto(w, "append") /\ UNCHANGED <<call, temp, synced>>
  /\ UNCHANGED <<files, history, seen, calls>>

Unfinished == journal # <<>> /\ journal[Len(journal)] = Part

\* open("a"), write and flush: the line goes where the file ends, in a line or not.
AppendLine(w) ==
  /\ pc[w] = "append"
  /\ IF Unfinished
       THEN /\ journal' = [journal EXCEPT ![Len(journal)] = Torn]
            /\ kept' = IF kept = Len(journal) THEN kept - 1 ELSE kept
       ELSE journal' = Append(journal, call[w]) /\ UNCHANGED kept
  /\ Goto(w, "flushed")
  /\ UNCHANGED <<dir, state, durable, call, temp, synced, history, seen, calls>>

\* A full disk, or a kill within the write, leaves a part of the line.
AppendPart(w) ==
  /\ Counted
  /\ pc[w] = "append"
  /\ journal' = IF Unfinished THEN journal ELSE Append(journal, Part)
  /\ Done(w)
  /\ UNCHANGED <<dir, kept, state, durable, history, seen>>

\* Mutant of SynchroniseJournal: flush without fsync.
SynchroniseJournalNot(w) ==
  /\ pc[w] = "flushed"
  /\ acked' = acked \cup {call[w]}
  /\ Done(w)
  /\ UNCHANGED <<files, saved, seen, calls>>

\* fsync covers every line the file has by then.
SynchroniseJournal(w) ==
  /\ pc[w] = "flushed"
  /\ kept' = Len(journal)
  /\ acked' = acked \cup {call[w]}
  /\ Done(w)
  /\ UNCHANGED <<dir, journal, state, durable, saved, seen, calls>>

\* A system call fails, so the thread's call ends with an OSError.
CallFails(w) ==
  /\ Counted
  /\ pc[w] # "idle"
  /\ Done(w)
  /\ UNCHANGED <<files, history, seen>>

\* status: json.loads of whatever state.json is when it is opened.
ReadStatus ==
  /\ state # seen
  /\ seen' = state
  /\ UNCHANGED <<files, threads, history, calls>>

\* What power loss may leave of the lines that were not synchronised.
Leftovers ==
  IF journal = NoFile THEN {NoFile}
  ELSE {SubSeq(journal, 1, k) : k \in kept .. Len(journal)}
         \cup {Append(SubSeq(journal, 1, k), Part) : k \in kept .. Len(journal) - 1}
         \cup IF kept = 0 THEN {NoFile} ELSE {}

\* The machine stops; state.json is what some prefix of the renames made it.
PowerLoss ==
  /\ Counted
  /\ state' \in durable
  /\ durable' = {state'}
  /\ journal' \in Leftovers
  /\ kept' = IF journal' = NoFile THEN 0 ELSE Len(journal')
  /\ dir' \in IF state' = NoFile /\ journal' = NoFile THEN {FALSE, dir} ELSE {TRUE}
  /\ pc' = [w \in Writer |-> "idle"]
  /\ call' = [w \in Writer |-> NoFile]
  /\ temp' = [w \in Writer |-> NoFile]
  /\ synced' = [w \in Writer |-> FALSE]
  /\ UNCHANGED <<history, seen>>

Next ==
  \/ \E w \in Writer :
       \/ Call(w) \/ MakeDirectory(w) \/ WriteJournal(w) \/ CheckDirectory(w)
       \/ OpenTemporary(w) \/ Write(w) \/ Synchronise(w) \/ Replace(w)
       \/ CallAppend(w) \/ FindJournal(w) \/ AppendLine(w) \/ AppendPart(w)
       \/ SynchroniseJournal(w) \/ CallFails(w)
  \/ ReadStatus \/ PowerLoss

Spec == Init /\ [][Next]_vars

-----------------------------------------------------------------------------
(* Properties.                                                             *)

(***************************************************************************)
(* What status reads without a lease, and what a restart finds after       *)
(* failures and power loss, is nothing or one whole checkpoint, although   *)
(* two threads may be replacing state.json.                                *)
(***************************************************************************)
CheckpointsAreWhole == {state, seen} \subseteq saved \cup {NoFile}

Lines == IF journal = NoFile THEN {} ELSE {journal[k] : k \in DOMAIN journal}

TornLines == IF journal = NoFile THEN {} ELSE {k \in DOMAIN journal : journal[k] = Torn}

(***************************************************************************)
(* An event that append_event has returned for is a line of events.jsonl,  *)
(* whatever fails or stops and whoever appends beside it, but for one that *)
(* continued a part of a line: each line that is no event cost one.        *)
(***************************************************************************)
EventsAreKept == Cardinality(acked \ Lines) <= Cardinality(TornLines)

(***************************************************************************)
(* json_store.py:5: "Persist resumable runs": what is saved can be loaded, *)
(* and the items that are loaded are the ones that were saved.             *)
(***************************************************************************)
RunsCanBeResumed ==
  state # NoFile =>
    /\ Loadable(state)
    /\ \A i \in Id : state.work[i].id = i
=============================================================================
