----------------------------- MODULE RunStore_proofs -----------------------------
(***************************************************************************)
(* state.json is a whole checkpoint at every moment, and events.jsonl has  *)
(* the events that were acknowledged: for any number of threads that       *)
(* create, save and append, whatever fails, and across power loss.         *)
(***************************************************************************)
EXTENDS RunStore, FiniteSetTheorems, TLAPS

Checkpoints == saved \cup {NoFile}

Saving == {"mkdir", "journal", "check", "open", "write", "sync", "replace"}

\* What a thread has in its hands on its way to os.replace.
ThreadInv ==
  /\ DOMAIN pc = Writer /\ DOMAIN call = Writer /\ DOMAIN temp = Writer /\ DOMAIN synced = Writer
  /\ \A w \in Writer :
       /\ pc[w] \in Saving => call[w] \in saved
       /\ pc[w] \in {"sync", "replace"} => temp[w] = call[w]
       /\ pc[w] = "replace" => synced[w]

\* What readers see, and what they could see after a power loss.
FileInv ==
  /\ state \in Checkpoints
  /\ durable \subseteq Checkpoints
  /\ seen \in Checkpoints

IInv == ThreadInv /\ FileInv

\* A thread whose call ends gives up what it holds, whatever the call was.
LEMMA DoneKeeps ==
  ASSUME ThreadInv, NEW w \in Writer, Done(w), saved' = saved
  PROVE  ThreadInv'
  BY DEF ThreadInv, Done, Goto, Saving

\* A step of one thread that writes nothing readers see.
LEMMA WriterKeeps ==
  ASSUME IInv, NEW w \in Writer,
         \/ Call(w) \/ MakeDirectory(w) \/ WriteJournal(w) \/ CheckDirectory(w)
         \/ OpenTemporary(w) \/ Write(w) \/ Synchronise(w)
  PROVE  IInv'
<1>1. saved \subseteq saved' /\ UNCHANGED <<state, durable, seen>>
  BY DEF Call, MakeDirectory, WriteJournal, CheckDirectory, OpenTemporary, Write, Synchronise, files, history
<1>2. FileInv'
  BY <1>1 DEF IInv, FileInv, Checkpoints
<1>3. ThreadInv'
  <2>1. CASE Call(w)
    BY <2>1 DEF IInv, ThreadInv, Call, Goto, Saving
  <2>2. CASE MakeDirectory(w)
    <3>1. CASE dir
      BY <2>2, <3>1, DoneKeeps DEF IInv, MakeDirectory, history
    <3>2. CASE ~dir
      BY <2>2, <3>2 DEF IInv, ThreadInv, MakeDirectory, Goto, Saving, history
    <3>3. QED
      BY <3>1, <3>2
  <2>3. CASE WriteJournal(w)
    BY <2>3 DEF IInv, ThreadInv, WriteJournal, Goto, Saving, history
  <2>4. CASE CheckDirectory(w)
    <3>1. CASE ~dir
      BY <2>4, <3>1, DoneKeeps DEF IInv, CheckDirectory, history
    <3>2. CASE dir
      BY <2>4, <3>2 DEF IInv, ThreadInv, CheckDirectory, Goto, Saving, history
    <3>3. QED
      BY <3>1, <3>2
  <2>5. CASE OpenTemporary(w)
    BY <2>5 DEF IInv, ThreadInv, OpenTemporary, Goto, Saving, history
  <2>6. CASE Write(w)
    BY <2>6 DEF IInv, ThreadInv, Write, Goto, Saving, history
  <2>7. CASE Synchronise(w)
    BY <2>7 DEF IInv, ThreadInv, Synchronise, Goto, Saving, history
  <2>8. QED
    BY <2>1, <2>2, <2>3, <2>4, <2>5, <2>6, <2>7
<1>4. QED
  BY <1>2, <1>3 DEF IInv

\* os.replace publishes what was written and synchronised, whichever thread comes last.
LEMMA ReplaceKeeps ==
  ASSUME IInv, NEW w \in Writer, Replace(w)
  PROVE  IInv'
<1>1. temp[w] \in saved /\ synced[w]
  BY DEF IInv, ThreadInv, Replace, Saving
<1>2. FileInv'
  BY <1>1 DEF IInv, FileInv, Checkpoints, Replace, history
<1>3. ThreadInv'
  BY DoneKeeps DEF IInv, Replace, history
<1>4. QED
  BY <1>2, <1>3 DEF IInv

\* Appending to the journal, and a call that fails, leave state.json alone.
LEMMA AppendKeeps ==
  ASSUME IInv, NEW w \in Writer,
         \/ CallAppend(w) \/ FindJournal(w) \/ AppendLine(w) \/ AppendPart(w)
         \/ SynchroniseJournal(w) \/ CallFails(w)
  PROVE  IInv'
<1>1. saved' = saved /\ UNCHANGED <<state, durable, seen>>
  BY DEF CallAppend, FindJournal, AppendLine, AppendPart, SynchroniseJournal, CallFails, files, history
<1>2. FileInv'
  BY <1>1 DEF IInv, FileInv, Checkpoints
<1>3. ThreadInv'
  <2>1. CASE CallAppend(w)
    BY <1>1, <2>1 DEF IInv, ThreadInv, CallAppend, Goto, Saving
  <2>2. CASE FindJournal(w) /\ journal # NoFile
    BY <1>1, <2>2 DEF IInv, ThreadInv, FindJournal, Goto, Saving
  <2>3. CASE AppendLine(w)
    BY <1>1, <2>3 DEF IInv, ThreadInv, AppendLine, Goto, Saving
  <2>4. CASE Done(w)
    BY <1>1, <2>4, DoneKeeps DEF IInv
  <2>5. QED
    BY <2>1, <2>2, <2>3, <2>4 DEF FindJournal, AppendPart, SynchroniseJournal, CallFails
<1>4. QED
  BY <1>2, <1>3 DEF IInv

\* Power loss leaves one of the files that were renamed after they were synchronised.
LEMMA PowerLossKeeps ==
  ASSUME IInv, PowerLoss
  PROVE  IInv'
<1>1. FileInv'
  BY DEF IInv, FileInv, Checkpoints, PowerLoss, history
<1>2. ThreadInv'
  BY DEF ThreadInv, PowerLoss, Saving
<1>3. QED
  BY <1>1, <1>2 DEF IInv

\* status only remembers what it has read.
LEMMA ReadKeeps ==
  ASSUME IInv, ReadStatus
  PROVE  IInv'
  BY DEF IInv, ThreadInv, FileInv, Checkpoints, ReadStatus, files, threads, history

\* A stuttering step.
LEMMA StutterKeeps ==
  ASSUME IInv, UNCHANGED vars
  PROVE  IInv'
  BY DEF IInv, ThreadInv, FileInv, Checkpoints, vars, files, threads, history

\* Files and threads agree in every reachable state.
LEMMA Invariance == Spec => []IInv
<1>1. Init => IInv
  BY DEF Init, IInv, ThreadInv, FileInv, Checkpoints, Saving
<1>2. IInv /\ [Next]_vars => IInv'
  BY WriterKeeps, ReplaceKeeps, AppendKeeps, PowerLossKeeps, ReadKeeps, StutterKeeps DEF Next
<1>3. QED
  BY <1>1, <1>2, PTL DEF Spec

-----------------------------------------------------------------------------
(* The lines of a journal.                                                 *)

Line == Nat \cup {Torn, Part}

\* The events among S that are none of the first k lines of j, and the torn ones of these.
Missing(S, j, k) == S \ {j[l] : l \in 1 .. k}
TornIn(j, k)     == {l \in 1 .. k : j[l] = Torn}

\* No more events are missing than lines are torn.
Covered(S, j, k) == Cardinality(Missing(S, j, k)) <= Cardinality(TornIn(j, k))

\* An event is its number, and no mark.
LEMMA EventsAreNoMarks ==
  ASSUME NEW n \in Nat, NEW S, S \subseteq 1 .. n
  PROVE  Torn \notin S /\ Part \notin S
<1>1. \A x \in S : x \in Nat
  OBVIOUS
<1>2. QED
  BY <1>1, MarksAssumption

\* What Covered compares is finite.
LEMMA CoveredIsFinite ==
  ASSUME NEW n \in Nat, NEW S, S \subseteq 1 .. n, NEW j, NEW k \in Nat
  PROVE  /\ IsFiniteSet(Missing(S, j, k)) /\ Cardinality(Missing(S, j, k)) \in Nat
         /\ IsFiniteSet(TornIn(j, k)) /\ Cardinality(TornIn(j, k)) \in Nat
<1>1. IsFiniteSet(1 .. n) /\ IsFiniteSet(1 .. k)
  BY FS_Interval
<1>2. Missing(S, j, k) \subseteq 1 .. n /\ TornIn(j, k) \subseteq 1 .. k
  BY DEF Missing, TornIn
<1>3. QED
  BY <1>1, <1>2, FS_Subset, FS_CardinalityType

\* Fewer events and more lines.
LEMMA CoveredFurther ==
  ASSUME NEW n \in Nat, NEW T, T \subseteq 1 .. n, NEW S, S \subseteq T,
         NEW j, NEW k \in Nat, Covered(T, j, k),
         NEW j2, NEW k2 \in Nat, k <= k2, \A l \in 1 .. k : j2[l] = j[l]
  PROVE  Covered(S, j2, k2)
<1>1. \A l \in 1 .. k : l \in 1 .. k2 /\ j2[l] = j[l]
  OBVIOUS
<1>2. Missing(S, j2, k2) \subseteq Missing(T, j, k)
  BY <1>1 DEF Missing
<1>3. TornIn(j, k) \subseteq TornIn(j2, k2)
  BY <1>1 DEF TornIn
<1>4. S \subseteq 1 .. n
  OBVIOUS
<1>5. /\ IsFiniteSet(Missing(T, j, k)) /\ Cardinality(Missing(T, j, k)) \in Nat
      /\ Cardinality(TornIn(j, k)) \in Nat
  BY CoveredIsFinite
<1>6. /\ Cardinality(Missing(S, j2, k2)) \in Nat
      /\ IsFiniteSet(TornIn(j2, k2)) /\ Cardinality(TornIn(j2, k2)) \in Nat
  BY <1>4, CoveredIsFinite
<1>7. Cardinality(Missing(S, j2, k2)) <= Cardinality(Missing(T, j, k))
  BY <1>2, <1>5, FS_Subset
<1>8. Cardinality(TornIn(j, k)) <= Cardinality(TornIn(j2, k2))
  BY <1>3, <1>6, FS_Subset
<1>9. QED
  BY <1>5, <1>6, <1>7, <1>8 DEF Covered

\* Fewer events.
LEMMA CoveredFewer ==
  ASSUME NEW n \in Nat, NEW T, T \subseteq 1 .. n, NEW S, S \subseteq T,
         NEW j, NEW k \in Nat, Covered(T, j, k)
  PROVE  Covered(S, j, k)
<1>1. k <= k /\ \A l \in 1 .. k : j[l] = j[l]
  OBVIOUS
<1>2. QED
  BY <1>1, CoveredFurther

\* The last line, if it is no event and not torn, covers nothing.
LEMMA CoveredWithout ==
  ASSUME NEW n \in Nat, NEW S, S \subseteq 1 .. n,
         NEW j, NEW k \in Nat \ {0}, j[k] = Part, Covered(S, j, k)
  PROVE  Covered(S, j, k - 1)
<1>1. 1 .. k = (1 .. k - 1) \cup {k}
  OBVIOUS
<1>2. Missing(S, j, k) = Missing(S, j, k - 1)
  BY <1>1, EventsAreNoMarks DEF Missing
<1>3. TornIn(j, k) = TornIn(j, k - 1)
  BY <1>1, MarksAssumption DEF TornIn
<1>4. QED
  BY <1>2, <1>3 DEF Covered

\* An event that continues a part of a line is paid for with that line.
LEMMA CoveredByTorn ==
  ASSUME NEW n \in Nat, NEW S, S \subseteq 1 .. n, NEW e \in 1 .. n,
         NEW j, NEW k \in Nat \ {0}, j[k] = Part, Covered(S, j, k),
         NEW j2, \A l \in 1 .. k : j2[l] = IF l = k THEN Torn ELSE j[l]
  PROVE  Covered(S \cup {e}, j2, k)
<1>1. Missing(S \cup {e}, j2, k) \subseteq Missing(S, j, k) \cup {e}
  BY EventsAreNoMarks DEF Missing
<1>2. TornIn(j2, k) = TornIn(j, k) \cup {k} /\ k \notin TornIn(j, k)
  BY MarksAssumption DEF TornIn
<1>3. /\ IsFiniteSet(Missing(S, j, k)) /\ Cardinality(Missing(S, j, k)) \in Nat
      /\ IsFiniteSet(TornIn(j, k)) /\ Cardinality(TornIn(j, k)) \in Nat
  BY CoveredIsFinite
<1>4. /\ IsFiniteSet(Missing(S, j, k) \cup {e})
      /\ Cardinality(Missing(S, j, k) \cup {e}) <= Cardinality(Missing(S, j, k)) + 1
      /\ Cardinality(Missing(S, j, k) \cup {e}) \in Nat
  <2> DEFINE M == Missing(S, j, k)
  <2>1. IsFiniteSet(M) /\ Cardinality(M) \in Nat
    BY <1>3
  <2> HIDE DEF M
  <2>2. IsFiniteSet(M \cup {e}) /\ Cardinality(M \cup {e}) =
          IF e \in M THEN Cardinality(M) ELSE Cardinality(M) + 1
    BY <2>1, FS_AddElement
  <2>3. Cardinality(M \cup {e}) <= Cardinality(M) + 1 /\ Cardinality(M \cup {e}) \in Nat
    BY <2>1, <2>2
  <2>4. QED
    BY <2>2, <2>3 DEF M
<1>5. S \cup {e} \subseteq 1 .. n
  OBVIOUS
<1>6. Cardinality(Missing(S \cup {e}, j2, k)) \in Nat
  BY <1>5, CoveredIsFinite
<1>7. Cardinality(Missing(S \cup {e}, j2, k)) <= Cardinality(Missing(S, j, k) \cup {e})
  BY <1>1, <1>4, FS_Subset
<1>8. Cardinality(TornIn(j2, k)) = Cardinality(TornIn(j, k)) + 1
  BY <1>2, <1>3, FS_AddElement
<1>9. QED
  BY <1>3, <1>4, <1>6, <1>7, <1>8 DEF Covered

\* An event on a line of its own.
LEMMA CoveredByLine ==
  ASSUME NEW n \in Nat, NEW S, S \subseteq 1 .. n, NEW e \in 1 .. n,
         NEW j, NEW k \in Nat, Covered(S, j, k),
         NEW j2, j2[k + 1] = e, \A l \in 1 .. k : j2[l] = j[l]
  PROVE  Covered(S \cup {e}, j2, k + 1)
<1>1. Covered(S, j2, k + 1)
  <2>1. k + 1 \in Nat /\ k <= k + 1 /\ S \subseteq S
    OBVIOUS
  <2>2. QED
    BY <2>1, CoveredFurther
<1>2. Missing(S \cup {e}, j2, k + 1) = Missing(S, j2, k + 1)
  <2>1. k + 1 \in 1 .. k + 1
    OBVIOUS
  <2>2. QED
    BY <2>1 DEF Missing
<1>3. QED
  BY <1>1, <1>2 DEF Covered

-----------------------------------------------------------------------------
(* The journal under appends, failures and power loss.                     *)

Flushed  == {call[w] : w \in {v \in Writer : pc[v] = "flushed"}}
Returned == acked \cup Flushed

\* Where a thread may be while there is which journal.
PlaceInv ==
  /\ dir \in BOOLEAN /\ calls \in Nat
  /\ ~dir => journal = NoFile
  /\ \A w \in Writer :
       /\ pc[w] = "journal" => /\ dir /\ journal = NoFile
                               /\ \A v \in Writer \ {w} : pc[v] # "journal"
       /\ pc[w] \in {"find", "append", "flushed"} => call[w] \in 1 .. calls
       /\ pc[w] \in {"append", "flushed"} => journal # NoFile

\* What is kept covers what was acknowledged, all lines what is about to be.
LinesInv ==
  /\ acked \subseteq 1 .. calls
  /\ journal = NoFile => kept = 0 /\ acked = {}
  /\ journal # NoFile => /\ journal \in Seq(Line)
                         /\ kept \in 0 .. Len(journal)
                         /\ Covered(acked, journal, kept)
                         /\ Covered(Returned, journal, Len(journal))

JournalInv == PlaceInv /\ LinesInv

\* Everything that returned, or will without a failure, is the number of a call.
LEMMA ReturnedAreCalls ==
  ASSUME PlaceInv, LinesInv
  PROVE  Returned \subseteq 1 .. calls
  BY DEF PlaceInv, LinesInv, Returned, Flushed

\* Threads on their way to state.json and calls that end disturb no line.
LEMMA JournalStays ==
  ASSUME ThreadInv, JournalInv, UNCHANGED <<journal, kept, acked>>,
         calls' \in {calls, calls + 1}, PlaceInv', Flushed' \subseteq Flushed
  PROVE  JournalInv'
<1>1. calls \in Nat /\ calls' \in Nat /\ calls <= calls'
  BY DEF JournalInv, PlaceInv
<1>2. acked' \subseteq 1 .. calls'
  BY <1>1 DEF JournalInv, LinesInv
<1>3. ASSUME journal # NoFile
      PROVE  Covered(Returned', journal', Len(journal'))
  <2>1. Returned' \subseteq Returned /\ Returned \subseteq 1 .. calls
    BY ReturnedAreCalls DEF JournalInv, Returned
  <2>2. Len(journal) \in Nat /\ Covered(Returned, journal, Len(journal))
    BY <1>3 DEF JournalInv, LinesInv
  <2>3. Covered(Returned', journal, Len(journal))
    BY <1>1, <2>1, <2>2, CoveredFewer
  <2>4. QED
    BY <2>3
<1>4. QED
  BY <1>2, <1>3 DEF JournalInv, LinesInv

\* A step of thread w that takes it to a place where it holds no event.
Moves(w, places) ==
  /\ pc'[w] \in places
  /\ \A v \in Writer \ {w} : pc'[v] = pc[v] /\ call'[v] = call[v]

\* The end of a call, and a step without a new call or document.
LEMMA DoneMoves ==
  ASSUME ThreadInv, NEW w \in Writer, Done(w)
  PROVE  Moves(w, {"idle"})
  BY DEF ThreadInv, Done, Goto, Moves

LEMMA GotoMoves ==
  ASSUME ThreadInv, NEW w \in Writer, NEW to, Goto(w, to), UNCHANGED call
  PROVE  Moves(w, {to})
  BY DEF ThreadInv, Goto, Moves

\* A step of a thread that saves keeps the journal, but for the one that creates it.
LEMMA SavingKeepsJournal ==
  ASSUME ThreadInv, JournalInv, NEW w \in Writer,
         \/ Call(w) \/ MakeDirectory(w) \/ CheckDirectory(w)
         \/ OpenTemporary(w) \/ Write(w) \/ Synchronise(w) \/ Replace(w)
  PROVE  JournalInv'
<1>1. UNCHANGED <<journal, kept, acked>> /\ calls' \in {calls, calls + 1}
  BY DEF Call, MakeDirectory, CheckDirectory, OpenTemporary, Write, Synchronise, Replace,
         files, history, Counted
<1>2. pc[w] \notin {"find", "append", "flushed", "journal"}
  BY DEF Call, MakeDirectory, CheckDirectory, OpenTemporary, Write, Synchronise, Replace
<1>3. \/ Moves(w, {"idle", "mkdir", "check", "open", "write", "sync", "replace"}) /\ dir' \in {dir, TRUE}
      \/ Moves(w, {"journal"}) /\ ~dir /\ dir'
  <2>1. CASE Call(w)
    BY <2>1 DEF ThreadInv, Call, Goto, Moves, files
  <2>2. CASE MakeDirectory(w)
    BY <2>2, DoneMoves, GotoMoves DEF MakeDirectory, Moves
  <2>3. CASE CheckDirectory(w)
    BY <2>3, DoneMoves, GotoMoves DEF CheckDirectory, Moves, files
  <2>4. CASE OpenTemporary(w) \/ Write(w) \/ Synchronise(w)
    BY <2>4, GotoMoves DEF OpenTemporary, Write, Synchronise, Moves, files
  <2>5. CASE Replace(w)
    BY <2>5, DoneMoves DEF Replace, Moves
  <2>6. QED
    BY <2>1, <2>2, <2>3, <2>4, <2>5
<1>4. /\ calls \in Nat /\ calls' \in Nat /\ calls <= calls'
      /\ dir' \in BOOLEAN /\ (dir => dir')
  <2>1. calls \in Nat /\ calls' \in Nat /\ calls <= calls'
    BY <1>1 DEF JournalInv, PlaceInv
  <2>2. dir \in BOOLEAN
    BY DEF JournalInv, PlaceInv
  <2>3. dir' \in {dir, TRUE} \/ dir'
    BY <1>3
  <2>4. dir' \in BOOLEAN
    BY <1>3, <2>2 DEF Moves, Call, MakeDirectory, CheckDirectory, OpenTemporary, Write,
                      Synchronise, Replace, files
  <2>5. QED
    BY <2>1, <2>2, <2>3, <2>4
<1>5. \A v \in Writer : pc'[v] \in {"find", "append", "flushed"} =>
                        pc[v] = pc'[v] /\ call'[v] = call[v]
  <2>1. CASE Moves(w, {"idle", "mkdir", "check", "open", "write", "sync", "replace"})
    BY <2>1 DEF Moves
  <2>2. CASE Moves(w, {"journal"})
    BY <2>2 DEF Moves
  <2>3. QED
    BY <1>3, <2>1, <2>2
<1>6. PlaceInv'
  <2>1. 1 .. calls \subseteq 1 .. calls' /\ (~dir' => journal' = NoFile)
    <3>1. 1 .. calls \subseteq 1 .. calls'
      BY <1>4
    <3>2. ~dir => journal = NoFile
      BY DEF JournalInv, PlaceInv
    <3>3. QED
      BY <1>1, <1>4, <3>1, <3>2
  <2>2. ASSUME NEW v \in Writer
        PROVE  /\ pc'[v] \in {"find", "append", "flushed"} => call'[v] \in 1 .. calls'
               /\ pc'[v] \in {"append", "flushed"} => journal' # NoFile
    <3>1. /\ pc[v] \in {"find", "append", "flushed"} => call[v] \in 1 .. calls
          /\ pc[v] \in {"append", "flushed"} => journal # NoFile
      BY DEF JournalInv, PlaceInv
    <3>2. QED
      BY <1>1, <1>5, <2>1, <3>1
  <2>3. ASSUME NEW v \in Writer, pc'[v] = "journal"
        PROVE  dir' /\ journal' = NoFile /\ \A u \in Writer \ {v} : pc'[u] # "journal"
    <3>1. CASE v = w
      <4>1. Moves(w, {"journal"}) /\ ~dir /\ dir'
        BY <1>3, <2>3, <3>1 DEF Moves
      <4>2. QED
        BY <1>1, <3>1, <4>1 DEF JournalInv, PlaceInv, Moves
    <3>2. CASE v # w
      <4>1. pc[v] = "journal" /\ dir /\ journal = NoFile
        BY <1>3, <2>3, <3>2 DEF Moves, JournalInv, PlaceInv
      <4>2. Moves(w, {"idle", "mkdir", "check", "open", "write", "sync", "replace"})
              /\ dir' \in {dir, TRUE}
        BY <1>3, <4>1
      <4>3. QED
        BY <1>1, <3>2, <4>1, <4>2 DEF JournalInv, PlaceInv, Moves
    <3>3. QED
      BY <3>1, <3>2
  <2>4. QED
    BY <1>4, <2>1, <2>2, <2>3 DEF PlaceInv
<1>7. Flushed' \subseteq Flushed
  BY <1>5 DEF Flushed
<1>8. QED
  BY <1>1, <1>6, <1>7, JournalStays

\* create's empty journal is written where there was none.
LEMMA CreationKeepsJournal ==
  ASSUME ThreadInv, JournalInv, NEW w \in Writer, WriteJournal(w)
  PROVE  JournalInv'
<1>1. journal = NoFile /\ kept = 0 /\ acked = {}
  BY DEF JournalInv, PlaceInv, LinesInv, WriteJournal
<1>2. Moves(w, {"open"})
  BY GotoMoves DEF WriteJournal
<1>3. \A v \in Writer : pc'[v] # "flushed" /\ pc'[v] # "journal"
  BY <1>1, <1>2 DEF JournalInv, PlaceInv, Moves, WriteJournal
<1>4. UNCHANGED <<dir, kept, calls, acked>> /\ dir /\ journal' = <<>>
  BY DEF WriteJournal, history, JournalInv, PlaceInv
<1>5. PlaceInv'
  <2>1. journal' # NoFile
    <3>1. <<>> \in Seq(Nat \cup {Torn, Part})
      OBVIOUS
    <3>2. QED
      BY <1>4, <3>1, MarksAssumption
  <2>2. ASSUME NEW v \in Writer, pc'[v] \in {"find", "append", "flushed"}
        PROVE  call'[v] \in 1 .. calls'
    <3>1. pc[v] = pc'[v] /\ call'[v] = call[v]
      BY <1>2, <2>2 DEF Moves
    <3>2. QED
      BY <1>4, <2>2, <3>1 DEF JournalInv, PlaceInv
  <2>3. QED
    BY <1>3, <1>4, <2>1, <2>2 DEF JournalInv, PlaceInv
<1>6. Returned' = {} /\ acked' = {}
  BY <1>1, <1>3, <1>4 DEF Returned, Flushed
<1>7. Covered({}, <<>>, 0)
  <2>1. 1 .. 0 = {}
    OBVIOUS
  <2>2. Missing({}, <<>>, 0) = {} /\ TornIn(<<>>, 0) = {}
    BY <2>1 DEF Missing, TornIn
  <2>3. Cardinality({}) = 0
    BY FS_EmptySet
  <2>4. QED
    BY <2>2, <2>3 DEF Covered
<1>8. <<>> \in Seq(Line) /\ Len(<<>>) = 0 /\ kept' = 0
  BY <1>1, <1>4
<1>9. LinesInv'
  BY <1>4, <1>5, <1>6, <1>7, <1>8 DEF LinesInv
<1>10. QED
  BY <1>5, <1>9 DEF JournalInv

\* A thread whose call ends, or starts, adds no line and returns for none.
LEMMA EndingKeepsJournal ==
  ASSUME ThreadInv, JournalInv, NEW w \in Writer,
         \/ CallAppend(w) \/ FindJournal(w) \/ CallFails(w)
  PROVE  JournalInv'
<1>1. UNCHANGED <<dir, journal, kept, acked>> /\ calls' \in {calls, calls + 1}
  BY DEF CallAppend, FindJournal, CallFails, files, history, Counted
<1>2. calls \in Nat /\ calls' \in Nat /\ calls <= calls'
  BY <1>1 DEF JournalInv, PlaceInv
<1>3. \/ Moves(w, {"idle"})
      \/ Moves(w, {"find", "append"}) /\ call'[w] \in 1 .. calls'
         /\ (pc'[w] = "append" => journal # NoFile)
  <2>1. CASE CallAppend(w)
    <3>1. Moves(w, {"find"}) /\ call'[w] = calls' /\ calls' = calls + 1
      BY <2>1 DEF ThreadInv, CallAppend, Goto, Moves, Counted
    <3>2. QED
      BY <1>2, <3>1 DEF Moves
  <2>2. CASE FindJournal(w) /\ journal = NoFile
    BY <2>2, DoneMoves DEF FindJournal
  <2>3. CASE FindJournal(w) /\ journal # NoFile
    <3>1. Moves(w, {"append"}) /\ UNCHANGED <<call, calls>>
      BY <2>3, GotoMoves DEF FindJournal
    <3>2. call[w] \in 1 .. calls
      BY <2>3 DEF FindJournal, JournalInv, PlaceInv
    <3>3. QED
      BY <2>3, <3>1, <3>2 DEF Moves
  <2>4. CASE CallFails(w)
    BY <2>4, DoneMoves DEF CallFails
  <2>5. QED
    BY <2>1, <2>2, <2>3, <2>4
<1>4. PlaceInv'
  BY <1>1, <1>2, <1>3 DEF JournalInv, PlaceInv, Moves
<1>5. Flushed' \subseteq Flushed
  BY <1>3 DEF Flushed, Moves
<1>6. QED
  BY <1>1, <1>4, <1>5, JournalStays

\* Places when a thread ends an append, or has written its line.
LEMMA PlacesOfAppends ==
  ASSUME PlaceInv, NEW w \in Writer, UNCHANGED dir, calls' \in {calls, calls + 1},
         journal # NoFile, journal' # NoFile, Moves(w, {"idle", "flushed"}),
         pc'[w] = "flushed" => call'[w] \in 1 .. calls
  PROVE  PlaceInv'
<1>1. calls \in Nat /\ calls' \in Nat /\ calls <= calls'
  BY DEF PlaceInv
<1>2. 1 .. calls \subseteq 1 .. calls'
  BY <1>1
<1>3. ASSUME NEW v \in Writer
      PROVE  /\ pc'[v] # "journal"
             /\ pc'[v] \in {"find", "append", "flushed"} => call'[v] \in 1 .. calls'
  <2>1. CASE v = w
    BY <1>2, <2>1 DEF Moves
  <2>2. CASE v # w
    <3>1. pc'[v] = pc[v] /\ call'[v] = call[v]
      BY <2>2 DEF Moves
    <3>2. /\ pc[v] # "journal"
          /\ pc[v] \in {"find", "append", "flushed"} => call[v] \in 1 .. calls
      BY DEF PlaceInv
    <3>3. QED
      BY <1>2, <3>1, <3>2
  <2>3. QED
    BY <2>1, <2>2
<1>4. dir' \in BOOLEAN /\ dir'
  BY DEF PlaceInv
<1>5. QED
  BY <1>1, <1>3, <1>4 DEF PlaceInv

\* A thread with an event in its hands.
LEMMA AppendsAreCalls ==
  ASSUME JournalInv, NEW w \in Writer, pc[w] \in {"append", "flushed"}
  PROVE  /\ call[w] \in 1 .. calls /\ calls \in Nat
         /\ journal # NoFile /\ journal \in Seq(Line) /\ Len(journal) \in Nat
         /\ kept \in 0 .. Len(journal)
         /\ acked \subseteq Returned /\ Returned \subseteq 1 .. calls
         /\ Covered(acked, journal, kept) /\ Covered(Returned, journal, Len(journal))
<1>1. call[w] \in 1 .. calls /\ calls \in Nat /\ journal # NoFile
  BY DEF JournalInv, PlaceInv
<1>2. /\ journal \in Seq(Line) /\ kept \in 0 .. Len(journal)
      /\ Covered(acked, journal, kept) /\ Covered(Returned, journal, Len(journal))
  BY <1>1 DEF JournalInv, LinesInv
<1>3. acked \subseteq Returned /\ Returned \subseteq 1 .. calls
  BY ReturnedAreCalls DEF JournalInv, Returned
<1>4. QED
  BY <1>1, <1>2, <1>3

\* A journal is a file.
LEMMA JournalsAreFiles ==
  ASSUME NEW j \in Seq(Line)
  PROVE  j # NoFile
  BY MarksAssumption DEF Line

\* A line goes where the file ends: it is one of its own, or tears the part before it.
LEMMA AppendLineKeepsJournal ==
  ASSUME ThreadInv, JournalInv, NEW w \in Writer, AppendLine(w)
  PROVE  JournalInv'
<1> DEFINE e == call[w]
           n == Len(journal)
<1>1. /\ e \in 1 .. calls /\ calls \in Nat
      /\ journal # NoFile /\ journal \in Seq(Line) /\ n \in Nat
      /\ kept \in 0 .. n
      /\ acked \subseteq Returned /\ Returned \subseteq 1 .. calls
      /\ Covered(acked, journal, kept) /\ Covered(Returned, journal, n)
  BY AppendsAreCalls DEF AppendLine
<1>2. Moves(w, {"flushed"}) /\ UNCHANGED <<dir, calls, acked, call>>
  BY GotoMoves DEF AppendLine, history
<1>3. Returned' \subseteq Returned \cup {e}
  <2>1. ASSUME NEW v \in Writer, pc'[v] = "flushed"
        PROVE  call'[v] \in Returned \cup {e}
    <3>1. CASE v = w
      BY <1>2, <3>1
    <3>2. CASE v # w
      BY <1>2, <2>1, <3>2 DEF Moves, Returned, Flushed
    <3>3. QED
      BY <3>1, <3>2
  <2>2. QED
    BY <1>2, <2>1 DEF Returned, Flushed
<1>4. /\ journal' \in Seq(Line) /\ kept' \in 0 .. Len(journal')
      /\ Covered(acked, journal', kept') /\ Covered(Returned \cup {e}, journal', Len(journal'))
  <2>1. CASE Unfinished
    <3>1. journal' = [journal EXCEPT ![n] = Torn]
          /\ kept' = (IF kept = n THEN kept - 1 ELSE kept)
      BY <2>1 DEF AppendLine
    <3>2. n \in Nat \ {0} /\ journal[n] = Part
      BY <1>1, <2>1 DEF Unfinished
    <3>3. journal' \in Seq(Line) /\ Len(journal') = n /\ kept' \in 0 .. n
      BY <1>1, <3>1, <3>2 DEF Line
    <3>4. \A l \in 1 .. n : journal'[l] = IF l = n THEN Torn ELSE journal[l]
      BY <1>1, <3>1
    <3>5. Covered(Returned \cup {e}, journal', n)
      BY <1>1, <3>2, <3>4, CoveredByTorn
    <3>6. acked \subseteq acked /\ acked \subseteq 1 .. calls
      BY <1>1
    <3>7. CASE kept = n
      <4> DEFINE m == n - 1
      <4>1. Covered(acked, journal, m)
        BY <1>1, <3>2, <3>6, <3>7, CoveredWithout
      <4>2. m \in Nat /\ m <= m /\ \A l \in 1 .. m : journal'[l] = journal[l]
        BY <1>1, <3>2, <3>4
      <4>3. Covered(acked, journal', m)
        <5> HIDE DEF m
        <5>1. QED
          BY <1>1, <3>6, <4>1, <4>2, CoveredFurther
      <4>4. QED
        BY <3>1, <3>3, <3>5, <3>7, <4>3
    <3>8. CASE kept # n
      <4>1. kept \in Nat /\ kept <= kept /\ \A l \in 1 .. kept : journal'[l] = journal[l]
        BY <1>1, <3>4, <3>8
      <4>2. Covered(acked, journal', kept)
        BY <1>1, <3>6, <4>1, CoveredFurther
      <4>3. QED
        BY <3>1, <3>3, <3>5, <3>8, <4>2
    <3>9. QED
      BY <3>7, <3>8
  <2>2. CASE ~Unfinished
    <3>1. journal' = Append(journal, e) /\ kept' = kept
      BY <2>2 DEF AppendLine
    <3>2. e \in Line
      BY <1>1 DEF Line
    <3>3. /\ journal' \in Seq(Line) /\ Len(journal') = n + 1 /\ kept' \in 0 .. n + 1
          /\ journal'[n + 1] = e /\ \A l \in 1 .. n : journal'[l] = journal[l]
      BY <1>1, <3>1, <3>2
    <3>4. Covered(Returned \cup {e}, journal', n + 1)
      BY <1>1, <3>3, CoveredByLine
    <3>5. /\ acked \subseteq acked /\ acked \subseteq 1 .. calls
          /\ kept \in Nat /\ kept <= kept /\ \A l \in 1 .. kept : journal'[l] = journal[l]
      BY <1>1, <3>3
    <3>6. Covered(acked, journal', kept)
      BY <1>1, <3>5, CoveredFurther
    <3>7. QED
      BY <3>1, <3>3, <3>4, <3>6
  <2>3. QED
    BY <2>1, <2>2
<1>5. Covered(Returned', journal', Len(journal'))
  <2>1. Returned \cup {e} \subseteq 1 .. calls /\ Len(journal') \in Nat
    <3>1. Returned \cup {e} \subseteq 1 .. calls
      BY <1>1
    <3>2. Len(journal') \in Nat
      BY <1>4
    <3>3. QED
      BY <3>1, <3>2
  <2>2. QED
    BY <1>1, <1>3, <1>4, <2>1, CoveredFewer
<1>6. journal' # NoFile
  BY <1>4, JournalsAreFiles
<1>7. PlaceInv'
  <2>1. Moves(w, {"idle", "flushed"}) /\ calls' \in {calls, calls + 1} /\ call'[w] \in 1 .. calls
    BY <1>1, <1>2 DEF Moves
  <2>2. QED
    BY <1>1, <1>2, <1>6, <2>1, PlacesOfAppends DEF JournalInv
<1>8. LinesInv'
  BY <1>1, <1>2, <1>4, <1>5, <1>6 DEF LinesInv
<1>9. QED
  BY <1>7, <1>8 DEF JournalInv

\* What a write leaves when it fails adds no event, and is kept by no one.
LEMMA AppendPartKeepsJournal ==
  ASSUME ThreadInv, JournalInv, NEW w \in Writer, AppendPart(w)
  PROVE  JournalInv'
<1>1. /\ calls \in Nat
      /\ journal # NoFile /\ journal \in Seq(Line) /\ Len(journal) \in Nat
      /\ kept \in 0 .. Len(journal)
      /\ acked \subseteq Returned /\ Returned \subseteq 1 .. calls
      /\ Covered(acked, journal, kept) /\ Covered(Returned, journal, Len(journal))
  BY AppendsAreCalls DEF AppendPart
<1>2. /\ Moves(w, {"idle"}) /\ UNCHANGED <<dir, kept, acked>>
      /\ calls' = calls + 1
  BY DoneMoves DEF AppendPart, history, Counted
<1>3. Returned' \subseteq Returned
  BY <1>2 DEF Moves, Returned, Flushed
<1>4. /\ journal' \in Seq(Line) /\ Len(journal') \in Nat /\ Len(journal) <= Len(journal')
      /\ \A l \in 1 .. Len(journal) : journal'[l] = journal[l]
  BY <1>1 DEF AppendPart, Line
<1>5. Covered(Returned', journal', Len(journal'))
  BY <1>1, <1>3, <1>4, CoveredFurther
<1>6. Covered(acked, journal', kept)
  <2>1. /\ acked \subseteq acked /\ acked \subseteq 1 .. calls
        /\ kept \in Nat /\ kept <= kept /\ \A l \in 1 .. kept : journal'[l] = journal[l]
    BY <1>1, <1>4
  <2>2. QED
    BY <1>1, <2>1, CoveredFurther
<1>7. journal' # NoFile /\ kept \in 0 .. Len(journal') /\ acked \subseteq 1 .. calls + 1
  BY <1>1, <1>4, JournalsAreFiles
<1>8. PlaceInv'
  <2>1. Moves(w, {"idle", "flushed"}) /\ pc'[w] # "flushed" /\ calls' \in {calls, calls + 1}
    BY <1>2 DEF Moves
  <2>2. QED
    BY <1>1, <1>2, <1>7, <2>1, PlacesOfAppends DEF JournalInv
<1>9. LinesInv'
  BY <1>2, <1>4, <1>5, <1>6, <1>7 DEF LinesInv
<1>10. QED
  BY <1>8, <1>9 DEF JournalInv

\* fsync keeps every line, and so every event that returned or is about to.
LEMMA SynchroniseKeepsJournal ==
  ASSUME ThreadInv, JournalInv, NEW w \in Writer, SynchroniseJournal(w)
  PROVE  JournalInv'
<1>1. /\ call[w] \in Returned /\ calls \in Nat
      /\ journal # NoFile /\ journal \in Seq(Line) /\ Len(journal) \in Nat
      /\ acked \subseteq Returned /\ Returned \subseteq 1 .. calls
      /\ Covered(Returned, journal, Len(journal))
  BY AppendsAreCalls DEF SynchroniseJournal, Returned, Flushed
<1>2. /\ Moves(w, {"idle"}) /\ UNCHANGED <<dir, journal, calls>>
      /\ kept' = Len(journal) /\ acked' = acked \cup {call[w]}
  BY DoneMoves DEF SynchroniseJournal
<1>3. acked' \subseteq Returned
  BY <1>1, <1>2
<1>4. Flushed' \subseteq Flushed
  BY <1>2 DEF Moves, Flushed
<1>5. Returned' \subseteq Returned
  BY <1>3, <1>4 DEF Returned
<1>6. Covered(acked', journal, Len(journal)) /\ Covered(Returned', journal, Len(journal))
  BY <1>1, <1>3, <1>5, CoveredFewer
<1>7. PlaceInv'
  <2>1. Moves(w, {"idle", "flushed"}) /\ pc'[w] # "flushed" /\ calls' \in {calls, calls + 1}
    BY <1>2 DEF Moves
  <2>2. QED
    BY <1>1, <1>2, <2>1, PlacesOfAppends DEF JournalInv
<1>8. LinesInv'
  <2>1. Len(journal) \in 0 .. Len(journal)
    BY <1>1
  <2>2. acked' \subseteq 1 .. calls'
    BY <1>1, <1>2, <1>3
  <2>3. QED
    BY <1>1, <1>2, <1>6, <2>1, <2>2 DEF LinesInv
<1>9. QED
  BY <1>7, <1>8 DEF JournalInv

\* A prefix of the lines, or one and a part of the next, still has what was kept.
LEMMA LeftoversCover ==
  ASSUME JournalInv, journal' \in Leftovers
  PROVE  IF journal' = NoFile THEN acked = {}
         ELSE journal' \in Seq(Line) /\ Covered(acked, journal', Len(journal'))
<1>1. CASE journal = NoFile
  BY <1>1 DEF Leftovers, JournalInv, LinesInv
<1>2. CASE journal # NoFile
  <2> DEFINE n == Len(journal)
  <2>1. /\ journal \in Seq(Line) /\ n \in Nat /\ kept \in 0 .. n /\ calls \in Nat
        /\ acked \subseteq acked /\ acked \subseteq 1 .. calls /\ Covered(acked, journal, kept)
    BY <1>2 DEF JournalInv, LinesInv, PlaceInv
  <2>2. ASSUME NEW k \in kept .. n, journal' = SubSeq(journal, 1, k)
        PROVE  journal' \in Seq(Line) /\ Covered(acked, journal', Len(journal'))
    <3>1. k \in Nat /\ kept \in Nat /\ kept <= k /\ 1 .. k \subseteq 1 .. n
      BY <2>1
    <3>2. journal' \in Seq(Line) /\ Len(journal') = k
          /\ \A l \in 1 .. kept : journal'[l] = journal[l]
      BY <2>1, <2>2, <3>1
    <3>3. QED
      BY <2>1, <3>1, <3>2, CoveredFurther
  <2>3. ASSUME NEW k \in kept .. n - 1, journal' = Append(SubSeq(journal, 1, k), Part)
        PROVE  journal' \in Seq(Line) /\ Covered(acked, journal', Len(journal'))
    <3>1. k \in Nat /\ k + 1 \in Nat /\ kept \in Nat /\ kept <= k + 1 /\ k <= n
      BY <2>1
    <3>2. /\ SubSeq(journal, 1, k) \in Seq(Line) /\ Len(SubSeq(journal, 1, k)) = k
          /\ \A l \in 1 .. kept : SubSeq(journal, 1, k)[l] = journal[l]
      BY <2>1, <2>3, <3>1
    <3>3. Part \in Line
      BY DEF Line
    <3>4. journal' \in Seq(Line) /\ Len(journal') = k + 1
          /\ \A l \in 1 .. kept : journal'[l] = journal[l]
      BY <2>1, <2>3, <3>1, <3>2, <3>3
    <3>5. Len(journal') \in Nat /\ kept <= Len(journal')
      BY <3>1, <3>4
    <3>6. QED
      BY <2>1, <3>1, <3>4, <3>5, CoveredFurther
  <2>4. CASE kept = 0 /\ journal' = NoFile
    <3>1. 1 .. 0 = {}
      OBVIOUS
    <3>2. Missing(acked, journal, 0) = acked /\ TornIn(journal, 0) = {}
      BY <3>1 DEF Missing, TornIn
    <3>3. Cardinality({}) = 0
      BY FS_EmptySet
    <3>4. IsFiniteSet(acked) /\ Cardinality(acked) \in Nat
      BY <2>1, <3>2, CoveredIsFinite
    <3>5. Cardinality(acked) = 0
      <4>1. Covered(acked, journal, 0)
        BY <2>1, <2>4
      <4>2. Cardinality(acked) <= 0
        BY <3>2, <3>3, <4>1 DEF Covered
      <4>3. QED
        BY <3>4, <4>2
    <3>6. QED
      BY <2>4, <3>4, <3>5, FS_EmptySet
  <2>5. \/ \E k \in kept .. n : journal' = SubSeq(journal, 1, k)
        \/ \E k \in kept .. n - 1 : journal' = Append(SubSeq(journal, 1, k), Part)
        \/ kept = 0 /\ journal' = NoFile
    BY <1>2 DEF Leftovers
  <2>6. QED
    BY <2>2, <2>3, <2>4, <2>5, JournalsAreFiles
<1>3. QED
  BY <1>1, <1>2

\* What power loss leaves was kept, or is all there ever was.
LEMMA PowerLossKeepsJournal ==
  ASSUME JournalInv, PowerLoss
  PROVE  JournalInv'
<1>1. IF journal' = NoFile THEN acked = {}
      ELSE journal' \in Seq(Line) /\ Covered(acked, journal', Len(journal'))
  BY LeftoversCover DEF PowerLoss
<1>2. UNCHANGED acked /\ kept' = IF journal' = NoFile THEN 0 ELSE Len(journal')
  BY DEF PowerLoss, history
<1>3. \A v \in Writer : pc'[v] = "idle"
  BY DEF PowerLoss
<1>4. Returned' = acked
  BY <1>2, <1>3 DEF Returned, Flushed
<1>5. calls \in Nat /\ calls' = calls + 1 /\ acked \subseteq 1 .. calls
  BY DEF JournalInv, PlaceInv, LinesInv, PowerLoss, Counted
<1>6. dir \in BOOLEAN
  BY DEF JournalInv, PlaceInv
<1>7. dir' \in BOOLEAN /\ (~dir' => journal' = NoFile)
  BY <1>6 DEF PowerLoss
<1>8. calls' \in Nat /\ acked \subseteq 1 .. calls'
  BY <1>5
<1>9. PlaceInv'
  BY <1>3, <1>7, <1>8 DEF PlaceInv
<1>10. journal' # NoFile => kept' \in 0 .. Len(journal')
  <2>1. journal' # NoFile => Len(journal') \in Nat
    BY <1>1
  <2>2. QED
    BY <1>2, <2>1
<1>11. LinesInv'
  BY <1>1, <1>2, <1>4, <1>8, <1>10 DEF LinesInv
<1>12. QED
  BY <1>9, <1>11 DEF JournalInv

\* status reads no journal, and nothing comes of nothing.
LEMMA IdleKeepsJournal ==
  ASSUME JournalInv, ReadStatus \/ UNCHANGED vars
  PROVE  JournalInv'
<1>1. UNCHANGED <<dir, journal, kept, pc, call, acked, calls>>
  BY DEF ReadStatus, vars, files, threads, history
<1>2. Flushed' = Flushed
  BY <1>1 DEF Flushed
<1>3. Returned' = Returned
  BY <1>1, <1>2 DEF Returned
<1>4. QED
  BY <1>1, <1>3 DEF JournalInv, PlaceInv, LinesInv

\* The journal and its events agree in every reachable state.
LEMMA JournalInvariance == Spec => []JournalInv
<1>1. Init => JournalInv
  <2>1. ASSUME Init
        PROVE  PlaceInv
    BY <2>1 DEF Init, PlaceInv
  <2>2. ASSUME Init
        PROVE  LinesInv
    BY <2>2 DEF Init, LinesInv
  <2>3. QED
    BY <2>1, <2>2 DEF JournalInv
<1>2. IInv /\ JournalInv /\ [Next]_vars => JournalInv'
  BY SavingKeepsJournal, CreationKeepsJournal, EndingKeepsJournal, AppendLineKeepsJournal,
     AppendPartKeepsJournal, SynchroniseKeepsJournal, PowerLossKeepsJournal, IdleKeepsJournal
     DEF Next, IInv
<1>3. QED
  BY <1>1, <1>2, Invariance, PTL DEF Spec

-----------------------------------------------------------------------------
(* What the run checks.                                                    *)

(***************************************************************************)
(* _atomic_write_text: fsync before os.replace.  Readers without a lease   *)
(* and whoever comes after a failure or a power loss find nothing or a     *)
(* whole checkpoint.                                                       *)
(***************************************************************************)
THEOREM CheckpointsSurvive == Spec => []CheckpointsAreWhole
<1>1. IInv => CheckpointsAreWhole
  BY DEF IInv, FileInv, Checkpoints, CheckpointsAreWhole
<1>2. QED
  BY <1>1, Invariance, PTL

(***************************************************************************)
(* append_event returns after fsync, so its event survives whatever comes, *)
(* but for those that continued a part of a line: no more events are       *)
(* missing than lines are torn, for any number of threads and calls.       *)
(***************************************************************************)
THEOREM EventsSurvive == Spec => []EventsAreKept
<1>1. ASSUME JournalInv
      PROVE  EventsAreKept
  <2>1. CASE journal = NoFile
    <3>1. acked = {} /\ Lines = {} /\ TornLines = {}
      BY <1>1, <2>1 DEF JournalInv, LinesInv, Lines, TornLines
    <3>2. acked \ Lines = {} /\ Cardinality({}) = 0
      BY <3>1, FS_EmptySet
    <3>3. QED
      BY <3>1, <3>2 DEF EventsAreKept
  <2>2. CASE journal # NoFile
    <3>1. /\ calls \in Nat /\ Returned \subseteq 1 .. calls /\ acked \subseteq Returned
          /\ journal \in Seq(Line) /\ Len(journal) \in Nat
          /\ Covered(Returned, journal, Len(journal))
      BY <1>1, <2>2, ReturnedAreCalls DEF JournalInv, PlaceInv, LinesInv, Returned
    <3>2. Covered(acked, journal, Len(journal))
      BY <3>1, CoveredFewer
    <3>3. DOMAIN journal = 1 .. Len(journal)
      BY <3>1
    <3>4. /\ acked \ Lines = Missing(acked, journal, Len(journal))
          /\ TornLines = TornIn(journal, Len(journal))
      BY <2>2, <3>3 DEF Lines, TornLines, Missing, TornIn
    <3>5. QED
      BY <3>2, <3>4 DEF Covered, EventsAreKept
  <2>3. QED
    BY <2>1, <2>2
<1>2. QED
  BY <1>1, JournalInvariance, PTL
=============================================================================
