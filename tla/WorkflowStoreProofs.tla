-------------------------- MODULE WorkflowStoreProofs --------------------------
(***************************************************************************)
(* Proofs about WorkflowStore for any sessions, processes and bounds:      *)
(* crashes between any two file operations cost neither the state nor the  *)
(* log, until an operation throws or sessions race; throws alone cost no   *)
(* change and no event's place; and only an overwrite takes a change back. *)
(*                                                                         *)
(* LogIsHistory alone is not inductive: what a session appends depends on  *)
(* its memory agreeing with the state it wrote, on the store's cache       *)
(* agreeing with the log, and on no other session being between two file   *)
(* operations.  StoreInv adds the first two, OrderInv the third.           *)
(***************************************************************************)
EXTENDS WorkflowStore, TLAPS

-----------------------------------------------------------------------------
(* Type correctness.                                                        *)

(* The types hold at first.                                                 *)
LEMMA InitTypeOK == Init => TypeOK
  BY StoreAssumption DEF Init, TypeOK, Histories, Shut

(* The event of a history that is not empty.                                *)
LEMMA TypedEvent ==
  ASSUME NEW hist \in Histories, hist # <<>>
  PROVE  /\ EventOf(hist) \in [seq : Nat, id : Nat]
         /\ Len(hist) \in Nat \ {0}
  BY DEF EventOf, Histories

\* Opening a session with a history keeps mem well typed.
LEMMA TypedMem ==
  ASSUME TypeOK, NEW s \in Sessions, NEW h \in Histories,
         NEW pc \in {"closed", "creating", "open", "written"}
  PROVE  [mem EXCEPT ![s] = [pc |-> pc, hist |-> h]] \in
           [Sessions -> [pc : {"closed", "creating", "open", "written"}, hist : Histories]]
  BY DEF TypeOK

(* A cached sequence number is one, whatever session caches it.             *)
LEMMA TypedCache ==
  ASSUME TypeOK, NEW s \in Sessions, NEW c \in Nat \cup {Unread}
  PROVE  [cache EXCEPT ![Home[s]] = c] \in [Processes -> Nat \cup {Unread}]
  BY StoreAssumption DEF TypeOK

\* Every log that a load or an append leaves is a sequence of events.
LEMMA TypedLog ==
  ASSUME TypeOK
  PROVE  /\ Len(log) \in Nat
         /\ Recovered \in Seq([seq : Nat, id : Nat])
         /\ \A s \in Sessions : InSequence(s) =>
              Append(log, EventOf(mem[s].hist)) \in Seq([seq : Nat, id : Nat])
<1>1. Len(log) \in Nat /\ disk.hist \in Histories /\ log \in Seq([seq : Nat, id : Nat])
  BY DEF TypeOK
<1>2. Recovered \in Seq([seq : Nat, id : Nat])
  <2>1. CASE disk.pending /\ Len(log) < Len(disk.hist)
    <3>1. disk.hist # <<>>
      BY <1>1, <2>1
    <3> QED BY <1>1, <2>1, <3>1, TypedEvent DEF Recovered
  <2>2. CASE ~(disk.pending /\ Len(log) < Len(disk.hist))
    BY <1>1, <2>2 DEF Recovered
  <2> QED BY <2>1, <2>2
<1>3. ASSUME NEW s \in Sessions, InSequence(s)
      PROVE  Append(log, EventOf(mem[s].hist)) \in Seq([seq : Nat, id : Nat])
  <2>1. mem[s].hist \in Histories
    BY DEF TypeOK
  <2>2. LastSequence(s) \in Nat
    BY <1>1, StoreAssumption DEF TypeOK, LastSequence
  <2>3. mem[s].hist # <<>>
    BY <1>3, <2>1, <2>2 DEF InSequence, Histories
  <2> QED BY <1>1, <2>1, <2>3, TypedEvent
<1> QED BY <1>1, <1>2, <1>3

(* A session that appends a change has a history.                           *)
LEMMA TypedChange ==
  ASSUME TypeOK, NEW s \in Sessions
  PROVE  Changed(s) \in Histories /\ mem[s].hist \in Histories
  BY DEF TypeOK, Changed, Histories

(* The types are kept by every step.                                        *)
LEMMA NextTypeOK == TypeOK /\ [Next]_vars => TypeOK'
<1> SUFFICES ASSUME TypeOK, [Next]_vars PROVE TypeOK'
  OBVIOUS
<1> USE DEF history
<1>0. ASSUME NEW s \in Sessions, NoteWrite(s) \/ NoteLoad(s) \/ UNCHANGED history
      PROVE  stale' \subseteq Sessions /\ races' \subseteq {"overwrite", "intrusion"}
  BY <1>0 DEF NoteWrite, NoteLoad, TypeOK
<1>1. ASSUME NEW s \in Sessions, CreateDirectory(s) PROVE TypeOK'
  BY <1>1, TypedMem DEF CreateDirectory, TypeOK, Histories
<1>2. ASSUME NEW s \in Sessions, CreateState(s) PROVE TypeOK'
  BY <1>2 DEF CreateState, TypeOK, Histories
<1>3. ASSUME NEW s \in Sessions, CreateLog(s) PROVE TypeOK'
  BY <1>3, TypedMem, TypedCache DEF CreateLog, Opened, TypeOK, Histories
<1>4. ASSUME NEW s \in Sessions, Load(s) PROVE TypeOK'
  <2>1. log' \in Seq([seq : Nat, id : Nat]) /\ Len(log') \in Nat
    BY <1>4, TypedLog DEF Load
  <2>2. cache' \in [Processes -> Nat \cup {Unread}]
    BY <1>4, <2>1, StoreAssumption DEF Load, Remember, TypeOK
  <2>3. mem' \in [Sessions -> [pc : {"closed", "creating", "open", "written"}, hist : Histories]]
    BY <1>4, TypedMem DEF Load, Opened, LoadedHistory, TypeOK
  <2> QED BY <1>0, <1>4, <2>1, <2>2, <2>3 DEF Load, TypeOK
<1>5. ASSUME NEW s \in Sessions, LoadThrows(s) PROVE TypeOK'
  BY <1>5, TypedLog, StoreAssumption DEF LoadThrows, Remember, TypeOK
<1>6. ASSUME NEW s \in Sessions, WriteState(s) PROVE TypeOK'
  BY <1>0, <1>6, TypedMem, TypedChange DEF WriteState, TypeOK
<1>7. ASSUME NEW s \in Sessions, WriteStateThrows(s) PROVE TypeOK'
  BY <1>7, TypedMem, TypedChange DEF WriteStateThrows, Opened, TypeOK
<1>8. ASSUME NEW s \in Sessions, AppendEvent(s) PROVE TypeOK'
  <2>1. log' \in Seq([seq : Nat, id : Nat])
    BY <1>8, TypedLog DEF AppendEvent
  <2>2. Len(mem[s].hist) \in Nat
    BY TypedChange DEF Histories
  <2> QED BY <1>8, <2>1, <2>2, TypedMem, TypedCache, TypedChange DEF AppendEvent, Opened, TypeOK
<1>9. ASSUME NEW s \in Sessions, AppendRefused(s) PROVE TypeOK'
  <2>1. cache' \in [Processes -> Nat \cup {Unread}]
    BY <1>9, TypedLog, StoreAssumption DEF AppendRefused, TypeOK
  <2> QED BY <1>9, <2>1, TypedMem, TypedChange DEF AppendRefused, Opened, TypeOK
<1>10. ASSUME NEW s \in Sessions, AppendThrows(s) PROVE TypeOK'
  <2>1. log' \in Seq([seq : Nat, id : Nat])
    BY <1>10, TypedLog DEF AppendThrows, TypeOK
  <2> QED BY <1>10, <2>1, TypedMem, TypedChange DEF AppendThrows, Opened, TypeOK
<1>11. ASSUME NEW s \in Sessions, Close(s) PROVE TypeOK'
  BY <1>11, TypedMem DEF Close, Shut, TypeOK, Histories
<1>12. ASSUME NEW p \in Processes, Crash(p) PROVE TypeOK'
  BY <1>12 DEF Crash, Shut, TypeOK, Histories
<1>13. CASE UNCHANGED vars
  BY <1>13 DEF vars, TypeOK
<1> QED
  BY <1>1, <1>2, <1>3, <1>4, <1>5, <1>6, <1>7, <1>8, <1>9, <1>10, <1>11, <1>12, <1>13
     DEF Next, Step

\* The files, the cache and the sessions keep their types, whatever crashes,
\* throws or runs at the same time.
THEOREM StoreTypeCorrect == Spec => []TypeOK
  BY InitTypeOK, NextTypeOK, PTL DEF Spec
-----------------------------------------------------------------------------
(* Sessions in order.  While nobody races, one session at most is between   *)
(* two file operations, and every other is closed or has a stale copy.      *)

Busy(s) == mem[s].pc \in {"creating", "written"}

\* An open session has files to work on.
FilesOpen ==
  /\ files = "none" => stale = {} /\ \A s \in Sessions : Closed(s)
  /\ \A s \in Sessions :
       /\ mem[s].pc = "creating" => files \in {"directory", "state", "all"}
       /\ mem[s].pc \in {"open", "written"} => files \in {"state", "all"}

BusyInv ==
  \A s \in Sessions : Busy(s) =>
    s \notin stale /\ \A t \in Sessions \ {s} : Closed(t) \/ t \in stale

OrderInv == TypeOK /\ FilesOpen /\ BusyInv

\* A session's step changes its own copy alone.
LEMMA OwnCopy ==
  ASSUME TypeOK, NEW s \in Sessions, NEW r, mem' = [mem EXCEPT ![s] = r]
  PROVE  mem'[s] = r /\ \A t \in Sessions \ {s} : mem'[t] = mem[t]
  BY DEF TypeOK

(* What the history variables take note of is never forgotten.              *)
LEMMA RacesStay == ASSUME [Next]_vars PROVE races \subseteq races'
  BY DEF Next, Step, vars, history, CreateDirectory, CreateState, CreateLog, Load,
         LoadThrows, WriteState, WriteStateThrows, AppendEvent, AppendRefused, AppendThrows, Close,
         Crash, NoteWrite, NoteLoad

(* Files once made stay, and an open session keeps them in place.           *)
LEMMA FilesOpenStep == ASSUME TypeOK, FilesOpen, [Next]_vars PROVE FilesOpen'
<1> USE DEF history, FilesOpen, Closed
<1>1. CASE UNCHANGED vars
  BY <1>1 DEF vars
<1>2. ASSUME NEW p \in Processes, Crash(p) PROVE FilesOpen'
  <2>1. UNCHANGED <<files, stale>> /\ \A s \in Sessions : mem'[s] \in {mem[s], Shut}
    BY <1>2 DEF Crash, TypeOK
  <2> QED BY <2>1 DEF Shut
<1>3. ASSUME NEW s \in Sessions, Step(s) PROVE FilesOpen'
  <2>1. CASE CreateDirectory(s)
    BY <2>1, OwnCopy DEF CreateDirectory
  <2>2. CASE CreateState(s)
    BY <2>2 DEF CreateState
  <2>3. CASE CreateLog(s)
    BY <2>3, OwnCopy DEF CreateLog, Opened
  <2>4. CASE Load(s)
    BY <2>4, OwnCopy DEF Load, Loadable, Opened
  <2>5. CASE LoadThrows(s)
    BY <2>5 DEF LoadThrows
  <2>6. CASE WriteState(s)
    BY <2>6, OwnCopy DEF WriteState
  <2>7. CASE WriteStateThrows(s) \/ AppendEvent(s) \/ AppendRefused(s) \/ AppendThrows(s)
    <3>1. UNCHANGED <<files, stale>> /\ mem[s].pc \in {"open", "written"} /\ \E h : Opened(s, h)
      BY <2>7 DEF WriteStateThrows, AppendEvent, AppendRefused, AppendThrows
    <3> QED BY <3>1, OwnCopy DEF Opened
  <2>8. CASE Close(s)
    BY <2>8, OwnCopy DEF Close, Shut
  <2> QED BY <1>3, <2>1, <2>2, <2>3, <2>4, <2>5, <2>6, <2>7, <2>8 DEF Step
<1> QED BY <1>1, <1>2, <1>3 DEF Next

\* A step that leaves a session closed or open, and no copy fresher than it was.
LEMMA BusyAfter ==
  ASSUME OrderInv, NEW s \in Sessions, UNCHANGED stale,
         mem'[s].pc \in {"closed", "open"}, \A t \in Sessions \ {s} : mem'[t] = mem[t],
         ~Closed(s)
  PROVE  BusyInv'
  BY DEF OrderInv, BusyInv, Busy, Closed

(* The order is kept until a session overwrites or intrudes.                *)
LEMMA OrderStep == ASSUME OrderInv, [Next]_vars, races' = {} PROVE OrderInv'
<1>1. TypeOK' /\ FilesOpen' /\ TypeOK
  BY NextTypeOK, FilesOpenStep DEF OrderInv
<1> USE DEF history
<1>2. CASE UNCHANGED vars
  BY <1>2 DEF vars, OrderInv, BusyInv, Busy, Closed, FilesOpen, TypeOK
<1>3. ASSUME NEW p \in Processes, Crash(p) PROVE BusyInv'
  <2>1. stale' = stale /\ \A s \in Sessions : mem'[s] \in {mem[s], Shut}
    BY <1>1, <1>3 DEF Crash, TypeOK
  <2> QED BY <2>1 DEF OrderInv, BusyInv, Busy, Closed, Shut
<1>4. ASSUME NEW s \in Sessions, Step(s) PROVE BusyInv'
  <2>1. CASE CreateDirectory(s)
    BY <1>1, <2>1, OwnCopy DEF CreateDirectory, OrderInv, FilesOpen, BusyInv, Busy, Closed
  <2>2. CASE CreateState(s)
    BY <2>2 DEF CreateState, OrderInv, BusyInv, Busy, Closed
  <2>3. CASE LoadThrows(s)
    BY <2>3 DEF LoadThrows, OrderInv, BusyInv, Busy, Closed
  <2>4. CASE Load(s)
    <3>1. \A t \in Sessions : ~Busy(t)
      <4>1. "intrusion" \notin races' /\ NoteLoad(s)
        BY <2>4 DEF Load
      <4> QED BY <4>1 DEF NoteLoad, Busy
    <3>2. mem'[s].pc = "open" /\ \A t \in Sessions \ {s} : mem'[t] = mem[t]
      <4>1. mem'[s] = [pc |-> "open", hist |-> LoadedHistory]
            /\ \A t \in Sessions \ {s} : mem'[t] = mem[t]
        BY <1>1, <2>4, OwnCopy DEF Load, Opened
      <4> QED BY <4>1
    <3> QED BY <3>1, <3>2 DEF BusyInv, Busy
  <2>5. CASE WriteState(s)
    <3>0. s \notin stale
      <4>1. "overwrite" \notin races' /\ NoteWrite(s)
        BY <2>5 DEF WriteState
      <4> QED BY <4>1 DEF NoteWrite
    <3>1. /\ s \notin stale /\ stale' = {t \in Sessions \ {s} : ~Closed(t)}
          /\ mem'[s].pc = "written" /\ \A t \in Sessions \ {s} : mem'[t] = mem[t]
          /\ mem[s].pc = "open"
      <4>1. mem'[s] = [pc |-> "written", hist |-> Changed(s)]
            /\ \A t \in Sessions \ {s} : mem'[t] = mem[t]
        BY <1>1, <2>5, OwnCopy DEF WriteState
      <4> QED BY <2>5, <3>0, <4>1 DEF WriteState, NoteWrite
    <3>2. \A t \in Sessions \ {s} : ~Busy(t)
      BY <3>1 DEF OrderInv, BusyInv, Closed
    <3> QED BY <3>1, <3>2 DEF BusyInv, Busy, Closed
  <2>6. CASE CreateLog(s) \/ WriteStateThrows(s) \/ AppendEvent(s) \/ AppendRefused(s)
             \/ AppendThrows(s) \/ Close(s)
    <3>1. UNCHANGED stale /\ ~Closed(s)
      BY <2>6 DEF CreateLog, WriteStateThrows, AppendEvent, AppendRefused, AppendThrows,
                  Close, Closed
    <3>2. CASE Close(s)
      <4>1. mem'[s] = Shut /\ \A t \in Sessions \ {s} : mem'[t] = mem[t]
        BY <1>1, <3>2, OwnCopy DEF Close
      <4> QED BY <3>1, <4>1, BusyAfter DEF Shut
    <3>3. CASE ~Close(s)
      <4>1. PICK h : Opened(s, h)
        BY <2>6, <3>3 DEF CreateLog, WriteStateThrows, AppendEvent, AppendRefused, AppendThrows
      <4>2. /\ mem'[s] = [pc |-> "open", hist |-> h]
            /\ \A t \in Sessions \ {s} : mem'[t] = mem[t]
        BY <1>1, <4>1, OwnCopy DEF Opened
      <4> QED BY <3>1, <4>2, BusyAfter
    <3> QED BY <3>2, <3>3
  <2> QED BY <1>4, <2>1, <2>2, <2>3, <2>4, <2>5, <2>6 DEF Step
<1> QED BY <1>1, <1>2, <1>3, <1>4 DEF Next, OrderInv
-----------------------------------------------------------------------------
(* The inductive invariant of an undisturbed store.                         *)

NoFault == faults = 0

\* Nothing is written before a run's first change.
Unwritten == disk.hist = <<>> /\ ~disk.pending /\ log = <<>>

\* Until the files exist there is nothing in them, and no cache of them.
FilesInv ==
  /\ files \in {"none", "directory"} => Unwritten
  /\ files = "state" => log = <<>>
  /\ files # "all" => \A p \in Processes : cache[p] = Unread

\* A pending event is the last change's; without one the run is untouched,
\* and a store that has read its log has read that it is empty.
PendingInv ==
  /\ disk.pending <=> disk.hist # <<>>
  /\ ~disk.pending => \A p \in Processes : cache[p] \in {Unread, 0}

\* What a session remembers is what is on disk, unless its copy is stale.
SessionInv(s) ==
  /\ mem[s].pc = "creating" => files \in {"directory", "state"} /\ Unwritten
  /\ mem[s].pc \in {"open", "written"} => files \in {"state", "all"} /\ mem[s].hist = disk.hist
  /\ files = "all" /\ mem[s].pc = "open" => Len(log) = Len(disk.hist)
  /\ files = "all" /\ mem[s].pc = "written" => Len(log) + 1 = Len(disk.hist)
  /\ files = "all" /\ mem[s].pc \in {"open", "written"} => cache[Home[s]] \in {Unread, Len(log)}

SessionsInv == \A s \in Sessions \ stale : SessionInv(s)

StoreInv == OrderInv /\ NoFault /\ FilesInv /\ PendingInv /\ LogTellsHistory /\ SessionsInv

(* The order and the invariant hold at first.                               *)
LEMMA StoreInvInit == Init => StoreInv
  BY InitTypeOK
     DEF Init, StoreInv, OrderInv, NoFault, FilesOpen, BusyInv, Busy, Closed, FilesInv, Unwritten,
         PendingInv, LogTellsHistory, SessionsInv, SessionInv, Shut

\* The pending event of a well-kept log is missing from it or is its last.
LEMMA PendingEventFits ==
  ASSUME StoreInv, files = "all", disk.pending
  PROVE  PendingFits /\ Readable /\ EventOf(disk.hist) = [seq |-> Len(disk.hist), id |-> disk.hist[Len(disk.hist)]]
<1>1. /\ Len(log) \in Nat /\ Len(disk.hist) \in Nat
      /\ Len(log) \in {Len(disk.hist) - 1, Len(disk.hist)}
      /\ \A i \in 1..Len(log) : log[i] = [seq |-> i, id |-> disk.hist[i]]
  BY DEF StoreInv, OrderInv, TypeOK, LogTellsHistory, Histories
<1>2. Len(disk.hist) > 0
  BY <1>1 DEF StoreInv, OrderInv, PendingInv, TypeOK, Histories
<1>3. Readable
  <2>1. ASSUME NEW i \in 1..Len(log) PROVE log[i].seq = i
    <3>1. log[i] = [seq |-> i, id |-> disk.hist[i]]
      BY <1>1
    <3> QED BY <3>1
  <2> QED BY <2>1 DEF Readable
<1>4. EventOf(disk.hist) = [seq |-> Len(disk.hist), id |-> disk.hist[Len(disk.hist)]]
  BY DEF EventOf
<1>5. CASE Len(log) = Len(disk.hist)
  BY <1>1, <1>2, <1>3, <1>4, <1>5 DEF PendingFits
<1>6. CASE Len(log) = Len(disk.hist) - 1
  BY <1>1, <1>2, <1>3, <1>4, <1>6 DEF PendingFits
<1> QED BY <1>1, <1>3, <1>4, <1>5, <1>6

(* The invariant makes the run recoverable.                                 *)
LEMMA InvRecoverable == StoreInv => Recoverable
  BY PendingEventFits DEF Recoverable, Loadable

(* Nothing is asked of a closed session.                                    *)
LEMMA ClosedSession ==
  ASSUME NEW t \in Sessions, mem'[t].pc = "closed" PROVE SessionInv(t)'
  BY DEF SessionInv

\* Where every other session is closed or stale, a step answers for its own.
LEMMA OnlyOwn ==
  ASSUME StoreInv, NEW s \in Sessions, NEW r, mem' = [mem EXCEPT ![s] = r],
         \A t \in Sessions \ {s} : Closed(t) \/ t \in stale', SessionInv(s)'
  PROVE  SessionsInv'
<1>1. \A t \in Sessions \ {s} : mem'[t] = mem[t]
  BY OwnCopy DEF StoreInv, OrderInv
<1>2. ASSUME NEW t \in Sessions \ stale' PROVE SessionInv(t)'
  BY <1>1, <1>2, ClosedSession DEF Closed
<1> QED BY <1>2 DEF SessionsInv

\* A session between two file operations is alone with a fresh copy.
LEMMA BusyAlone ==
  ASSUME StoreInv, NEW s \in Sessions, Busy(s)
  PROVE  /\ SessionInv(s) /\ \A t \in Sessions \ {s} : Closed(t) \/ t \in stale
  BY DEF StoreInv, OrderInv, BusyInv, SessionsInv

(* The directory is created.                                                *)
LEMMA StepCreateDirectory ==
  ASSUME StoreInv, OrderInv', NEW s \in Sessions, CreateDirectory(s) PROVE StoreInv'
<1>1. /\ files = "none" /\ files' = "directory" /\ Unwritten /\ Unwritten'
      /\ UNCHANGED <<disk, log, cache, faults>> /\ \A t \in Sessions : Closed(t)
      /\ mem' = [mem EXCEPT ![s] = [pc |-> "creating", hist |-> <<>>]]
  BY DEF CreateDirectory, StoreInv, FilesInv, Unwritten, OrderInv, FilesOpen
<1>2. mem'[s] = [pc |-> "creating", hist |-> <<>>]
  BY <1>1, OwnCopy DEF StoreInv, OrderInv
<1>3. SessionInv(s)'
  BY <1>1, <1>2 DEF SessionInv
<1>4. SessionsInv'
  BY <1>1, <1>3, OnlyOwn
<1>5. FilesInv' /\ PendingInv' /\ LogTellsHistory' /\ NoFault'
  BY <1>1 DEF StoreInv, FilesInv, PendingInv, LogTellsHistory, NoFault, Unwritten
<1> QED BY <1>4, <1>5 DEF StoreInv

(* The first state is written.                                              *)
LEMMA StepCreateState ==
  ASSUME StoreInv, OrderInv', NEW s \in Sessions, CreateState(s) PROVE StoreInv'
<1>1. /\ files = "directory" /\ files' = "state" /\ Unwritten /\ Unwritten'
      /\ UNCHANGED <<mem, log, cache, faults, stale>> /\ Busy(s)
      /\ mem[s].pc = "creating"
  BY DEF CreateState, StoreInv, FilesInv, Unwritten, Busy, history
<1>2. \A t \in Sessions : t # s => mem[t].pc = "closed" \/ t \in stale
  BY <1>1, BusyAlone DEF Closed
<1>3. SessionsInv'
  BY <1>1, <1>2 DEF SessionsInv, SessionInv
<1>4. FilesInv' /\ PendingInv' /\ LogTellsHistory' /\ NoFault'
  BY <1>1 DEF StoreInv, FilesInv, PendingInv, LogTellsHistory, NoFault, Unwritten
<1> QED BY <1>3, <1>4 DEF StoreInv

(* The log is created.                                                      *)
LEMMA StepCreateLog ==
  ASSUME StoreInv, OrderInv', NEW s \in Sessions, CreateLog(s) PROVE StoreInv'
<1>0. Busy(s) /\ SessionInv(s) /\ \A t \in Sessions \ {s} : Closed(t) \/ t \in stale
  BY BusyAlone DEF CreateLog, Busy
<1>1. /\ files = "state" /\ files' = "all" /\ Unwritten /\ Unwritten'
      /\ UNCHANGED <<disk, faults, stale>> /\ mem[s].pc = "creating"
      /\ \A p \in Processes : cache'[p] \in {Unread, 0}
  BY <1>0, StoreAssumption
     DEF CreateLog, StoreInv, OrderInv, FilesInv, Unwritten, SessionInv, TypeOK, history
<1>2. mem'[s] = [pc |-> "open", hist |-> <<>>] /\ mem' = [mem EXCEPT ![s] = [pc |-> "open", hist |-> <<>>]]
  BY OwnCopy DEF CreateLog, Opened, StoreInv, OrderInv
<1>3. Home[s] \in Processes
  BY StoreAssumption
<1>4. SessionInv(s)'
  BY <1>1, <1>2, <1>3 DEF SessionInv, Unwritten
<1>5. SessionsInv'
  BY <1>0, <1>1, <1>2, <1>4, OnlyOwn
<1>6. FilesInv' /\ PendingInv' /\ LogTellsHistory' /\ NoFault'
  BY <1>1 DEF StoreInv, FilesInv, PendingInv, LogTellsHistory, NoFault, Unwritten
<1> QED BY <1>5, <1>6 DEF StoreInv

\* A load completes the log, and its store then knows the log's length.
LEMMA LoadCompletes ==
  ASSUME StoreInv, NEW s \in Sessions, Load(s)
  PROVE  /\ files \in {"state", "all"} /\ UNCHANGED <<files, disk, faults>>
         /\ files = "all" => LogTellsHistory' /\ Len(log') = Len(disk.hist)
         /\ files = "state" => log' = log /\ cache' = cache /\ ~disk.pending
         /\ disk.pending => cache'[Home[s]] = Len(log')
         /\ ~disk.pending => cache' = cache /\ log' = log
<1>1. /\ files \in {"state", "all"} /\ UNCHANGED <<files, disk, faults>>
      /\ log' = Recovered /\ Remember(s) /\ Home[s] \in Processes
      /\ files = "state" => ~disk.pending
  BY StoreAssumption DEF Load, Loadable, PendingFits, Readable
<1>2. ~disk.pending => cache' = cache /\ log' = log
  BY <1>1 DEF Remember, Recovered, StoreInv, OrderInv, TypeOK
<1>3. disk.pending => cache'[Home[s]] = Len(log')
  BY <1>1 DEF Remember, StoreInv, OrderInv, TypeOK
<1>4. ASSUME files = "all" PROVE LogTellsHistory' /\ Len(log') = Len(disk.hist)
  <2>1. /\ Len(log) \in Nat /\ Len(disk.hist) \in Nat /\ log \in Seq([seq : Nat, id : Nat])
        /\ Len(log) \in {Len(disk.hist) - 1, Len(disk.hist)}
        /\ Len(log) < Len(disk.hist) => disk.pending
        /\ \A i \in 1..Len(log) : log[i] = [seq |-> i, id |-> disk.hist[i]]
    BY <1>4 DEF StoreInv, OrderInv, TypeOK, LogTellsHistory, Histories
  <2>2. CASE Len(log) = Len(disk.hist)
    <3>1. log' = log
      BY <1>1, <2>1, <2>2 DEF Recovered
    <3> QED BY <1>1, <2>1, <2>2, <3>1 DEF LogTellsHistory
  <2>3. CASE Len(log) = Len(disk.hist) - 1
    <3>1. /\ disk.pending
          /\ log' = Append(log, [seq |-> Len(disk.hist), id |-> disk.hist[Len(disk.hist)]])
      BY <1>1, <2>1, <2>3 DEF Recovered, EventOf
    <3>2. /\ Len(log') = Len(disk.hist)
          /\ log'[Len(disk.hist)] = [seq |-> Len(disk.hist), id |-> disk.hist[Len(disk.hist)]]
          /\ \A i \in 1..Len(log) : log'[i] = log[i]
      BY <2>1, <2>3, <3>1
    <3>3. \A i \in 1..Len(log') : log'[i] = [seq |-> i, id |-> disk.hist[i]]
      BY SMTT(30), <2>1, <2>3, <3>2
    <3> QED BY <1>1, <2>1, <3>2, <3>3 DEF LogTellsHistory
  <2> QED BY <2>1, <2>2, <2>3
<1> QED BY <1>1, <1>2, <1>3, <1>4

(* A run is loaded.                                                         *)
LEMMA StepLoad ==
  ASSUME StoreInv, OrderInv', races' = {}, NEW s \in Sessions, Load(s) PROVE StoreInv'
<1>1. /\ mem'[s] = [pc |-> "open", hist |-> disk.hist]
      /\ \A t \in Sessions \ {s} : mem'[t] = mem[t]
  BY OwnCopy DEF Load, Opened, LoadedHistory, StoreInv, OrderInv
<1>2. Home \in [Sessions -> Processes] /\ Home[s] \in Processes
  BY StoreAssumption
<1>3. SessionInv(s)'
  <2>1. files = "all" => cache'[Home[s]] \in {Unread, Len(log')}
    <3>1. CASE disk.pending
      BY <3>1, LoadCompletes
    <3>2. CASE ~disk.pending
      <4>1. Len(disk.hist) = 0
        BY <3>2 DEF StoreInv, PendingInv
      <4> QED BY <1>2, <3>2, <4>1, LoadCompletes DEF StoreInv, PendingInv
    <3> QED BY <3>1, <3>2
  <2> QED BY <1>1, <2>1, LoadCompletes DEF SessionInv
<1>4. ASSUME NEW t \in Sessions \ stale', t # s PROVE SessionInv(t)'
  <2>1. t \notin stale /\ ~Busy(t)
    <3>1. NoteLoad(s) /\ "intrusion" \notin races'
      BY DEF Load
    <3> QED BY <1>4, <3>1 DEF NoteLoad, Busy
  <2>2. SessionInv(t) /\ mem'[t] = mem[t]
    BY <1>1, <1>4, <2>1 DEF StoreInv, SessionsInv
  <2>3. CASE mem[t].pc = "closed"
    BY <2>2, <2>3, ClosedSession
  <2>4. CASE mem[t].pc # "closed"
    <3>1. mem[t].pc = "open"
      BY <2>1, <2>4 DEF Busy, StoreInv, OrderInv, TypeOK
    <3>2. /\ files \in {"state", "all"} /\ mem[t].hist = disk.hist
          /\ files = "all" => Len(log) = Len(disk.hist) /\ cache[Home[t]] \in {Unread, Len(log)}
      BY <2>2, <3>1 DEF SessionInv
    <3>3. files = "all" => Len(log') = Len(log) /\ Len(log') = Len(disk.hist)
      BY <3>2, LoadCompletes
    <3>4. cache'[Home[t]] \in {cache[Home[t]], Len(log')}
      BY <1>2 DEF Load, Remember, StoreInv, OrderInv, TypeOK
    <3> QED BY <2>2, <3>1, <3>2, <3>3, <3>4, LoadCompletes DEF SessionInv
  <2> QED BY <2>3, <2>4
<1>5. FilesInv' /\ NoFault'
  BY LoadCompletes DEF StoreInv, FilesInv, NoFault, Unwritten
<1>6. PendingInv'
  BY LoadCompletes DEF StoreInv, PendingInv
<1>7. LogTellsHistory'
  BY LoadCompletes DEF LogTellsHistory
<1>8. SessionsInv'
  BY <1>3, <1>4 DEF SessionsInv
<1> QED BY <1>5, <1>6, <1>7, <1>8 DEF StoreInv

\* A well-kept run never refuses to load.
LEMMA NoLoadThrows ==
  ASSUME StoreInv, NEW s \in Sessions, LoadThrows(s) PROVE FALSE
  BY PendingEventFits DEF LoadThrows, Readable

(* A state is written ahead of its event.                                   *)
LEMMA StepWriteState ==
  ASSUME StoreInv, OrderInv', races' = {}, NEW s \in Sessions, WriteState(s) PROVE StoreInv'
<1> DEFINE h == Changed(s)
<1>0. s \notin stale /\ stale' = {t \in Sessions \ {s} : ~Closed(t)}
  <2>1. "overwrite" \notin races' /\ NoteWrite(s)
    BY DEF WriteState
  <2> QED BY <2>1 DEF NoteWrite
<1>1. /\ mem[s].pc = "open" /\ files \in {"state", "all"} /\ mem[s].hist = disk.hist
      /\ disk' = [hist |-> h, pending |-> TRUE] /\ disk'.hist = h /\ disk'.pending
      /\ UNCHANGED <<files, log, cache, faults>>
      /\ files = "all" => Len(log) = Len(disk.hist) /\ cache[Home[s]] \in {Unread, Len(log)}
      /\ h \in Histories
  BY <1>0, TypedChange DEF WriteState, StoreInv, OrderInv, SessionsInv, SessionInv
<1>2. /\ Len(h) = Len(disk.hist) + 1 /\ h # <<>> /\ Len(disk.hist) \in Nat
      /\ \A i \in 1..Len(disk.hist) : h[i] = disk.hist[i]
  BY <1>1 DEF StoreInv, OrderInv, TypeOK, Histories, Changed
<1>3. mem'[s] = [pc |-> "written", hist |-> h] /\ mem' = [mem EXCEPT ![s] = [pc |-> "written", hist |-> h]]
  BY OwnCopy DEF WriteState, StoreInv, OrderInv
<1>4. SessionInv(s)'
  BY <1>1, <1>2, <1>3 DEF SessionInv
<1>5. SessionsInv'
  BY <1>0, <1>3, <1>4, OnlyOwn
<1>6. FilesInv' /\ PendingInv' /\ NoFault'
  BY <1>1, <1>2 DEF StoreInv, FilesInv, PendingInv, NoFault
<1>7. LogTellsHistory'
  BY <1>1, <1>2 DEF StoreInv, LogTellsHistory
<1> QED BY <1>5, <1>6, <1>7 DEF StoreInv

(* The event follows.                                                       *)
LEMMA StepAppendEvent ==
  ASSUME StoreInv, OrderInv', NEW s \in Sessions, AppendEvent(s) PROVE StoreInv'
<1>0. SessionInv(s) /\ \A t \in Sessions \ {s} : Closed(t) \/ t \in stale
  BY BusyAlone DEF AppendEvent, Busy
<1>1. /\ mem[s].pc = "written" /\ files = "all" /\ mem[s].hist = disk.hist
      /\ UNCHANGED <<files, disk, faults, stale>> /\ Len(log) + 1 = Len(disk.hist)
      /\ log' = Append(log, [seq |-> Len(disk.hist), id |-> disk.hist[Len(disk.hist)]])
      /\ cache' = [cache EXCEPT ![Home[s]] = Len(disk.hist)]
      /\ Home[s] \in Processes
  BY <1>0, StoreAssumption DEF AppendEvent, InSequence, EventOf, SessionInv, history
<1>2. /\ Len(log) \in Nat /\ Len(disk.hist) \in Nat /\ log \in Seq([seq : Nat, id : Nat])
      /\ \A i \in 1..Len(log) : log[i] = [seq |-> i, id |-> disk.hist[i]]
      /\ disk.pending
  BY SMTT(30), <1>1 DEF StoreInv, OrderInv, TypeOK, LogTellsHistory, PendingInv, Histories
<1>3. /\ Len(log') = Len(disk.hist)
      /\ log'[Len(disk.hist)] = [seq |-> Len(disk.hist), id |-> disk.hist[Len(disk.hist)]]
      /\ \A i \in 1..Len(log) : log'[i] = log[i]
  BY <1>1, <1>2
<1>4. \A i \in 1..Len(log') : log'[i] = [seq |-> i, id |-> disk.hist[i]]
  BY <1>1, <1>2, <1>3
<1>5. /\ mem'[s] = [pc |-> "open", hist |-> disk.hist]
      /\ mem' = [mem EXCEPT ![s] = [pc |-> "open", hist |-> disk.hist]]
  BY <1>1, OwnCopy DEF AppendEvent, Opened, StoreInv, OrderInv
<1>6. cache'[Home[s]] = Len(log')
  BY <1>1, <1>3 DEF StoreInv, OrderInv, TypeOK
<1>7. SessionInv(s)'
  BY <1>1, <1>3, <1>5, <1>6 DEF SessionInv
<1>8. SessionsInv'
  BY <1>0, <1>1, <1>5, <1>7, OnlyOwn
<1>9. FilesInv' /\ PendingInv' /\ NoFault'
  BY <1>1, <1>2 DEF StoreInv, FilesInv, PendingInv, NoFault
<1>10. LogTellsHistory'
  BY <1>1, <1>2, <1>3, <1>4 DEF LogTellsHistory
<1> QED BY <1>8, <1>9, <1>10 DEF StoreInv

\* A session in good order is refused only while the run has no log at all.
LEMMA StepAppendRefused ==
  ASSUME StoreInv, OrderInv', NEW s \in Sessions, AppendRefused(s) PROVE StoreInv'
<1>0. SessionInv(s) /\ \A t \in Sessions \ {s} : Closed(t) \/ t \in stale
  BY BusyAlone DEF AppendRefused, Busy
<1>1. /\ mem[s].pc = "written" /\ files \in {"state", "all"} /\ mem[s].hist = disk.hist
      /\ UNCHANGED <<files, disk, log, faults, stale>>
      /\ files = "all" => Len(log) + 1 = Len(disk.hist) /\ cache[Home[s]] \in {Unread, Len(log)}
  BY <1>0 DEF AppendRefused, SessionInv, history
<1>2. files = "state"
  <2>1. SUFFICES ASSUME files = "all" PROVE InSequence(s)
    BY <1>1 DEF AppendRefused
  <2>2. disk.pending
    BY <1>1, <2>1 DEF StoreInv, OrderInv, PendingInv, TypeOK, Histories
  <2>3. Readable
    BY <2>1, <2>2, PendingEventFits
  <2> QED BY <1>1, <2>1, <2>3 DEF InSequence, LastSequence, StoreInv, OrderInv, TypeOK
<1>3. cache' = cache
  BY <1>2 DEF AppendRefused, Readable, StoreInv, OrderInv, TypeOK
<1>4. /\ mem'[s] = [pc |-> "open", hist |-> disk.hist]
      /\ mem' = [mem EXCEPT ![s] = [pc |-> "open", hist |-> disk.hist]]
  BY <1>1, OwnCopy DEF AppendRefused, Opened, StoreInv, OrderInv
<1>5. SessionInv(s)'
  BY <1>1, <1>2, <1>3, <1>4 DEF SessionInv
<1>6. SessionsInv'
  BY <1>0, <1>1, <1>4, <1>5, OnlyOwn
<1>7. FilesInv' /\ PendingInv' /\ NoFault' /\ LogTellsHistory'
  BY <1>1, <1>2, <1>3 DEF StoreInv, FilesInv, PendingInv, NoFault, LogTellsHistory
<1> QED BY <1>6, <1>7 DEF StoreInv

(* A session is closed.                                                     *)
LEMMA StepClose ==
  ASSUME StoreInv, OrderInv', NEW s \in Sessions, Close(s) PROVE StoreInv'
<1>1. UNCHANGED <<files, disk, log, cache, faults, stale>>
  BY DEF Close, history
<1>2. mem'[s].pc = "closed" /\ \A t \in Sessions \ {s} : mem'[t] = mem[t]
  <2>1. mem'[s] = Shut /\ \A t \in Sessions \ {s} : mem'[t] = mem[t]
    BY OwnCopy DEF Close, StoreInv, OrderInv
  <2> QED BY <2>1 DEF Shut
<1>3. ASSUME NEW t \in Sessions \ stale PROVE SessionInv(t)'
  <2>1. CASE t = s
    BY <1>2, <2>1, ClosedSession
  <2>2. CASE t # s
    BY <1>1, <1>2, <1>3, <2>2 DEF StoreInv, SessionsInv, SessionInv, Unwritten
  <2> QED BY <2>1, <2>2
<1>4. FilesInv' /\ PendingInv' /\ NoFault' /\ LogTellsHistory'
  BY <1>1 DEF StoreInv, FilesInv, PendingInv, NoFault, LogTellsHistory, Unwritten
<1> QED BY <1>1, <1>3, <1>4 DEF StoreInv, SessionsInv

(* A process dies between two writes.                                       *)
LEMMA StepCrash ==
  ASSUME StoreInv, OrderInv', NEW p \in Processes, Crash(p) PROVE StoreInv'
<1>2. /\ UNCHANGED <<files, disk, log, made, faults, stale>>
      /\ \A q \in Processes : cache'[q] \in {cache[q], Unread}
      /\ \A s \in Sessions : mem'[s] \in {mem[s], Shut}
  BY StoreAssumption DEF StoreInv, OrderInv, TypeOK, Crash, history
<1>3. SessionsInv'
  <2>1. SUFFICES ASSUME NEW s \in Sessions \ stale PROVE SessionInv(s)'
    BY <1>2 DEF SessionsInv
  <2>2. CASE mem'[s] = Shut
    BY <2>2, ClosedSession DEF Shut
  <2>3. CASE mem'[s] = mem[s]
    <3>1. SessionInv(s) /\ Home[s] \in Processes
      BY StoreAssumption DEF StoreInv, SessionsInv
    <3>2. cache'[Home[s]] \in {cache[Home[s]], Unread}
      BY <1>2, <3>1
    <3> QED BY <1>2, <2>3, <3>1, <3>2 DEF SessionInv, Unwritten
  <2> QED BY <1>2, <2>2, <2>3
<1>5. FilesInv' /\ PendingInv' /\ NoFault'
  BY <1>2 DEF StoreInv, FilesInv, PendingInv, NoFault, Unwritten
<1>6. LogTellsHistory'
  BY <1>2 DEF StoreInv, LogTellsHistory
<1> QED BY <1>3, <1>5, <1>6 DEF StoreInv

(* The invariant is kept by every step.                                     *)
LEMMA StoreInvNext ==
  ASSUME StoreInv, [Next]_vars, faults' = 0, races' = {} PROVE StoreInv'
<1>1. OrderInv'
  BY OrderStep DEF StoreInv
<1>2. ASSUME NEW s \in Sessions, Step(s) PROVE StoreInv'
  <2>1. ~WriteStateThrows(s) /\ ~AppendThrows(s)
    BY DEF StoreInv, NoFault, WriteStateThrows, AppendThrows
  <2> QED
    BY <1>1, <1>2, <2>1, StepCreateDirectory, StepCreateState, StepCreateLog, StepLoad,
       NoLoadThrows, StepWriteState, StepAppendEvent, StepAppendRefused, StepClose DEF Step
<1>3. CASE UNCHANGED vars
  BY <1>1, <1>3 DEF vars, history, StoreInv, NoFault, FilesInv, PendingInv, LogTellsHistory,
     SessionsInv, SessionInv, Unwritten
<1> QED BY <1>1, <1>2, <1>3, StepCrash DEF Next

\* Until the first operation that throws and the first race.
UndisturbedInv == TypeOK /\ (races = {} /\ faults = 0 => StoreInv)

(* So is the invariant of a store that nobody disturbs.                     *)
LEMMA UndisturbedInvNext == UndisturbedInv /\ [Next]_vars => UndisturbedInv'
<1> SUFFICES ASSUME UndisturbedInv, [Next]_vars PROVE UndisturbedInv'
  OBVIOUS
<1>1. TypeOK'
  BY NextTypeOK DEF UndisturbedInv
<1>2. faults' \in {faults, faults + 1} /\ faults \in Nat
  BY DEF UndisturbedInv, TypeOK, Next, Step, vars, CreateDirectory, CreateState, CreateLog, Load,
         LoadThrows, WriteState, WriteStateThrows, AppendEvent, AppendRefused, AppendThrows, Close,
         Crash
<1>3. faults' = 0 => faults = 0
  BY <1>2
<1>4. races' = {} => races = {}
  BY RacesStay
<1> QED BY <1>1, <1>3, <1>4, StoreInvNext DEF UndisturbedInv

(* It holds of every execution.                                             *)
LEMMA UndisturbedInvariant == Spec => []UndisturbedInv
<1>1. Init => UndisturbedInv
  BY StoreInvInit, InitTypeOK DEF UndisturbedInv
<1> QED BY <1>1, UndisturbedInvNext, PTL DEF Spec

\* Until a session overwrites or intrudes or an operation throws, events.jsonl
\* is the history of state.json, whoever has the run open, wherever they die.
THEOREM StoreLogIsHistory == Spec => []LogIsHistory
<1>1. UndisturbedInv => LogIsHistory
  BY DEF UndisturbedInv, StoreInv, LogIsHistory
<1> QED BY <1>1, UndisturbedInvariant, PTL

\* Until then load accepts every run whose create returned.
THEOREM StoreRecoverable == Spec => []Recoverable
<1>1. UndisturbedInv => Recoverable
  BY InvRecoverable DEF UndisturbedInv, Recoverable
<1> QED BY <1>1, UndisturbedInvariant, PTL
-----------------------------------------------------------------------------
(* Throwing operations included: the memory of a session nobody left behind *)
(* goes on from what is on disk, so no write of it takes back what is there.*)

Extends(later, earlier) ==
  /\ Len(earlier) <= Len(later)
  /\ \A i \in 1..Len(earlier) : later[i] = earlier[i]

\* What a session's copy is to the disk.
GoesOn(s) ==
  /\ mem[s].pc = "creating" => disk.hist = <<>>
  /\ mem[s].pc \in {"open", "written"} => Extends(mem[s].hist, disk.hist)

AheadInv ==
  /\ TypeOK /\ FilesOpen
  /\ files \in {"none", "directory"} => disk.hist = <<>>
  /\ \A s \in Sessions \ stale : GoesOn(s)

(* A history extends itself.                                                *)
LEMMA ExtendsItself == ASSUME NEW h \in Histories PROVE Extends(h, h)
  BY DEF Extends, Histories

(* What extends an extension extends the history.                           *)
LEMMA ExtendsFurther ==
  ASSUME NEW h \in Histories, NEW g \in Histories, NEW c \in Nat, Extends(h, g)
  PROVE  Extends(Append(h, c), g)
  BY DEF Extends, Histories

\* What a session's step leaves when the disk stays as it is.
LEMMA AheadAfter ==
  ASSUME AheadInv, TypeOK', FilesOpen', NEW s \in Sessions, disk' = disk, stale \subseteq stale',
         files' \in {"none", "directory"} => files \in {"none", "directory"},
         \A t \in Sessions \ {s} : mem'[t] = mem[t], s \in stale' \/ GoesOn(s)'
  PROVE  AheadInv'
<1>1. ASSUME NEW t \in Sessions \ stale' PROVE GoesOn(t)'
  <2>1. t = s \/ (mem'[t] = mem[t] /\ GoesOn(t))
    BY <1>1 DEF AheadInv
  <2> QED BY <1>1, <2>1 DEF GoesOn
<1> QED BY <1>1 DEF AheadInv

(* The history that was written ahead is extended by each step.             *)
LEMMA StepAhead ==
  ASSUME AheadInv, TypeOK', FilesOpen', NEW s \in Sessions, Step(s), "overwrite" \notin races'
  PROVE  AheadInv'
<1> USE DEF history
<1>1. /\ mem[s].hist \in Histories /\ disk.hist \in Histories /\ made \in Nat /\ <<>> \in Histories
      /\ Extends(disk.hist, disk.hist) /\ Extends(<<>>, <<>>)
  <2>1. <<>> \in Histories
    BY DEF Histories
  <2> QED BY <2>1, ExtendsItself DEF AheadInv, TypeOK
<1>2. CASE CreateDirectory(s)
  <2>1. mem'[s] = [pc |-> "creating", hist |-> <<>>] /\ \A t \in Sessions \ {s} : mem'[t] = mem[t]
    BY <1>2, OwnCopy DEF CreateDirectory, AheadInv
  <2>2. disk' = disk /\ disk.hist = <<>> /\ files = "none" /\ stale' = stale
    BY <1>2 DEF CreateDirectory, AheadInv
  <2>3. GoesOn(s)'
    BY <2>1, <2>2 DEF GoesOn
  <2> QED BY <2>1, <2>2, <2>3, AheadAfter
<1>3. CASE CreateState(s)
  <2>1. disk'.hist = <<>> /\ UNCHANGED <<mem, stale>> /\ disk.hist = <<>> /\ files' = "state"
    BY <1>3 DEF CreateState, AheadInv
  <2>2. \A t \in Sessions \ stale : GoesOn(t)'
    BY <2>1 DEF AheadInv, GoesOn
  <2> QED BY <2>1, <2>2 DEF AheadInv
<1>4. CASE CreateLog(s)
  <2>1. mem'[s] = [pc |-> "open", hist |-> <<>>] /\ \A t \in Sessions \ {s} : mem'[t] = mem[t]
    BY <1>4, OwnCopy DEF CreateLog, Opened, AheadInv
  <2>2. disk' = disk /\ stale' = stale /\ files' = "all" /\ mem[s].pc = "creating"
    BY <1>4 DEF CreateLog
  <2>3. s \in stale' \/ GoesOn(s)'
    BY <1>1, <2>1, <2>2 DEF AheadInv, GoesOn
  <2> QED BY <2>1, <2>2, <2>3, AheadAfter
<1>5. CASE Load(s)
  <2>1. mem'[s] = [pc |-> "open", hist |-> disk.hist] /\ \A t \in Sessions \ {s} : mem'[t] = mem[t]
    BY <1>5, OwnCopy DEF Load, Opened, LoadedHistory, AheadInv
  <2>2. disk' = disk /\ files' = files /\ stale' = stale \ {s}
    BY <1>5 DEF Load, NoteLoad
  <2>3. ASSUME NEW t \in Sessions \ stale' PROVE GoesOn(t)'
    <3>1. CASE t = s
      BY <1>1, <2>1, <2>2, <3>1 DEF GoesOn
    <3>2. CASE t # s
      BY <2>1, <2>2, <2>3, <3>2 DEF AheadInv, GoesOn
    <3> QED BY <3>1, <3>2
  <2> QED BY <2>2, <2>3 DEF AheadInv
<1>6. CASE LoadThrows(s)
  BY <1>6 DEF LoadThrows, AheadInv, GoesOn
<1>7. CASE WriteState(s)
  <2>1. mem'[s] = [pc |-> "written", hist |-> Changed(s)] /\ \A t \in Sessions \ {s} : mem'[t] = mem[t]
    BY <1>7, OwnCopy DEF WriteState, AheadInv
  <2>2. /\ disk'.hist = Changed(s) /\ stale' = {t \in Sessions \ {s} : ~Closed(t)}
        /\ files' = files /\ files \notin {"none", "directory"}
    BY <1>7 DEF WriteState, NoteWrite, AheadInv, FilesOpen
  <2>3. Changed(s) \in Histories
    BY TypedChange DEF AheadInv
  <2>4. Extends(Changed(s), Changed(s))
    BY <2>3, ExtendsItself
  <2>5. ASSUME NEW t \in Sessions \ stale' PROVE GoesOn(t)'
    <3>1. CASE t = s
      BY <2>1, <2>2, <2>4, <3>1 DEF GoesOn
    <3>2. CASE t # s
      BY <2>1, <2>2, <2>5, <3>2 DEF GoesOn, Closed
    <3> QED BY <3>1, <3>2
  <2> QED BY <2>2, <2>5 DEF AheadInv
<1>8. CASE WriteStateThrows(s)
  <2>1. mem'[s] = [pc |-> "open", hist |-> Changed(s)] /\ \A t \in Sessions \ {s} : mem'[t] = mem[t]
    BY <1>8, OwnCopy DEF WriteStateThrows, Opened, AheadInv
  <2>2. UNCHANGED <<files, disk, stale>> /\ mem[s].pc = "open"
    BY <1>8 DEF WriteStateThrows
  <2>3. s \in stale' \/ GoesOn(s)'
    <3>1. SUFFICES ASSUME s \notin stale PROVE GoesOn(s)'
      BY <2>2
    <3>2. Extends(mem[s].hist, disk.hist)
      BY <2>2, <3>1 DEF AheadInv, GoesOn
    <3>3. Extends(Changed(s), disk.hist)
      <4>1. made + 1 \in Nat
        BY <1>1
      <4> QED BY <1>1, <3>2, <4>1, ExtendsFurther DEF Changed
    <3> QED BY <2>1, <2>2, <3>3 DEF GoesOn
  <2> QED BY <2>1, <2>2, <2>3, AheadAfter
<1>9. CASE AppendEvent(s) \/ AppendRefused(s) \/ AppendThrows(s)
  <2>1. UNCHANGED <<files, disk, stale>> /\ Opened(s, mem[s].hist) /\ mem[s].pc = "written"
    BY <1>9 DEF AppendEvent, AppendRefused, AppendThrows
  <2>2. mem'[s] = [pc |-> "open", hist |-> mem[s].hist] /\ \A t \in Sessions \ {s} : mem'[t] = mem[t]
    BY <2>1, OwnCopy DEF Opened, AheadInv
  <2>3. s \in stale' \/ GoesOn(s)'
    BY <2>1, <2>2 DEF AheadInv, GoesOn
  <2> QED BY <2>1, <2>2, <2>3, AheadAfter
<1>10. CASE Close(s)
  <2>1. mem'[s] = Shut /\ \A t \in Sessions \ {s} : mem'[t] = mem[t]
    BY <1>10, OwnCopy DEF Close, AheadInv
  <2>2. UNCHANGED <<files, disk, stale>>
    BY <1>10 DEF Close
  <2>3. GoesOn(s)'
    BY <2>1 DEF GoesOn, Shut
  <2> QED BY <2>1, <2>2, <2>3, AheadAfter
<1> QED BY <1>2, <1>3, <1>4, <1>5, <1>6, <1>7, <1>8, <1>9, <1>10 DEF Step

(* The invariant of what was written ahead is kept until an overwrite.      *)
LEMMA AheadInvNext == ASSUME AheadInv, [Next]_vars, "overwrite" \notin races' PROVE AheadInv'
<1>1. TypeOK' /\ FilesOpen'
  BY NextTypeOK, FilesOpenStep DEF AheadInv
<1>2. CASE UNCHANGED vars
  BY <1>1, <1>2 DEF vars, history, AheadInv, GoesOn
<1>3. ASSUME NEW p \in Processes, Crash(p) PROVE AheadInv'
  <2>1. UNCHANGED <<files, disk, stale>> /\ \A s \in Sessions : mem'[s] \in {mem[s], Shut}
    BY <1>3 DEF Crash, AheadInv, TypeOK, history
  <2>2. \A s \in Sessions : mem'[s] = mem[s] \/ mem'[s].pc = "closed"
    BY <2>1 DEF Shut
  <2> QED BY <1>1, <2>1, <2>2 DEF AheadInv, GoesOn
<1> QED BY <1>1, <1>2, <1>3, StepAhead DEF Next

(* No step that overwrites nothing loses a change.                          *)
LEMMA StepKeepsChanges ==
  ASSUME AheadInv, [Next]_vars, "overwrite" \notin races'
  PROVE  Extends(disk'.hist, disk.hist)
<1>1. disk.hist \in Histories /\ Extends(disk.hist, disk.hist)
  BY ExtendsItself DEF AheadInv, TypeOK
<1>2. ASSUME NEW s \in Sessions, CreateState(s) PROVE Extends(disk'.hist, disk.hist)
  <2>1. disk.hist = <<>> /\ disk'.hist = <<>>
    BY <1>2 DEF CreateState, AheadInv
  <2> QED BY <2>1, <1>1
<1>3. ASSUME NEW s \in Sessions, WriteState(s) PROVE Extends(disk'.hist, disk.hist)
  <2>0. s \notin stale
    <3>1. NoteWrite(s)
      BY <1>3 DEF WriteState
    <3> QED BY <3>1 DEF NoteWrite
  <2>1. Extends(mem[s].hist, disk.hist) /\ mem[s].hist \in Histories /\ made + 1 \in Nat
    BY <1>3, <2>0 DEF WriteState, AheadInv, GoesOn, TypeOK
  <2>2. disk'.hist = Append(mem[s].hist, made + 1)
    BY <1>3 DEF WriteState, Changed
  <2> QED BY <1>1, <2>1, <2>2, ExtendsFurther
<1>4. CASE UNCHANGED disk
  BY <1>1, <1>4
<1>5. \/ UNCHANGED disk
      \/ \E s \in Sessions : CreateState(s) \/ WriteState(s)
  BY DEF Next, Step, vars, CreateDirectory, CreateLog, Load, LoadThrows, WriteStateThrows,
         AppendEvent, AppendRefused, AppendThrows, Close, Crash
<1> QED BY <1>2, <1>3, <1>4, <1>5

\* Until a session writes from a copy that another has left behind.
UntilOverwrite == TypeOK /\ ("overwrite" \notin races => AheadInv)

\* Whatever loads, crashes or throws, and however many sessions have the run
\* open: a recorded change is taken back by no write but an overwrite.
THEOREM StoreNoChangeLost == Spec => NoChangeLost
<1>1. Init => UntilOverwrite
  BY InitTypeOK DEF Init, UntilOverwrite, AheadInv, GoesOn, FilesOpen, Closed, Shut
<1>2. UntilOverwrite /\ [Next]_vars => UntilOverwrite'
  BY NextTypeOK, AheadInvNext, RacesStay DEF UntilOverwrite
<1>3. UntilOverwrite /\ [Next]_vars =>
        [ "overwrite" \notin races' =>
            /\ Len(disk.hist) <= Len(disk'.hist)
            /\ \A i \in 1..Len(disk.hist) : disk'.hist[i] = disk.hist[i] ]_vars
  BY StepKeepsChanges, RacesStay DEF UntilOverwrite, Extends
<1> QED BY <1>1, <1>2, <1>3, PTL DEF Spec, NoChangeLost
-----------------------------------------------------------------------------
(* Throwing operations included: the log never tells another history.  An   *)
(* append that throws may leave its event in the log and not in the store's *)
(* cache; what keeps the next event from taking that number is that a cache *)
(* is at most behind the log, and what a session appends is ahead of it.    *)

CacheBehind == \A p \in Processes : cache[p] = Unread \/ cache[p] <= Len(log)

\* A session about to append has the disk's history, with a change the log lacks.
WrittenAhead ==
  \A s \in Sessions : mem[s].pc = "written" =>
    mem[s].hist = disk.hist /\ Len(log) < Len(disk.hist)

\* The log is a prefix of the history.
IsPrefix ==
  /\ Len(log) <= Len(disk.hist)
  /\ \A i \in 1..Len(log) : log[i] = [seq |-> i, id |-> disk.hist[i]]

PrefixInv == OrderInv /\ AheadInv /\ IsPrefix /\ CacheBehind /\ WrittenAhead

\* The next change's event keeps the log a prefix.
LEMMA PrefixAppend ==
  ASSUME TypeOK, IsPrefix, disk' = disk, Len(disk.hist) = Len(log) + 1,
         log' = Append(log, EventOf(disk.hist))
  PROVE  IsPrefix' /\ Len(log') = Len(log) + 1
<1>1. /\ log \in Seq([seq : Nat, id : Nat]) /\ Len(log) \in Nat
      /\ EventOf(disk.hist) = [seq |-> Len(disk.hist), id |-> disk.hist[Len(disk.hist)]]
  BY DEF TypeOK, EventOf
<1>2. /\ Len(log') = Len(log) + 1
      /\ log'[Len(disk.hist)] = [seq |-> Len(disk.hist), id |-> disk.hist[Len(disk.hist)]]
      /\ \A i \in 1..Len(log) : log'[i] = log[i]
  BY <1>1
<1>3. \A i \in 1..Len(log') : log'[i] = [seq |-> i, id |-> disk.hist[i]]
  BY <1>1, <1>2 DEF IsPrefix
<1> QED BY <1>1, <1>2, <1>3 DEF IsPrefix

\* A longer history on disk keeps the log a prefix.
LEMMA PrefixOfLonger ==
  ASSUME TypeOK, TypeOK', IsPrefix, log' = log, Extends(disk'.hist, disk.hist)
  PROVE  IsPrefix'
<1>1. Len(log) \in Nat /\ Len(disk.hist) \in Nat /\ Len(disk'.hist) \in Nat
  BY DEF TypeOK, Histories
<1> QED BY <1>1 DEF IsPrefix, Extends

\* A step that leaves its session short of an append.
LEMMA WrittenAfter ==
  ASSUME PrefixInv, NEW s \in Sessions, NEW pc \in {"closed", "creating", "open"}, NEW h,
         mem' = [mem EXCEPT ![s] = [pc |-> pc, hist |-> h]], disk' = disk,
         log' = log \/ Busy(s) \/ \A t \in Sessions : ~Busy(t)
  PROVE  WrittenAhead'
<1>1. mem'[s].pc # "written" /\ \A t \in Sessions \ {s} : mem'[t] = mem[t]
  <2>1. mem'[s] = [pc |-> pc, hist |-> h] /\ \A t \in Sessions \ {s} : mem'[t] = mem[t]
    BY OwnCopy DEF PrefixInv, OrderInv
  <2> QED BY <2>1
<1>2. Busy(s) => \A t \in Sessions \ {s} : ~Busy(t)
  BY DEF PrefixInv, OrderInv, BusyInv, Busy, Closed
<1> QED BY <1>1, <1>2 DEF PrefixInv, WrittenAhead, Busy

(* The log stays a prefix of the history through each step.                 *)
LEMMA StepPrefix ==
  ASSUME PrefixInv, OrderInv', AheadInv', NEW s \in Sessions, Step(s), races' = {}
  PROVE  PrefixInv'
<1>1. /\ TypeOK /\ TypeOK' /\ Len(log) \in Nat /\ Len(disk.hist) \in Nat /\ Home[s] \in Processes
      /\ \A p \in Processes : cache[p] \in Nat \cup {Unread}
  BY SMTT(30), StoreAssumption DEF PrefixInv, OrderInv, TypeOK, Histories
<1>2. /\ \A t \in Sessions : Busy(t) => t \notin stale
      /\ mem[s].hist \in Histories /\ disk.hist \in Histories /\ Changed(s) \in Histories
  BY <1>1, TypedChange DEF PrefixInv, OrderInv, BusyInv, TypeOK
<1>6. CASE CreateDirectory(s)
  <2>1. WrittenAhead'
    BY <1>6, WrittenAfter DEF CreateDirectory
  <2> QED BY <1>6, <2>1 DEF CreateDirectory, PrefixInv, IsPrefix, CacheBehind
<1>7. CASE CreateState(s)
  <2>1. disk.hist = <<>> /\ disk'.hist = <<>> /\ UNCHANGED <<mem, log, cache>>
    BY <1>7 DEF CreateState, PrefixInv, AheadInv
  <2> QED BY <2>1 DEF PrefixInv, IsPrefix, CacheBehind, WrittenAhead
<1>8. CASE CreateLog(s)
  <2>1. disk.hist = <<>> /\ log' = <<>> /\ disk' = disk /\ Busy(s)
    BY <1>2, <1>8 DEF CreateLog, PrefixInv, AheadInv, GoesOn, Busy
  <2>2. Len(log) = 0
    BY <1>1, <2>1 DEF PrefixInv, IsPrefix
  <2>3. CacheBehind'
    BY <1>1, <1>8, <2>1, <2>2 DEF CreateLog, PrefixInv, CacheBehind, TypeOK
  <2>4. WrittenAhead'
    BY <1>8, <2>1, WrittenAfter DEF CreateLog, Opened
  <2> QED BY <2>1, <2>3, <2>4 DEF IsPrefix, PrefixInv
<1>9. CASE Load(s)
  <2>0. \A t \in Sessions : ~Busy(t)
    <3>1. NoteLoad(s) /\ "intrusion" \notin races'
      BY <1>9 DEF Load
    <3> QED BY <3>1 DEF NoteLoad, Busy
  <2>1. /\ log' = Recovered /\ disk' = disk /\ Remember(s)
        /\ disk.pending => PendingFits
    BY <1>9 DEF Load, Loadable
  <2>2. WrittenAhead'
    BY <1>9, <2>0, <2>1, WrittenAfter DEF Load, Opened
  <2>3. CASE disk.pending /\ Len(log) < Len(disk.hist)
    <3>1. Len(disk.hist) = Len(log) + 1
      BY <1>1, <2>1, <2>3 DEF PendingFits, EventOf
    <3>2. IsPrefix' /\ Len(log') = Len(log) + 1
      BY <1>1, <2>1, <2>3, <3>1, PrefixAppend DEF Recovered, PrefixInv
    <3>3. CacheBehind'
      BY <1>1, <2>1, <2>3, <3>2 DEF Remember, PrefixInv, CacheBehind, TypeOK
    <3> QED BY <2>2, <3>2, <3>3 DEF PrefixInv
  <2>4. CASE ~(disk.pending /\ Len(log) < Len(disk.hist))
    <3>1. log' = log
      BY <2>1, <2>4 DEF Recovered
    <3>2. CacheBehind'
      BY <1>1, <2>1, <3>1 DEF Remember, PrefixInv, CacheBehind, TypeOK
    <3> QED BY <2>1, <2>2, <3>1, <3>2 DEF PrefixInv, IsPrefix
  <2> QED BY <2>3, <2>4
<1>10. CASE LoadThrows(s)
  <2>1. CacheBehind'
    BY <1>1, <1>10 DEF LoadThrows, Remember, PrefixInv, CacheBehind, TypeOK
  <2> QED BY <1>10, <2>1 DEF LoadThrows, PrefixInv, IsPrefix, WrittenAhead
<1>11. CASE WriteState(s)
  <2>0. s \notin stale
    <3>1. NoteWrite(s) /\ "overwrite" \notin races'
      BY <1>11 DEF WriteState
    <3> QED BY <3>1 DEF NoteWrite
  <2>1. /\ mem[s].pc = "open" /\ Extends(mem[s].hist, disk.hist) /\ disk'.hist = Changed(s)
        /\ UNCHANGED <<log, cache>>
        /\ Changed(s) = Append(mem[s].hist, made + 1) /\ made + 1 \in Nat
    BY <1>1, <1>11, <2>0 DEF WriteState, PrefixInv, AheadInv, GoesOn, TypeOK, Changed
  <2>2. Extends(disk'.hist, disk.hist)
    BY <1>2, <2>1, ExtendsFurther
  <2>3. Len(log) < Len(disk'.hist)
    BY <1>1, <1>2, <2>1 DEF Extends, Histories, PrefixInv, IsPrefix
  <2>4. WrittenAhead'
    <3>1. \A t \in Sessions \ {s} : ~Busy(t)
      BY <2>0, <2>1 DEF PrefixInv, OrderInv, BusyInv, Closed
    <3>2. /\ mem'[s] = [pc |-> "written", hist |-> Changed(s)]
          /\ \A t \in Sessions \ {s} : mem'[t] = mem[t]
      BY <1>1, <1>11, OwnCopy DEF WriteState
    <3> QED BY <2>1, <2>3, <3>1, <3>2 DEF WrittenAhead, Busy
  <2> QED BY <1>1, <2>1, <2>2, <2>4, PrefixOfLonger DEF PrefixInv, CacheBehind
<1>12. CASE WriteStateThrows(s)
  <2>1. WrittenAhead'
    BY <1>12, WrittenAfter DEF WriteStateThrows, Opened
  <2> QED BY <1>12, <2>1 DEF WriteStateThrows, PrefixInv, IsPrefix, CacheBehind
<1>13. CASE AppendEvent(s) \/ AppendThrows(s)
  <2>1. /\ mem[s].pc = "written" /\ InSequence(s) /\ Opened(s, mem[s].hist) /\ disk' = disk
        /\ mem[s].hist = disk.hist /\ Len(log) < Len(disk.hist)
        /\ cache' = cache \/ cache' = [cache EXCEPT ![Home[s]] = Len(disk.hist)]
        /\ log' \in {log, Append(log, EventOf(disk.hist))}
        /\ cache' # cache => log' = Append(log, EventOf(disk.hist))
    BY <1>13 DEF AppendEvent, AppendThrows, PrefixInv, WrittenAhead
  <2>2. LastSequence(s) <= Len(log) /\ LastSequence(s) \in Nat
    BY <1>1 DEF LastSequence, PrefixInv, CacheBehind
  <2>3. Len(disk.hist) = Len(log) + 1
    BY <1>1, <2>1, <2>2 DEF InSequence
  <2>4. /\ IsPrefix' /\ Len(log) <= Len(log')
        /\ cache' # cache => Len(log') = Len(log) + 1
    <3>1. CASE log' = Append(log, EventOf(disk.hist))
      BY <1>1, <2>1, <2>3, <3>1, PrefixAppend DEF PrefixInv
    <3>2. CASE log' = log
      BY <1>1, <2>1, <2>3, <3>2, PrefixAppend DEF PrefixInv, IsPrefix
    <3> QED BY <2>1, <3>1, <3>2
  <2>5. Len(log') \in Nat
    BY <1>1 DEF TypeOK
  <2>6. CacheBehind'
    <3>1. \A p \in Processes : cache[p] = Unread \/ cache[p] <= Len(log')
      BY <1>1, <2>4, <2>5 DEF PrefixInv, CacheBehind
    <3>2. CASE cache' = cache
      BY <3>1, <3>2 DEF CacheBehind
    <3>3. CASE cache' # cache
      <4>1. cache' = [cache EXCEPT ![Home[s]] = Len(disk.hist)] /\ Len(disk.hist) = Len(log')
        BY <2>1, <2>3, <2>4, <3>3
      <4>2. \A p \in Processes : cache'[p] = cache[p] \/ cache'[p] = Len(log')
        BY <1>1, <4>1 DEF TypeOK
      <4> QED BY <2>5, <3>1, <4>2 DEF CacheBehind
    <3> QED BY <3>2, <3>3
  <2>7. WrittenAhead'
    BY <2>1, WrittenAfter DEF Opened, Busy
  <2> QED BY <2>4, <2>6, <2>7 DEF PrefixInv
<1>14. CASE AppendRefused(s)
  <2>1. WrittenAhead'
    BY <1>14, WrittenAfter DEF AppendRefused, Opened
  <2>2. CacheBehind'
    BY <1>1, <1>14 DEF AppendRefused, PrefixInv, CacheBehind, TypeOK
  <2> QED BY <1>14, <2>1, <2>2 DEF AppendRefused, PrefixInv, IsPrefix
<1>15. CASE Close(s)
  <2>1. WrittenAhead'
    BY <1>15, WrittenAfter DEF Close, Shut
  <2> QED BY <1>15, <2>1 DEF Close, PrefixInv, IsPrefix, CacheBehind
<1> QED
  BY <1>6, <1>7, <1>8, <1>9, <1>10, <1>11, <1>12, <1>13, <1>14, <1>15 DEF Step

(* The invariant of the prefix is kept until the first race.                *)
LEMMA PrefixInvNext == ASSUME PrefixInv, [Next]_vars, races' = {} PROVE PrefixInv'
<1>1. OrderInv' /\ AheadInv'
  BY OrderStep, AheadInvNext DEF PrefixInv
<1>2. CASE UNCHANGED vars
  BY <1>1, <1>2 DEF vars, PrefixInv, IsPrefix, CacheBehind, WrittenAhead
<1>3. ASSUME NEW p \in Processes, Crash(p) PROVE PrefixInv'
  <2>1. /\ UNCHANGED <<disk, log>>
        /\ \A s \in Sessions : mem'[s] \in {mem[s], Shut}
        /\ \A q \in Processes : cache'[q] \in {cache[q], Unread}
    BY <1>3 DEF Crash, PrefixInv, OrderInv, TypeOK
  <2>2. WrittenAhead' /\ CacheBehind'
    BY <2>1 DEF PrefixInv, WrittenAhead, CacheBehind, Shut
  <2> QED BY <1>1, <2>1, <2>2 DEF PrefixInv, IsPrefix
<1> QED BY <1>1, <1>2, <1>3, StepPrefix DEF Next

\* Until the first race.
UntilRace == TypeOK /\ (races = {} => PrefixInv)

\* Until sessions overwrite or intrude, what events.jsonl tells is what
\* state.json holds, also after operations that threw: the log may lag, but a
\* number is never given to another change.
THEOREM StoreLogIsPrefix == Spec => []LogIsPrefix
<1>1. Init => UntilRace
  BY StoreInvInit, InitTypeOK
     DEF Init, StoreInv, UntilRace, PrefixInv, AheadInv, GoesOn, FilesOpen, Closed, Shut, IsPrefix,
         CacheBehind, WrittenAhead
<1>2. UntilRace /\ [Next]_vars => UntilRace'
  BY NextTypeOK, PrefixInvNext, RacesStay DEF UntilRace
<1>3. UntilRace => LogIsPrefix
  BY DEF UntilRace, PrefixInv, IsPrefix, LogIsPrefix
<1> QED BY <1>1, <1>2, <1>3, PTL DEF Spec
=============================================================================
