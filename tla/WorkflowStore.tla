---------------------------- MODULE WorkflowStore ----------------------------
(***************************************************************************)
(* FileWorkflowStore of lib/workflow: one run's state.json, replaced       *)
(* atomically, and its events.jsonl, appended to.  checkpoint writes the   *)
(* state with the event it is about to append (pendingEvent); load appends *)
(* a pending event the log does not have.                                  *)
(*                                                                         *)
(* A session is one in-memory copy of the run's state: an executing run,   *)
(* or a call of approve, cancel, ... that loaded its own.  Sessions live   *)
(* in processes; a process has one store, whose lastSequences cache its    *)
(* sessions share.  A state is represented by its history, the identities  *)
(* of the changes that made it; eventSequence is the history's length.     *)
(*                                                                         *)
(* No lock guards a run.  The history variables stale and races, which no  *)
(* guard reads, say which copies were left behind and what sessions have   *)
(* done to each other.                                                     *)
(***************************************************************************)
EXTENDS Integers, Sequences

CONSTANTS
  Sessions, Processes,
  Home,        \* session -> the process it runs in
  Unread,      \* the cache of a store that has not read the log
  MaxEvents,   \* bound on the changes made to the run
  MaxCrashes,  \* bound on crashing processes
  MaxFaults    \* bound on I/O operations that throw

ASSUME StoreAssumption ==
  /\ Home \in [Sessions -> Processes] /\ Unread \notin Nat
  /\ MaxEvents \in Nat /\ MaxCrashes \in Nat /\ MaxFaults \in Nat

VARIABLES
  files,   \* which of the run's files exist
  disk,    \* state.json: [hist, pending]
  log,     \* events.jsonl: a sequence of [seq, id]
  cache,   \* process -> lastSequences of its store
  mem,     \* session -> [pc, hist]
  made,    \* identities given to changes so far
  crashes, faults,
  stale,   \* history: sessions whose copy misses a state another one wrote
  races    \* history: "overwrite" and "intrusion", below

history == <<stale, races>>
vars == <<files, disk, log, cache, mem, made, crashes, faults, history>>

Shut == [pc |-> "closed", hist |-> <<>>]

Init ==
  /\ files = "none"
  /\ disk = [hist |-> <<>>, pending |-> FALSE]
  /\ log = <<>>
  /\ cache = [p \in Processes |-> Unread]
  /\ mem = [s \in Sessions |-> Shut]
  /\ made = 0 /\ crashes = 0 /\ faults = 0
  /\ stale = {} /\ races = {}

\* The event of a history's last change.
EventOf(hist) == [seq |-> Len(hist), id |-> hist[Len(hist)]]

\* readEvents: the log is parsed and its sequence numbers checked.
Readable == files = "all" /\ \A i \in 1..Len(log) : log[i].seq = i

Opened(s, hist) == mem' = [mem EXCEPT ![s] = [pc |-> "open", hist |-> hist]]

\* Calls of one process are synchronous: none runs inside another's write.
Turn(s) ==
  \A t \in Sessions \ {s} : Home[t] = Home[s] => mem[t].pc \notin {"creating", "written"}

Closed(s) == mem[s].pc = "closed"

\* An "overwrite": a state is written from a copy that another session has
\* left behind.  What anyone else has open is then stale.
NoteWrite(s) ==
  /\ stale' = {t \in Sessions \ {s} : ~Closed(t)}
  /\ races' = IF s \in stale THEN races \cup {"overwrite"} ELSE races

\* An "intrusion": a run is loaded between two file operations of a create or
\* a checkpoint of another process, as if that process were dead.
NoteLoad(s) ==
  /\ stale' = stale \ {s}
  /\ races' = IF \E t \in Sessions : mem[t].pc \in {"creating", "written"}
                THEN races \cup {"intrusion"} ELSE races
-----------------------------------------------------------------------------
(* create: the directory, the state, the empty log.  A run id is taken by   *)
(* its directory, so no second create comes past the first.                 *)

CreateDirectory(s) ==
  /\ Closed(s) /\ files = "none"
  /\ files' = "directory"
  /\ mem' = [mem EXCEPT ![s] = [pc |-> "creating", hist |-> <<>>]]
  /\ UNCHANGED <<disk, log, cache, made, crashes, faults, history>>

CreateState(s) ==
  /\ mem[s].pc = "creating" /\ files = "directory"
  /\ files' = "state"
  /\ disk' = [hist |-> <<>>, pending |-> FALSE]
  /\ UNCHANGED <<log, cache, mem, made, crashes, faults, history>>

CreateLog(s) ==
  /\ mem[s].pc = "creating" /\ files = "state"
  /\ files' = "all"
  /\ log' = <<>>
  /\ cache' = [cache EXCEPT ![Home[s]] = 0]
  /\ Opened(s, <<>>)
  /\ UNCHANGED <<disk, made, crashes, faults, history>>
-----------------------------------------------------------------------------
(* load.                                                                    *)

\* Mutants: a pending event is dropped; appended without looking for it.
RecoveredForgetful == log
RecoveredBlindly ==
  IF disk.pending THEN Append(log, EventOf(disk.hist)) ELSE log

\* The log a load leaves: a pending event it lacks is appended.
Recovered ==
  IF disk.pending /\ Len(log) < Len(disk.hist)
    THEN Append(log, EventOf(disk.hist)) ELSE log

\* May the pending event be appended, or is it the one already there?
PendingFits ==
  LET e == EventOf(disk.hist) IN
    /\ Readable
    /\ IF e.seq \in 1..Len(log) THEN log[e.seq] = e ELSE e.seq = Len(log) + 1

Loadable == files \in {"state", "all"} /\ (disk.pending => PendingFits)

\* Mutant: a state whose event was not appended is rolled back.
LoadedRollback ==
  IF Len(log) < Len(disk.hist) THEN SubSeq(disk.hist, 1, Len(log)) ELSE disk.hist

LoadedHistory == disk.hist

\* Mutant: the store remembers the last event's index, of an empty log too.
RememberIndex(s) == cache' = [cache EXCEPT ![Home[s]] = Len(log') - 1]

\* readEvents leaves the last sequence number in the store's cache.
Remember(s) ==
  cache' = [cache EXCEPT ![Home[s]] = IF disk.pending THEN Len(log') ELSE @]

Load(s) ==
  /\ Closed(s) /\ Loadable
  /\ log' = Recovered
  /\ Remember(s)
  /\ Opened(s, LoadedHistory)
  /\ NoteLoad(s) /\ UNCHANGED <<files, disk, made, crashes, faults>>

LoadThrows(s) ==
  /\ Closed(s) /\ disk.pending /\ Readable /\ ~PendingFits
  /\ UNCHANGED <<files, disk, log, mem, made, crashes, faults, history>>
  /\ Remember(s)
-----------------------------------------------------------------------------
(* record, hence checkpoint: the change is made in memory, the state is     *)
(* written with its pending event, the event is appended.                   *)

Changed(s) == Append(mem[s].hist, made + 1)

WriteState(s) ==
  /\ mem[s].pc = "open" /\ made < MaxEvents
  /\ made' = made + 1
  /\ disk' = [hist |-> Changed(s), pending |-> TRUE]
  /\ mem' = [mem EXCEPT ![s] = [pc |-> "written", hist |-> Changed(s)]]
  /\ NoteWrite(s)
  /\ UNCHANGED <<files, log, cache, crashes, faults>>

\* The temporary file cannot be written: memory is ahead of the disk.
WriteStateThrows(s) ==
  /\ mem[s].pc = "open" /\ made < MaxEvents /\ faults < MaxFaults
  /\ faults' = faults + 1 /\ made' = made + 1
  /\ Opened(s, Changed(s))
  /\ UNCHANGED <<files, disk, log, cache, crashes, history>>

\* lastSequence: remembered, or read from the log (which may throw).
LastSequence(s) == IF cache[Home[s]] = Unread THEN Len(log) ELSE cache[Home[s]]

\* Mutant: appendEvent does not check the sequence number.
InAnySequence(s) == files = "all"

InSequence(s) ==
  /\ files = "all"
  /\ cache[Home[s]] = Unread => Readable
  /\ Len(mem[s].hist) = LastSequence(s) + 1

\* appendEvent; an event not next in sequence is compared with the log's
\* last or refused, never appended.
AppendEvent(s) ==
  /\ mem[s].pc = "written" /\ InSequence(s)
  /\ log' = Append(log, EventOf(mem[s].hist))
  /\ cache' = [cache EXCEPT ![Home[s]] = Len(mem[s].hist)]
  /\ Opened(s, mem[s].hist)
  /\ UNCHANGED <<files, disk, made, crashes, faults, history>>

\* A sequence conflict, a corrupt or missing log: checkpoint throws, and the
\* executor's error path goes on with the same in-memory state.  (The event
\* another process's load has appended meanwhile is accepted, to the same end.)
AppendRefused(s) ==
  /\ mem[s].pc = "written" /\ ~InSequence(s)
  /\ cache' = [cache EXCEPT ![Home[s]] =
                 IF Readable /\ @ \in {Unread, Len(mem[s].hist)} THEN Len(log) ELSE @]
  /\ Opened(s, mem[s].hist)
  /\ UNCHANGED <<files, disk, log, made, crashes, faults, history>>

\* The append or its fsync throws: the line is in the log, or is not.
AppendThrows(s) ==
  /\ mem[s].pc = "written" /\ InSequence(s) /\ faults < MaxFaults
  /\ faults' = faults + 1
  /\ log' \in {log, Append(log, EventOf(mem[s].hist))}
  /\ Opened(s, mem[s].hist)
  /\ UNCHANGED <<files, disk, cache, made, crashes, history>>
-----------------------------------------------------------------------------
\* The call returns.
Close(s) ==
  /\ mem[s].pc = "open"
  /\ mem' = [mem EXCEPT ![s] = Shut]
  /\ UNCHANGED <<files, disk, log, cache, made, crashes, faults, history>>

\* A process dies with its sessions and its store.
Crash(p) ==
  /\ crashes < MaxCrashes /\ \E s \in Sessions : Home[s] = p /\ mem[s].pc # "closed"
  /\ crashes' = crashes + 1
  /\ cache' = [cache EXCEPT ![p] = Unread]
  /\ mem' = [s \in Sessions |-> IF Home[s] = p THEN Shut ELSE mem[s]]
  /\ UNCHANGED <<files, disk, log, made, faults, history>>

Step(s) ==
  /\ Turn(s)
  /\ \/ CreateDirectory(s) \/ CreateState(s) \/ CreateLog(s) \/ Load(s) \/ LoadThrows(s)
     \/ WriteState(s) \/ WriteStateThrows(s)
     \/ AppendEvent(s) \/ AppendRefused(s) \/ AppendThrows(s) \/ Close(s)

Next == (\E s \in Sessions : Step(s)) \/ \E p \in Processes : Crash(p)

Spec == Init /\ [][Next]_vars
-----------------------------------------------------------------------------
Histories == Seq(Nat)

TypeOK ==
  /\ files \in {"none", "directory", "state", "all"}
  /\ disk \in [hist : Histories, pending : BOOLEAN]
  /\ log \in Seq([seq : Nat, id : Nat])
  /\ cache \in [Processes -> Nat \cup {Unread}]
  /\ mem \in [Sessions -> [pc : {"closed", "creating", "open", "written"}, hist : Histories]]
  /\ made \in Nat /\ crashes \in Nat /\ faults \in Nat
  /\ stale \subseteq Sessions /\ races \subseteq {"overwrite", "intrusion"}

\* Event i of the log is the i-th change of the state, and at most the last
\* change still waits for its event.
LogTellsHistory ==
  files = "all" =>
    /\ Len(log) \in {Len(disk.hist) - 1, Len(disk.hist)} \cap Nat
    /\ (Len(log) < Len(disk.hist) => disk.pending)
    /\ \A i \in 1..Len(log) : log[i] = [seq |-> i, id |-> disk.hist[i]]

\* Sessions may be open side by side, in one process or in several: as long as
\* none overwrites or intrudes and no operation throws, events.jsonl is the
\* ordered history of state.json, wherever a process dies.
LogIsHistory == races = {} /\ faults = 0 => LogTellsHistory

\* The stream then never tells another history than the state, even after an
\* operation threw: it may lag behind it, and may then stay behind for good.
LogIsPrefix ==
  races = {} =>
    /\ Len(log) <= Len(disk.hist)
    /\ \A i \in 1..Len(log) : log[i] = [seq |-> i, id |-> disk.hist[i]]

\* As long as no session overwrites or intrudes and no operation throws, a run
\* once created loads again, whatever crashes between state and event.
Recoverable == races = {} /\ faults = 0 /\ files = "all" => Loadable

\* As documented: every run that has a state can be recovered from a crash.
StateLoads == files \in {"state", "all"} => Loadable

\* As documented: the sequence numbers of the stream are 1, 2, 3, ...
StreamOrdered == files = "all" => Readable

\* Until a session overwrites, no write of a state takes back a change that an
\* earlier write recorded, whoever else has the run open, loads or throws.
NoChangeLost ==
  [][ "overwrite" \notin races' =>
        /\ Len(disk.hist) <= Len(disk'.hist)
        /\ \A i \in 1..Len(disk.hist) : disk'.hist[i] = disk.hist[i] ]_vars
=============================================================================
