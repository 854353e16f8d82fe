-------------------------- MODULE ProviderLedgerProofs --------------------------
(***************************************************************************)
(* Proofs about ProviderLedger, for any callers, keys, requests and        *)
(* bounds: whatever overlaps, throws or dies, no entry is lost, a key is   *)
(* written for one request, the document tells of no success that was not, *)
(* and, but for keys that somebody released who had not acquired them, a   *)
(* key is written once and the entries that release it are true.           *)
(*                                                                         *)
(* OneWrite says nothing about the document, and so cannot be inductive:   *)
(* what keeps a second write away is that a key is given to one attempt at *)
(* a time (Held), that an entry is given out again only when nothing was   *)
(* written or is under way for it (Free), and that a key never changes the *)
(* request it was first claimed for (Bound).                               *)
(***************************************************************************)
EXTENDS ProviderLedger, FiniteSetTheorems, TLAPS

-----------------------------------------------------------------------------
(* The inductive invariant.                                                 *)

\* What a call has at each of its places: a key and a request of it, the
\* document it read, and an answer that its operation may have.
CallsFormed ==
  \A c \in Callers : LET o == call[c] IN
    /\ o.pc # "idle" => o.key \in Keys /\ o.request \in Requests
    /\ o.pc # "idle" /\ o.op = "settle" => o.answer \in {"pending", "succeeded", "no_write"}
    /\ o.pc = "written" /\ o.op = "claim" => o.answer \in {"acquired", "conflict", "replay", "pending"}
    /\ o.pc = "locked" => o.snapshot \in SUBSET [Keys -> Entries] /\ o.snapshot # {}

Formed == TypeOK /\ CallsFormed

\* Who reads and replaces the document owns the lock file, and has read the
\* document as it is.
Locked ==
  \A c \in Callers :
    /\ call[c].pc \in {"locked", "written"} => lock = c
    /\ call[c].pc = "locked" => call[c].snapshot = {doc}

\* Calls whose claim was not refused: their key has their request.
Admitted(c) ==
  /\ call[c].pc # "idle"
  /\ ~(call[c].pc \in {"waiting", "locked"} /\ call[c].op = "claim")
  /\ ~(call[c].pc = "written" /\ call[c].answer = "conflict")

Bound ==
  /\ \A c \in Callers : Admitted(c) =>
       doc[call[c].key].state # "absent" /\ doc[call[c].key].request = call[c].request
  /\ \A k \in Keys, r \in Requests : writes[k][r] > 0 \/ <<k, r>> \in late =>
       doc[k].state # "absent" /\ doc[k].request = r

\* Success is reported, written down and promoted only after a write.
ReportsTruly(c) ==
  call[c].pc # "idle" =>
    /\ call[c].wrote => Exists(call[c].key)
    /\ call[c].op = "settle" /\ call[c].answer = "succeeded" => Exists(call[c].key)
    /\ call[c].op = "put" => Exists(call[c].key)

Reported ==
  /\ \A k \in Keys : doc[k].state = "succeeded" => Exists(k)
  /\ \A c \in Callers : ReportsTruly(c)

\* Keys that the provider does not deduplicate.
Plain == Keys \ (Native \cup Rerun)

\* The attempt that holds a plain key: it may write, or has not written.
Holds(c, k) ==
  /\ call[c].key = k
  /\ \/ call[c].pc = "written" /\ call[c].op = "claim" /\ call[c].answer = "acquired"
     \/ call[c].pc \in {"discovering", "executing"}
     \/ call[c].pc \in {"waiting", "locked"} /\ call[c].op = "settle" /\ call[c].answer = "no_write"

HasWritten(c) == call[c].pc = "executing" /\ call[c].wrote
OnItsWay(k) == \E r \in Requests : <<k, r>> \in late
Claimable(k) == doc[k].state \in {"absent", "no_write"}

\* One attempt at a time, and none beside a request that is still on its way.
HeldOnce(k) ==
  /\ \A c, d \in Callers : Holds(c, k) /\ Holds(d, k) => c = d
  /\ \A c \in Callers : Holds(c, k) => ~OnItsWay(k) /\ (Exists(k) => HasWritten(c))
  /\ OnItsWay(k) => ~Exists(k)

\* An entry that may be claimed has nothing written and nobody to write.
FreeToClaim(k) ==
  Claimable(k) => ~Exists(k) /\ ~OnItsWay(k) /\ \A c \in Callers : ~Holds(c, k)

\* Nor have been released by a call that had not acquired them.
Guarded == Plain \ released

Held == \A k \in Guarded : HeldOnce(k)
Free == \A k \in Guarded : FreeToClaim(k)

\* A request is repeated only where the provider deduplicates it, and no request
\* is carried out twice.
RepeatsNative == \A c \in Callers : call[c].pc = "repeating" => call[c].key \in Native
CarriedOutOnce == \A k \in Keys \ released, r \in Requests : writes[k][r] <= 1

PInv ==
  /\ Formed /\ Locked /\ Bound /\ Reported
  /\ Held /\ Free /\ RepeatsNative /\ CarriedOutOnce
-----------------------------------------------------------------------------
(* Types.                                                                   *)

\* What TypeOK says a call is.
Places == {"idle", "waiting", "locked", "written", "discovering", "executing", "reconciling",
           "repeating", "readback"}
Answers == {"none", "acquired", "conflict", "replay", "pending", "succeeded", "no_write"}
Snapshots == SUBSET [Keys -> Entries]

CallRecords ==
  [pc : Places, op : {"claim", "settle", "put"}, mode : {"apply", "reconcile"},
   key : Keys \cup {None}, request : Requests \cup {None}, reuse : BOOLEAN,
   answer : Answers, wrote : BOOLEAN, snapshot : Snapshots]

(* The calls are records of their type.                                     *)
LEMMA TypedCalls == Formed => call \in [Callers -> CallRecords]
  BY DEF Formed, TypeOK, CallRecords, Places, Answers, Snapshots

\* claim has one of four answers for every entry and request.
LEMMA ClaimAnswers ==
  ASSUME NEW e \in Entries, NEW r \in Requests
  PROVE  ClaimAnswer(e, r) \in {"acquired", "conflict", "replay", "pending"}
  BY DEF ClaimAnswer, Entries

\* An operation that formed calls carry out leaves an entry.
LEMMA NewEntries ==
  ASSUME Formed, NEW c \in Callers, call[c].pc = "locked", NEW e \in Entries
  PROVE  NewEntry(c, e) \in Entries
<1>1. /\ call[c].request \in Requests
      /\ call[c].op \in {"claim", "settle", "put"}
      /\ call[c].op = "settle" => call[c].answer \in {"pending", "succeeded", "no_write"}
  BY DEF Formed, CallsFormed, TypeOK
<1>2. CASE call[c].op = "claim"
  BY <1>1, <1>2 DEF NewEntry, Entries
<1>3. CASE call[c].op = "settle"
  BY <1>1, <1>3 DEF NewEntry, Entries
<1>4. CASE call[c].op = "put"
  BY <1>1, <1>4 DEF NewEntry, Entries
<1> QED BY <1>1, <1>2, <1>3, <1>4

\* What Commit reads is a document, and what it leaves is one.
LEMMA Documents ==
  ASSUME Formed, NEW c \in Callers, call[c].pc = "locked"
  PROVE  /\ (CHOOSE d \in call[c].snapshot : TRUE) \in [Keys -> Entries]
         /\ Replaced(c) \in [Keys -> Entries]
<1>1. (CHOOSE d \in call[c].snapshot : TRUE) \in [Keys -> Entries] /\ call[c].key \in Keys
  BY DEF Formed, CallsFormed
<1>2. NewEntry(c, (CHOOSE d \in call[c].snapshot : TRUE)[call[c].key]) \in Entries
  BY <1>1, NewEntries
<1>3. doc \in [Keys -> Entries]
  BY DEF Formed, TypeOK
<1> QED BY <1>1, <1>2, <1>3 DEF Replaced

(* The ledger is well formed at first.                                      *)
LEMMA InitFormed == Init => Formed
  BY LedgerAssumption DEF Init, Formed, TypeOK, CallsFormed, Idle, Absent, Entries

\* The call of a step's caller, and nobody else's.
OnlyCall(c) == \A d \in Callers : d # c => call'[d] = call[d]

\* A step that changes one call and keeps the rest formed.
LEMMA FormedCall ==
  ASSUME Formed, NEW c \in Callers, call' \in [Callers -> CallRecords], OnlyCall(c),
         call'[c].pc # "idle" => call'[c].key \in Keys /\ call'[c].request \in Requests,
         call'[c].pc # "idle" /\ call'[c].op = "settle" =>
           call'[c].answer \in {"pending", "succeeded", "no_write"},
         call'[c].pc = "written" /\ call'[c].op = "claim" =>
           call'[c].answer \in {"acquired", "conflict", "replay", "pending"},
         call'[c].pc = "locked" => call'[c].snapshot # {}
  PROVE  CallsFormed'
<1>1. call'[c].snapshot \in SUBSET [Keys -> Entries]
  BY DEF CallRecords, Snapshots
<1>2. ASSUME NEW d \in Callers PROVE CallsFormed!(d)'
  BY <1>1 DEF Formed, CallsFormed, OnlyCall
<1> QED BY <1>2 DEF CallsFormed

\* What the three moves of the adapter leave of a call.
LEMMA MovesTo ==
  ASSUME Formed, NEW c \in Callers
  PROVE  /\ Ends(c) => call' \in [Callers -> CallRecords] /\ OnlyCall(c) /\ call'[c] = Idle
         /\ \A pc \in {"discovering", "executing", "reconciling", "repeating", "readback"} :
              Goes(c, pc) =>
                /\ call' \in [Callers -> CallRecords] /\ OnlyCall(c)
                /\ call'[c].pc = pc /\ call'[c].op = call[c].op /\ call'[c].answer = call[c].answer
                /\ call'[c].key = call[c].key /\ call'[c].request = call[c].request
                /\ call'[c].wrote = call[c].wrote
         /\ \A a \in {"pending", "succeeded", "no_write"} :
              Settles(c, a) =>
                /\ call' \in [Callers -> CallRecords] /\ OnlyCall(c)
                /\ call'[c].pc = "waiting" /\ call'[c].op = "settle" /\ call'[c].answer = a
                /\ call'[c].key = call[c].key /\ call'[c].request = call[c].request
                /\ call'[c].wrote = call[c].wrote
<1>1. call \in [Callers -> CallRecords]
  BY TypedCalls
<1>2. Idle \in CallRecords
  BY LedgerAssumption DEF Idle, CallRecords, Places, Answers, Snapshots
<1>3. ASSUME Ends(c) PROVE call' \in [Callers -> CallRecords] /\ OnlyCall(c) /\ call'[c] = Idle
  BY <1>1, <1>2, <1>3 DEF Ends, OnlyCall
<1>4. ASSUME NEW pc \in {"discovering", "executing", "reconciling", "repeating", "readback"},
             Goes(c, pc)
      PROVE  /\ call' \in [Callers -> CallRecords] /\ OnlyCall(c)
             /\ call'[c].pc = pc /\ call'[c].op = call[c].op /\ call'[c].answer = call[c].answer
             /\ call'[c].key = call[c].key /\ call'[c].request = call[c].request
             /\ call'[c].wrote = call[c].wrote
  <2>1. call'[c] \in CallRecords
    BY <1>1, <1>4 DEF Goes, CallRecords, Places
  <2> QED BY <1>1, <1>4, <2>1 DEF Goes, OnlyCall, CallRecords
<1>5. ASSUME NEW a \in {"pending", "succeeded", "no_write"}, Settles(c, a)
      PROVE  /\ call' \in [Callers -> CallRecords] /\ OnlyCall(c)
             /\ call'[c].pc = "waiting" /\ call'[c].op = "settle" /\ call'[c].answer = a
             /\ call'[c].key = call[c].key /\ call'[c].request = call[c].request
             /\ call'[c].wrote = call[c].wrote
  <2>1. call'[c] \in CallRecords
    BY ZenonT(60), <1>1, <1>5 DEF Settles, CallRecords, Places, Answers
  <2> QED BY <1>1, <1>5, <2>1 DEF Settles, OnlyCall, CallRecords
<1> QED BY <1>3, <1>4, <1>5

\* The moves keep calls formed.
LEMMA Moves ==
  ASSUME Formed, NEW c \in Callers, call[c].pc # "idle"
  PROVE  /\ Ends(c) => CallsFormed' /\ call' \in [Callers -> CallRecords]
         /\ \A pc \in {"discovering", "executing", "reconciling", "repeating", "readback"} :
              Goes(c, pc) => CallsFormed' /\ call' \in [Callers -> CallRecords]
         /\ \A a \in {"pending", "succeeded", "no_write"} :
              Settles(c, a) => CallsFormed' /\ call' \in [Callers -> CallRecords]
<1>1. /\ call[c].key \in Keys /\ call[c].request \in Requests
      /\ call[c].op = "settle" => call[c].answer \in {"pending", "succeeded", "no_write"}
  BY DEF Formed, CallsFormed
<1>2. ASSUME Ends(c) PROVE CallsFormed'
  BY <1>2, MovesTo, FormedCall DEF Idle
<1>3. ASSUME NEW pc \in {"discovering", "executing", "reconciling", "repeating", "readback"},
             Goes(c, pc)
      PROVE  CallsFormed'
  BY <1>1, <1>3, MovesTo, FormedCall
<1>4. ASSUME NEW a \in {"pending", "succeeded", "no_write"}, Settles(c, a)
      PROVE  CallsFormed'
  BY <1>1, <1>4, MovesTo, FormedCall
<1> QED BY <1>2, <1>3, <1>4, MovesTo

\* Carrying a request out and leaving one under way keep the history typed.
LEMMA TypedHistory ==
  ASSUME Formed
  PROVE  /\ \A k \in Keys, r \in Requests :
              CarryOut(k, r) => writes' \in [Keys -> [Requests -> 0..2]]
         /\ \A c \in Callers : late \cup Abandoned(c) \subseteq Keys \X Requests
<1>1. ASSUME NEW k \in Keys, NEW r \in Requests, CarryOut(k, r)
      PROVE  writes' \in [Keys -> [Requests -> 0..2]]
  BY <1>1 DEF CarryOut, Formed, TypeOK
<1>2. ASSUME NEW c \in Callers PROVE Abandoned(c) \subseteq Keys \X Requests
  BY DEF Abandoned, Formed, CallsFormed
<1>3. late \subseteq Keys \X Requests
  BY DEF Formed, TypeOK
<1> QED BY <1>1, <1>2, <1>3

(* It is when only calls change, and stay well formed.                      *)
LEMMA FormedFrame ==
  ASSUME Formed, CallsFormed' /\ call' \in [Callers -> CallRecords],
         released' = released \/ \E c \in Callers : call[c].pc # "idle" /\ released' = released \cup {call[c].key},
         UNCHANGED <<doc, lock, writes, late, used>>
  PROVE  Formed'
<1>1. released' \subseteq Keys
  BY DEF Formed, CallsFormed, TypeOK
<1> QED BY <1>1 DEF Formed, TypeOK, CallRecords, Places, Answers, Snapshots, Entries

(* It is after every step.                                                  *)
LEMMA NextFormed == Formed /\ [Next]_vars => Formed'
<1> SUFFICES ASSUME Formed, [Next]_vars PROVE Formed'
  OBVIOUS
<1> DEFINE CallsOK == CallsFormed' /\ call' \in [Callers -> CallRecords]
<1>0. call \in [Callers -> CallRecords]
  BY TypedCalls
<1>1. ASSUME NEW c \in Callers, Enter(c) PROVE Formed'
  <2>1. call[c].pc # "idle" /\ {doc} \in Snapshots
    BY <1>1 DEF Enter, Formed, TypeOK, Snapshots
  <2>2. call' \in [Callers -> CallRecords]
    <3>1. call'[c] \in CallRecords
      BY ZenonT(60), <1>0, <1>1, <2>1 DEF Enter, CallRecords, Places
    <3> QED BY <1>0, <1>1, <3>1 DEF Enter
  <2>3. /\ OnlyCall(c) /\ call'[c].pc = "locked" /\ call'[c].key = call[c].key
        /\ call'[c].request = call[c].request /\ call'[c].op = call[c].op
        /\ call'[c].answer = call[c].answer /\ call'[c].snapshot = {doc}
    BY <1>0, <1>1 DEF Enter, OnlyCall, CallRecords
  <2>4. CallsOK
    BY <2>1, <2>2, <2>3, FormedCall DEF Formed, CallsFormed
  <2> QED BY <1>1, <2>4 DEF Enter, Formed, TypeOK, CallRecords, Places, Answers, Snapshots
<1>2. ASSUME NEW c \in Callers, LockedOut(c) PROVE Formed'
  BY <1>2, Moves, FormedFrame DEF LockedOut
<1>3. ASSUME NEW c \in Callers, Commit(c) PROVE Formed'
  <2> DEFINE read == CHOOSE d \in call[c].snapshot : TRUE
             answer == IF call[c].op = "claim"
                         THEN ClaimAnswer(read[call[c].key], call[c].request) ELSE call[c].answer
  <2>1. call[c].pc = "locked" /\ call[c].key \in Keys /\ call[c].request \in Requests
    BY <1>3 DEF Commit, Formed, CallsFormed
  <2>2. read \in [Keys -> Entries] /\ Replaced(c) \in [Keys -> Entries]
    BY <2>1, Documents
  <2>3. ClaimAnswer(read[call[c].key], call[c].request) \in {"acquired", "conflict", "replay", "pending"}
    BY <2>1, <2>2, ClaimAnswers
  <2>4. call' = [call EXCEPT ![c].pc = "written", ![c].snapshot = {}, ![c].answer = answer]
    BY <1>0, <1>3 DEF Commit
  <2> HIDE DEF read
  <2>5. call' \in [Callers -> CallRecords]
    <3>1. answer \in Answers /\ {} \in Snapshots
      BY <1>0, <2>3 DEF CallRecords, Answers, Snapshots
    <3> HIDE DEF answer
    <3>2. call'[c] \in CallRecords
      BY ZenonT(60), <1>0, <2>4, <3>1 DEF CallRecords, Places
    <3> QED BY <1>0, <2>4, <3>2
  <2>6. /\ OnlyCall(c) /\ call'[c].pc = "written" /\ call'[c].key = call[c].key
        /\ call'[c].request = call[c].request /\ call'[c].op = call[c].op /\ call'[c].answer = answer
    BY <1>0, <2>4 DEF OnlyCall, CallRecords
  <2>7. CallsOK
    BY <2>1, <2>3, <2>5, <2>6, FormedCall DEF Formed, CallsFormed
  <2> QED BY <1>3, <2>2, <2>7 DEF Commit, Formed, TypeOK, CallRecords, Places, Answers, Snapshots
<1>4. ASSUME NEW c \in Callers, CommitThrows(c) PROVE Formed'
  <2>1. CallsOK /\ Replaced(c) \in [Keys -> Entries]
    BY <1>4, Moves, Documents DEF CommitThrows
  <2> QED BY SMTT(30), <1>4, <2>1, LedgerAssumption DEF CommitThrows, Formed, TypeOK, CallRecords, Places, Answers, Snapshots
<1>5. ASSUME NEW c \in Callers, Start(c) PROVE Formed'
  <2>1. PICK k \in Keys, m \in {"apply", "reconcile"}, reuse \in BOOLEAN : \E r \in RequestsOf[k] :
          call' = [call EXCEPT ![c] = [Idle EXCEPT !.pc = "waiting", !.mode = m, !.key = k,
                                                   !.request = r, !.reuse = reuse]]
    BY <1>5 DEF Start
  <2>2. PICK r \in RequestsOf[k] :
          call' = [call EXCEPT ![c] = [Idle EXCEPT !.pc = "waiting", !.mode = m, !.key = k,
                                                   !.request = r, !.reuse = reuse]]
    BY <2>1
  <2>3. r \in Requests
    BY LedgerAssumption
  <2>4. [Idle EXCEPT !.pc = "waiting", !.mode = m, !.key = k, !.request = r, !.reuse = reuse]
          \in CallRecords
    BY <2>3 DEF CallRecords, Idle, Places, Answers, Snapshots
  <2>5. call' \in [Callers -> CallRecords] /\ OnlyCall(c)
    BY <1>0, <2>2, <2>4 DEF OnlyCall
  <2>6. call'[c].pc = "waiting" /\ call'[c].op = "claim" /\ call'[c].key = k /\ call'[c].request = r
    BY <1>0, <2>2 DEF Idle
  <2>8. CallsOK
    BY <2>3, <2>5, <2>6, FormedCall
  <2>7. used' \in [calls : 0..MaxCalls, failures : 0..MaxFailures]
    BY <1>5, LedgerAssumption DEF Start, Formed, TypeOK
  <2> QED BY <1>5, <2>7, <2>8 DEF Start, Formed, TypeOK, CallRecords, Places, Answers, Snapshots
<1>6. ASSUME NEW c \in Callers, Leave(c) PROVE Formed'
  <2>1. CallsOK
    BY <1>6, Moves DEF Leave, ApplyGoesOn, ReconcileGoesOn, Formed, TypeOK
  <2>2. released' \subseteq Keys
    BY <1>6 DEF Leave, Unheld, Formed, CallsFormed, TypeOK
  <2> QED BY <1>6, <2>1, <2>2 DEF Leave, Formed, TypeOK, CallRecords, Places, Answers, Snapshots
<1>7. ASSUME NEW c \in Callers, Discovered(c) PROVE Formed'
  BY <1>7, Moves, FormedFrame DEF Discovered
<1>8. ASSUME NEW c \in Callers, Executed(c) PROVE Formed'
  <2>1. CallsOK
    BY <1>8, Moves DEF Executed, UnknownSettles
  <2>2. late' \subseteq Keys \X Requests
    BY <1>8, TypedHistory DEF Executed, Formed, TypeOK
  <2> QED BY <1>8, <2>1, <2>2 DEF Executed, Formed, TypeOK, CallRecords, Places, Answers, Snapshots
<1>9. ASSUME NEW c \in Callers, Reconciled(c) PROVE Formed'
  BY <1>9, Moves, FormedFrame DEF Reconciled, UnknownSettles
<1>10. ASSUME NEW c \in Callers, Repeated(c) PROVE Formed'
  <2>1. CallsOK
    BY <1>10, Moves DEF Repeated, UnknownSettles
  <2>2. late' \subseteq Keys \X Requests
    BY <1>10, TypedHistory DEF Repeated, Formed, TypeOK
  <2> QED BY <1>10, <2>1, <2>2 DEF Repeated, Formed, TypeOK, CallRecords, Places, Answers, Snapshots
<1>11. ASSUME NEW c \in Callers, ReadBack(c) PROVE Formed'
  <2>1. CASE Ends(c)
    BY <1>11, <2>1, Moves, FormedFrame DEF ReadBack
  <2>2. CASE call' = [call EXCEPT ![c].pc = "waiting", ![c].op = "put"]
    <3>1. call' \in [Callers -> CallRecords] /\ OnlyCall(c)
      <4>1. call'[c] \in CallRecords
        BY ZenonT(60), <1>0, <2>2 DEF CallRecords, Places
      <4> QED BY <1>0, <2>2, <4>1 DEF OnlyCall
    <3>2. call'[c].pc = "waiting" /\ call'[c].op = "put" /\ call'[c].key = call[c].key
          /\ call'[c].request = call[c].request
      BY <1>0, <2>2 DEF CallRecords
    <3>3. CallsOK
      BY <1>11, <3>1, <3>2, FormedCall DEF ReadBack, Formed, CallsFormed
    <3> QED BY <1>11, <3>3, FormedFrame DEF ReadBack
  <2> QED BY <1>11, <2>1, <2>2 DEF ReadBack
<1>12. ASSUME NEW c \in Callers, ProviderWrites(c) PROVE Formed'
  <2>1. call[c].key \in Keys /\ call[c].request \in Requests
    BY <1>12 DEF ProviderWrites, Formed, CallsFormed
  <2>2. writes' \in [Keys -> [Requests -> 0..2]]
    BY <1>12, <2>1, TypedHistory DEF ProviderWrites
  <2>3. call' \in [Callers -> CallRecords] /\ OnlyCall(c)
    <3>1. call'[c] \in CallRecords
      BY <1>0, <1>12 DEF CallRecords, ProviderWrites
    <3> QED BY <1>0, <1>12, <3>1 DEF ProviderWrites, OnlyCall
  <2>4. call'[c].pc = call[c].pc /\ call'[c].op = call[c].op /\ call'[c].key = call[c].key
        /\ call'[c].request = call[c].request
        /\ call'[c].answer = call[c].answer /\ call'[c].snapshot = call[c].snapshot
    BY <1>0, <1>12 DEF CallRecords, ProviderWrites
  <2>5. CallsOK
    BY <1>12, <2>1, <2>3, <2>4, FormedCall DEF ProviderWrites, Formed, CallsFormed
  <2> QED BY <1>12, <2>2, <2>5 DEF ProviderWrites, Formed, TypeOK, CallRecords, Places, Answers, Snapshots
<1>13. ASSUME NEW c \in Callers, Crash(c) PROVE Formed'
  <2>1. CallsOK
    BY <1>13, Moves DEF Crash
  <2>2. late' \subseteq Keys \X Requests
    BY <1>13, TypedHistory DEF Crash
  <2>3. used' \in [calls : 0..MaxCalls, failures : 0..MaxFailures]
    BY <1>13, LedgerAssumption DEF Crash, Formed, TypeOK
  <2> QED BY <1>13, <2>1, <2>2, <2>3 DEF Crash, Formed, TypeOK, CallRecords, Places, Answers, Snapshots
<1>14. ASSUME NEW k \in Keys, NEW r \in Requests, LateWrite(k, r) PROVE Formed'
  BY <1>14, TypedHistory DEF LateWrite, Formed, TypeOK, CallsFormed, Entries
<1>15. ASSUME UNCHANGED vars PROVE Formed'
  BY <1>15 DEF vars, Formed, TypeOK, CallsFormed, Entries
<1> QED
  BY <1>1, <1>2, <1>3, <1>4, <1>5, <1>6, <1>7, <1>8, <1>9, <1>10, <1>11, <1>12, <1>13, <1>14, <1>15
  DEF Next, Step

\* What the ledger and its callers store is of the types that the code gives it.
THEOREM LedgerTypeCorrect == Spec => []TypeOK
<1>1. Spec => []Formed
  BY InitFormed, NextFormed, PTL DEF Spec
<1>2. Formed => TypeOK
  BY DEF Formed
<1> QED BY <1>1, <1>2, PTL
-----------------------------------------------------------------------------
(* What each action leaves of its caller's operation.                       *)

Kept(c) ==
  /\ OnlyCall(c) /\ call'[c].key = call[c].key /\ call'[c].request = call[c].request

(* Where the steps under the lock leave a caller.                           *)
LEMMA Posts ==
  ASSUME Formed, NEW c \in Callers
  PROVE  /\ Enter(c) =>
              /\ Kept(c) /\ call'[c].pc = "locked" /\ call'[c].op = call[c].op
              /\ call'[c].answer = call[c].answer /\ call'[c].snapshot = {doc}
              /\ call'[c].wrote = call[c].wrote
         /\ Commit(c) =>
              /\ Kept(c) /\ call'[c].pc = "written" /\ call'[c].op = call[c].op
              /\ call'[c].answer =
                   IF call[c].op = "claim"
                     THEN ClaimAnswer((CHOOSE d \in call[c].snapshot : TRUE)[call[c].key], call[c].request)
                     ELSE call[c].answer
              /\ call'[c].wrote = call[c].wrote
         /\ Start(c) =>
              /\ OnlyCall(c) /\ call'[c].pc = "waiting" /\ call'[c].op = "claim"
              /\ ~call'[c].wrote
         /\ ReadBack(c) =>
              \/ Ends(c)
              \/ /\ Kept(c) /\ call'[c].pc = "waiting" /\ call'[c].op = "put"
                 /\ Matched(call[c].key) /\ call'[c].wrote = call[c].wrote
         /\ ProviderWrites(c) =>
              /\ Kept(c) /\ call'[c].pc = call[c].pc /\ call'[c].op = call[c].op
              /\ call'[c].answer = call[c].answer /\ call'[c].wrote
<1>1. call \in [Callers -> CallRecords]
  BY TypedCalls
<1>2. Enter(c) =>
        /\ Kept(c) /\ call'[c].pc = "locked" /\ call'[c].op = call[c].op
        /\ call'[c].answer = call[c].answer /\ call'[c].snapshot = {doc}
        /\ call'[c].wrote = call[c].wrote
  BY <1>1 DEF Enter, Kept, OnlyCall, CallRecords
<1>3. Commit(c) =>
        /\ Kept(c) /\ call'[c].pc = "written" /\ call'[c].op = call[c].op
        /\ call'[c].answer =
             IF call[c].op = "claim"
               THEN ClaimAnswer((CHOOSE d \in call[c].snapshot : TRUE)[call[c].key], call[c].request)
               ELSE call[c].answer
        /\ call'[c].wrote = call[c].wrote
  BY <1>1 DEF Commit, Kept, OnlyCall, CallRecords
<1>4. Start(c) =>
        /\ OnlyCall(c) /\ call'[c].pc = "waiting" /\ call'[c].op = "claim" /\ ~call'[c].wrote
  <2> SUFFICES ASSUME Start(c)
               PROVE  OnlyCall(c) /\ call'[c].pc = "waiting" /\ call'[c].op = "claim" /\ ~call'[c].wrote
    OBVIOUS
  <2>1. PICK k \in Keys, m \in {"apply", "reconcile"}, reuse \in BOOLEAN : \E r \in RequestsOf[k] :
          call' = [call EXCEPT ![c] = [Idle EXCEPT !.pc = "waiting", !.mode = m, !.key = k,
                                                   !.request = r, !.reuse = reuse]]
    BY DEF Start
  <2> QED BY <1>1, <2>1 DEF OnlyCall, Idle
<1>5. ReadBack(c) =>
        \/ Ends(c)
        \/ /\ Kept(c) /\ call'[c].pc = "waiting" /\ call'[c].op = "put"
           /\ Matched(call[c].key) /\ call'[c].wrote = call[c].wrote
  BY <1>1 DEF ReadBack, Kept, OnlyCall, CallRecords
<1>6. ProviderWrites(c) =>
        /\ Kept(c) /\ call'[c].pc = call[c].pc /\ call'[c].op = call[c].op
        /\ call'[c].answer = call[c].answer /\ call'[c].wrote
  BY <1>1 DEF ProviderWrites, Kept, OnlyCall, CallRecords
<1> QED BY <1>2, <1>3, <1>4, <1>5, <1>6

\* A claim that is written has its answer, and only a settlement or a claim that
\* acquired its key goes on towards the provider: where Leave leads.
LEMMA Leaves ==
  ASSUME Formed, NEW c \in Callers, Leave(c)
  PROVE  \/ Ends(c)
         \/ Goes(c, "readback")
         \/ call[c].op = "claim" /\ call[c].answer # "conflict" /\ Goes(c, "reconciling")
         \/ /\ call[c].op = "claim" /\ Goes(c, "discovering")
            /\ call[c].answer = "acquired" \/ (call[c].answer = "replay" /\ call[c].key \in Rerun)
         \/ /\ call[c].op = "claim" /\ call[c].answer # "conflict"
            /\ Settles(c, "no_write") \/ Settles(c, "pending")
<1>1. /\ call[c].pc = "written"
      /\ call[c].op \in {"claim", "settle", "put"} /\ call[c].mode \in {"apply", "reconcile"}
      /\ call[c].op = "claim" => call[c].answer \in {"acquired", "conflict", "replay", "pending"}
  BY DEF Leave, Formed, TypeOK, CallsFormed
<1>2. CASE call[c].op = "claim" /\ call[c].mode = "apply"
  BY <1>1, <1>2 DEF Leave, ApplyGoesOn, Replays
<1>3. CASE call[c].op = "claim" /\ call[c].mode = "reconcile"
  BY <1>1, <1>3 DEF Leave, ReconcileGoesOn
<1>4. CASE call[c].op # "claim"
  BY <1>1, <1>4 DEF Leave
<1> QED BY <1>1, <1>2, <1>3, <1>4
-----------------------------------------------------------------------------
(* The lock.                                                                *)

(* The lock is held through every step.                                     *)
LEMMA NextLocked == Formed /\ Locked /\ [Next]_vars => Locked'
<1> SUFFICES ASSUME Formed, Locked, [Next]_vars PROVE Locked'
  OBVIOUS
<1>0. lock \in Callers \cup {None} /\ None \notin Callers
  BY LedgerAssumption DEF Formed, TypeOK
<1>1. ASSUME NEW c \in Callers, Enter(c) PROVE Locked'
  BY ZenonT(60), <1>0, <1>1, Posts DEF Enter, LockFree, Locked, Kept, OnlyCall
<1>2. ASSUME NEW c \in Callers, LockedOut(c) PROVE Locked'
  BY <1>2, MovesTo DEF LockedOut, Locked, OnlyCall, Idle
<1>3. ASSUME NEW c \in Callers, Commit(c) PROVE Locked'
  <2>1. OnlyCall(c) /\ call'[c].pc = "written"
    BY <1>3, Posts DEF Kept
  <2> QED BY <1>3, <2>1 DEF Commit, Locked, OnlyCall
<1>4. ASSUME NEW c \in Callers, CommitThrows(c) PROVE Locked'
  BY <1>4, MovesTo DEF CommitThrows, Locked, OnlyCall, Idle
<1>5. ASSUME NEW c \in Callers, Start(c) PROVE Locked'
  <2>1. OnlyCall(c) /\ call'[c].pc = "waiting"
    BY <1>5, Posts
  <2> QED BY <1>5, <2>1 DEF Start, Locked, OnlyCall
<1>6. ASSUME NEW c \in Callers, Leave(c) PROVE Locked'
  <2>1. OnlyCall(c) /\ call'[c].pc \notin {"locked", "written"}
    BY <1>6, Leaves, MovesTo DEF Idle
  <2> QED BY <1>6, <2>1 DEF Leave, Locked, OnlyCall
<1>7. ASSUME NEW c \in Callers, Discovered(c) PROVE Locked'
  BY <1>7, MovesTo DEF Discovered, Locked, OnlyCall
<1>8. ASSUME NEW c \in Callers, Executed(c) PROVE Locked'
  BY <1>8, MovesTo DEF Executed, UnknownSettles, Locked, OnlyCall
<1>9. ASSUME NEW c \in Callers, Reconciled(c) PROVE Locked'
  BY <1>9, MovesTo DEF Reconciled, UnknownSettles, Locked, OnlyCall
<1>10. ASSUME NEW c \in Callers, Repeated(c) PROVE Locked'
  BY <1>10, MovesTo DEF Repeated, UnknownSettles, Locked, OnlyCall
<1>11. ASSUME NEW c \in Callers, ReadBack(c) PROVE Locked'
  <2>1. OnlyCall(c) /\ call'[c].pc \in {"idle", "waiting"}
    <3>1. CASE Ends(c)
      BY <3>1, MovesTo DEF Idle
    <3>2. CASE ~Ends(c)
      BY <1>11, <3>2, Posts DEF Kept
    <3> QED BY <3>1, <3>2
  <2> QED BY <1>11, <2>1 DEF ReadBack, Locked, OnlyCall
<1>12. ASSUME NEW c \in Callers, ProviderWrites(c) PROVE Locked'
  BY <1>12, Posts DEF ProviderWrites, Locked, Kept, OnlyCall
<1>13. ASSUME NEW c \in Callers, Crash(c) PROVE Locked'
  BY <1>13, MovesTo DEF Crash, Locked, OnlyCall, Idle
<1>14. ASSUME NEW k \in Keys, NEW r \in Requests, LateWrite(k, r) PROVE Locked'
  BY <1>14 DEF LateWrite, Locked
<1>15. ASSUME UNCHANGED vars PROVE Locked'
  BY <1>15 DEF vars, Locked
<1> QED
  BY <1>1, <1>2, <1>3, <1>4, <1>5, <1>6, <1>7, <1>8, <1>9, <1>10, <1>11, <1>12, <1>13, <1>14, <1>15
  DEF Next, Step

(* Nobody holds it at first.                                                *)
LEMMA InitLocked == Init => Locked
  BY DEF Init, Locked, Idle

\* The document an operation leaves: what it read is what is there.
Rewrites(c) ==
  /\ call[c].pc = "locked" /\ Changes(c, doc[call[c].key])
  /\ doc' = [doc EXCEPT ![call[c].key] = NewEntry(c, doc[call[c].key])]

(* What a caller under the lock replaces is the document as it is.          *)
LEMMA Replacement ==
  ASSUME Formed, Locked, NEW c \in Callers, call[c].pc = "locked"
  PROVE  /\ (CHOOSE d \in call[c].snapshot : TRUE) = doc
         /\ doc' = Replaced(c) => doc' = doc \/ Rewrites(c)
<1>1. (CHOOSE d \in call[c].snapshot : TRUE) = doc
  BY DEF Locked
<1> QED BY <1>1 DEF Replaced, Rewrites

(* Only such a replacement changes the document.                            *)
LEMMA DocumentStep ==
  ASSUME Formed, Locked, [Next]_vars
  PROVE  doc' = doc \/ \E c \in Callers : Rewrites(c) /\ (Commit(c) \/ CommitThrows(c))
<1>1. ASSUME NEW c \in Callers, Commit(c)
      PROVE  doc' = doc \/ Rewrites(c)
  BY <1>1, Replacement DEF Commit
<1>2. ASSUME NEW c \in Callers, CommitThrows(c)
      PROVE  doc' = doc \/ Rewrites(c)
  BY <1>2, Replacement DEF CommitThrows
<1> QED
  BY <1>1, <1>2 DEF Next, Step, vars, Enter, LockedOut, Leave, Discovered, Executed, Reconciled,
     Repeated, ReadBack, Start, ProviderWrites, Crash, LateWrite

\* An operation changes its own key's entry and takes back no other's, although
\* each replaces the whole document: the lock file orders them.
THEOREM LedgerKeepsEntries == Spec => NoEntryLost
<1> DEFINE A == \A k \in Keys : doc'[k] # doc[k] =>
        \E c \in Callers : call[c].key = k /\ call[c].pc = "locked" /\ call'[c].pc # "locked"
<1>1. Formed /\ Locked /\ [Next]_vars => [A]_vars
  <2> SUFFICES ASSUME Formed, Locked, [Next]_vars PROVE A
    OBVIOUS
  <2>1. CASE doc' = doc
    BY <2>1
  <2>2. ASSUME NEW c \in Callers, Rewrites(c), Commit(c) \/ CommitThrows(c) PROVE A
    <3>1. call'[c].pc # "locked"
      <4>1. CASE Commit(c)
        BY <4>1, Posts
      <4>2. CASE CommitThrows(c)
        BY <4>2, MovesTo DEF Idle, CommitThrows
      <4> QED BY <2>2, <4>1, <4>2
    <3>2. \A k \in Keys : doc'[k] # doc[k] => k = call[c].key
      BY <2>2 DEF Rewrites, Formed, TypeOK
    <3> QED BY <2>2, <3>1, <3>2 DEF Rewrites
  <2> QED BY <2>1, <2>2, DocumentStep
<1>2. Spec => [](Formed /\ Locked)
  <2>1. Init => Formed /\ Locked
    BY InitFormed, InitLocked
  <2>2. Formed /\ Locked /\ [Next]_vars => (Formed /\ Locked)'
    BY NextFormed, NextLocked
  <2> QED BY <2>1, <2>2, PTL DEF Spec
<1>3. Spec => [][A]_vars
  BY <1>1, <1>2, PTL DEF Spec
<1> QED BY <1>3 DEF NoEntryLost
-----------------------------------------------------------------------------
(* A key keeps its request.                                                 *)

(* Nothing is bound to a request at first.                                  *)
LEMMA InitBound == Init => Bound
  BY DEF Init, Bound, Admitted, Idle

\* Once claimed, a key has its request for good.
LEMMA RequestKept ==
  ASSUME Formed, Locked, Bound, [Next]_vars, NEW k \in Keys, doc[k].state # "absent"
  PROVE  doc'[k].state # "absent" /\ doc'[k].request = doc[k].request
<1>1. CASE doc' = doc
  BY <1>1
<1>2. ASSUME NEW c \in Callers, Rewrites(c)
      PROVE  doc'[k].state # "absent" /\ doc'[k].request = doc[k].request
  <2>1. doc \in [Keys -> Entries] /\ call[c].op \in {"claim", "settle", "put"}
    BY DEF Formed, TypeOK
  <2>2. CASE k # call[c].key
    BY <1>2, <2>1, <2>2 DEF Rewrites
  <2>3. CASE k = call[c].key /\ call[c].op = "claim"
    <3>1. ClaimAnswer(doc[k], call[c].request) = "acquired"
      BY <1>2, <2>3 DEF Rewrites, Changes
    <3>2. doc[k].request = call[c].request
      BY <2>1, <3>1 DEF ClaimAnswer, Entries
    <3>3. NewEntry(c, doc[k]) = [state |-> "pending", request |-> call[c].request]
      BY <2>3, <3>1 DEF NewEntry
    <3> QED BY <1>2, <2>1, <2>3, <3>2, <3>3 DEF Rewrites
  <2>4. CASE k = call[c].key /\ call[c].op = "settle"
    <3>1. doc[k].request = call[c].request
      BY <1>2, <2>4 DEF Rewrites, Bound, Admitted
    <3>2. call[c].answer \in {"pending", "succeeded", "no_write"}
      BY <1>2, <2>4 DEF Rewrites, Formed, CallsFormed
    <3>3. NewEntry(c, doc[k]) = [state |-> call[c].answer, request |-> call[c].request]
      BY <2>4 DEF NewEntry
    <3> QED BY <1>2, <2>1, <2>4, <3>1, <3>2, <3>3 DEF Rewrites
  <2>5. CASE k = call[c].key /\ call[c].op = "put"
    <3>1. NewEntry(c, doc[k]) = [state |-> "succeeded", request |-> doc[k].request]
      BY <2>5 DEF NewEntry
    <3> QED BY <1>2, <2>1, <2>5, <3>1 DEF Rewrites
  <2> QED BY <2>1, <2>2, <2>3, <2>4, <2>5
<1> QED BY <1>1, <1>2, DocumentStep

\* A claim that is admitted leaves its key with its request.
LEMMA Admission ==
  ASSUME Formed, Locked, NEW c \in Callers, Commit(c), call[c].op = "claim",
         call'[c].answer # "conflict"
  PROVE  doc'[call[c].key].state # "absent" /\ doc'[call[c].key].request = call[c].request
<1> DEFINE k == call[c].key
           e == doc[k]
<1>1. /\ call[c].pc = "locked" /\ k \in Keys /\ e \in Entries
      /\ call[c].request \in Requests /\ doc \in [Keys -> Entries]
  BY DEF Commit, Formed, CallsFormed, TypeOK
<1>2. call'[c].answer = ClaimAnswer(e, call[c].request)
  BY <1>1, Posts, Replacement
<1>3. CASE call'[c].answer = "acquired"
  <2>1. doc' = [doc EXCEPT ![k] = NewEntry(c, e)]
    BY <1>1, <1>2, <1>3, Replacement DEF Commit, Replaced, Changes
  <2>2. NewEntry(c, e) = [state |-> "pending", request |-> call[c].request]
    BY <1>2, <1>3 DEF NewEntry
  <2> QED BY <1>1, <2>1, <2>2
<1>4. CASE call'[c].answer # "acquired"
  <2>1. doc' = doc
    BY <1>1, <1>2, <1>4, Replacement DEF Commit, Replaced, Changes
  <2>2. e.state # "absent" /\ e.request = call[c].request
    BY <1>1, <1>2, <1>4 DEF ClaimAnswer, Entries
  <2> QED BY <2>1, <2>2
<1> QED BY <1>3, <1>4

\* Who is admitted was so before, for the same key and request, unless its
\* claim has just been written.
LEMMA AdmittedStep ==
  ASSUME Formed, Locked, [Next]_vars, NEW d \in Callers, Admitted(d)'
  PROVE  \/ Admitted(d) /\ call'[d].key = call[d].key /\ call'[d].request = call[d].request
         \/ Commit(d) /\ call[d].op = "claim" /\ call'[d].answer # "conflict"
            /\ call'[d].key = call[d].key /\ call'[d].request = call[d].request
<1> DEFINE Was == Admitted(d) /\ call'[d].key = call[d].key /\ call'[d].request = call[d].request
           Goal == \/ Was
                   \/ Commit(d) /\ call[d].op = "claim" /\ call'[d].answer # "conflict"
                      /\ call'[d].key = call[d].key /\ call'[d].request = call[d].request
<1>0. ASSUME call'[d] = call[d] PROVE Was
  BY <1>0 DEF Admitted
<1>1. ASSUME NEW c \in Callers, OnlyCall(c), c # d PROVE Was
  BY <1>0, <1>1 DEF OnlyCall
<1>2. ASSUME NEW c \in Callers, Enter(c) PROVE Goal
  <2>1. CASE c = d
    <3>1. Kept(c) /\ call'[c].pc = "locked" /\ call'[c].op = call[c].op
      BY <1>2, Posts
    <3> QED BY <1>2, <2>1, <3>1 DEF Enter, Admitted, Kept
  <2> QED BY <1>1, <1>2, <2>1, Posts DEF Kept
<1>3. ASSUME NEW c \in Callers, Ends(c) PROVE Goal
  <2>1. c # d
    BY <1>3, MovesTo DEF Admitted, Idle
  <2> QED BY <1>1, <1>3, <2>1, MovesTo
<1>4. ASSUME NEW c \in Callers, Commit(c) PROVE Goal
  <2>1. CASE c = d
    <3>1. Kept(c) /\ call'[c].pc = "written"
      BY <1>4, Posts
    <3> QED BY <1>4, <2>1, <3>1 DEF Commit, Admitted, Kept
  <2> QED BY <1>1, <1>4, <2>1, Posts DEF Kept
<1>5. ASSUME NEW c \in Callers, Start(c) PROVE Goal
  <2>1. c # d
    BY <1>5, Posts DEF Admitted
  <2> QED BY <1>1, <1>5, <2>1, Posts
<1>6. ASSUME NEW c \in Callers, call[c].pc \in {"discovering", "executing", "reconciling", "repeating"}
                                  \/ (call[c].pc = "written" /\ call[c].answer # "conflict"),
             \/ \E pc \in {"discovering", "executing", "reconciling", "repeating", "readback"} : Goes(c, pc)
             \/ \E a \in {"pending", "succeeded", "no_write"} : Settles(c, a)
      PROVE  Goal
  <2>1. Admitted(c)
    BY <1>6 DEF Admitted
  <2>2. OnlyCall(c) /\ call'[c].key = call[c].key /\ call'[c].request = call[c].request
    BY <1>6, MovesTo
  <2> QED BY <1>1, <2>1, <2>2
<1>7. ASSUME NEW c \in Callers, Leave(c) PROVE Goal
  <2>1. call[c].pc = "written" /\ (call[c].op = "settle" => call[c].answer # "conflict")
    BY <1>7 DEF Leave, Formed, CallsFormed
  <2>2. CASE Ends(c)
    BY <1>3, <2>2
  <2>3. CASE call[c].answer # "conflict" /\ ~Ends(c)
    <3>1. \/ \E pc \in {"discovering", "reconciling", "readback"} : Goes(c, pc)
          \/ \E a \in {"pending", "no_write"} : Settles(c, a)
      BY <1>7, <2>3, Leaves
    <3> QED BY <1>6, <2>1, <2>3, <3>1
  <2>4. CASE call[c].answer = "conflict" /\ ~Ends(c)
    <3>1. FALSE
      BY <1>7, <2>1, <2>4 DEF Leave, ApplyGoesOn, ReconcileGoesOn, Formed, TypeOK
    <3> QED BY <3>1
  <2> QED BY <2>2, <2>3, <2>4
<1>8. ASSUME NEW c \in Callers, Discovered(c) \/ Executed(c) \/ Reconciled(c) \/ Repeated(c) PROVE Goal
  BY <1>6, <1>8 DEF Discovered, Executed, Reconciled, Repeated, UnknownSettles
<1>9. ASSUME NEW c \in Callers, ReadBack(c) PROVE Goal
  <2>1. CASE ~Ends(c)
    <3>1. Kept(c) /\ Admitted(c)
      BY <1>9, <2>1, Posts DEF ReadBack, Admitted
    <3> QED BY <1>1, <3>1 DEF Kept
  <2> QED BY <1>3, <2>1
<1>10. ASSUME NEW c \in Callers, ProviderWrites(c) PROVE Goal
  <2>1. Kept(c) /\ Admitted(c)
    BY <1>10, Posts DEF ProviderWrites, Admitted
  <2> QED BY <1>1, <2>1 DEF Kept
<1>11. ASSUME UNCHANGED call PROVE Goal
  BY <1>0, <1>11
<1> QED
  BY <1>2, <1>3, <1>4, <1>5, <1>7, <1>8, <1>9, <1>10, <1>11
  DEF Next, Step, LockedOut, CommitThrows, Crash, LateWrite, vars

\* What is written or under way was so before, or comes from an admitted call.
LEMMA HistoryStep ==
  ASSUME Formed, Locked, [Next]_vars, NEW k \in Keys, NEW r \in Requests,
         writes'[k][r] > 0 \/ <<k, r>> \in late'
  PROVE  \/ writes[k][r] > 0 \/ <<k, r>> \in late
         \/ \E c \in Callers : Admitted(c) /\ call[c].key = k /\ call[c].request = r
<1> DEFINE Goal == \/ writes[k][r] > 0 \/ <<k, r>> \in late
                   \/ \E c \in Callers : Admitted(c) /\ call[c].key = k /\ call[c].request = r
<1>0. writes \in [Keys -> [Requests -> 0..2]]
  BY DEF Formed, TypeOK
<1>1. ASSUME NEW l \in Keys, NEW q \in Requests, CarryOut(l, q), <<k, r>> # <<l, q>>
      PROVE  writes'[k][r] = writes[k][r]
  BY <1>0, <1>1 DEF CarryOut
<1>2. ASSUME NEW c \in Callers, late' \subseteq late \cup Abandoned(c), writes' = writes PROVE Goal
  <2>1. CASE <<k, r>> \in Abandoned(c)
    BY <2>1 DEF Abandoned, Admitted
  <2> QED BY <1>2, <2>1
<1>3. ASSUME NEW c \in Callers, ProviderWrites(c) PROVE Goal
  <2>1. call[c].key \in Keys /\ call[c].request \in Requests /\ Admitted(c)
    BY <1>3 DEF ProviderWrites, Formed, CallsFormed, Admitted
  <2> QED BY <1>1, <1>3, <2>1 DEF ProviderWrites
<1>4. ASSUME NEW l \in Keys, NEW q \in Requests, LateWrite(l, q) PROVE Goal
  BY <1>1, <1>4 DEF LateWrite
<1>5. ASSUME UNCHANGED <<writes, late>> PROVE Goal
  BY <1>5
<1> QED
  BY <1>2, <1>3, <1>4, <1>5 DEF Next, Step, vars, Enter, LockedOut, Commit, CommitThrows, Start, Leave,
     Discovered, Executed, Reconciled, Repeated, ReadBack, Crash

(* Entries stay bound to their requests through every step.                 *)
LEMMA NextBound == Formed /\ Locked /\ Bound /\ [Next]_vars => Bound'
<1> SUFFICES ASSUME Formed, Locked, Bound, [Next]_vars PROVE Bound'
  OBVIOUS
<1>1. ASSUME NEW d \in Callers, Admitted(d)'
      PROVE  doc'[call'[d].key].state # "absent" /\ doc'[call'[d].key].request = call'[d].request
  <2>1. CASE Admitted(d) /\ call'[d].key = call[d].key /\ call'[d].request = call[d].request
    <3>1. call[d].key \in Keys
      BY <2>1 DEF Admitted, Formed, CallsFormed
    <3> QED BY <2>1, <3>1, RequestKept DEF Bound
  <2> QED BY <1>1, <2>1, AdmittedStep, Admission
<1>2. ASSUME NEW k \in Keys, NEW r \in Requests, writes'[k][r] > 0 \/ <<k, r>> \in late'
      PROVE  doc'[k].state # "absent" /\ doc'[k].request = r
  BY <1>2, HistoryStep, RequestKept DEF Bound
<1> QED BY <1>1, <1>2 DEF Bound
-----------------------------------------------------------------------------
(* Success is reported only of writes.                                      *)

(* Nothing is reported at first.                                            *)
LEMMA InitReported == Init => Reported
  BY DEF Init, Reported, ReportsTruly, Absent, Idle

\* A write is not undone, and one carried out is there.
LEMMA CarriedOut ==
  ASSUME Formed, NEW k \in Keys, NEW r \in Requests, CarryOut(k, r)
  PROVE  /\ Exists(k)'
         /\ \A l \in Keys : Exists(l) => Exists(l)'
         /\ \A l \in Keys : l # k => (Exists(l)' <=> Exists(l))
<1>1. writes \in [Keys -> [Requests -> 0..2]]
  BY DEF Formed, TypeOK
<1>2. writes'[k][r] > 0
  BY <1>1 DEF CarryOut
<1>3. \A l \in Keys, q \in Requests : writes[l][q] > 0 => writes'[l][q] > 0
  BY <1>1, <1>2 DEF CarryOut
<1>4. \A l \in Keys : l # k => writes'[l] = writes[l]
  BY <1>1 DEF CarryOut
<1> QED BY <1>2, <1>3, <1>4 DEF Exists, Written

(* What exists at the provider goes on existing.                            *)
LEMMA ExistsKept ==
  ASSUME Formed, [Next]_vars
  PROVE  \A k \in Keys : Exists(k) => Exists(k)'
<1>1. CASE writes' = writes
  BY <1>1 DEF Exists, Written
<1>2. ASSUME NEW c \in Callers, ProviderWrites(c)
      PROVE  \A k \in Keys : Exists(k) => Exists(k)'
  <2>1. call[c].key \in Keys /\ call[c].request \in Requests
    BY <1>2 DEF ProviderWrites, Formed, CallsFormed
  <2> QED BY <1>2, <2>1, CarriedOut DEF ProviderWrites
<1>3. ASSUME NEW l \in Keys, NEW r \in Requests, LateWrite(l, r)
      PROVE  \A k \in Keys : Exists(k) => Exists(k)'
  BY <1>3, CarriedOut DEF LateWrite
<1> QED
  BY <1>1, <1>2, <1>3 DEF Next, Step, vars, Enter, LockedOut, Commit, CommitThrows, Start, Leave,
     Discovered, Executed, Reconciled, Repeated, ReadBack, Crash

\* A move that reports success is made when the write is there.
LEMMA ReportsKept ==
  ASSUME Formed, Locked, Reported, [Next]_vars, NEW d \in Callers
  PROVE  ReportsTruly(d)'
<1>0. /\ ReportsTruly(d)
      /\ call[d].pc # "idle" => call[d].key \in Keys
      /\ \A k \in Keys : Exists(k) => Exists(k)'
  BY ExistsKept DEF Reported, Formed, CallsFormed
<1>1. ASSUME call'[d] = call[d] PROVE ReportsTruly(d)'
  BY <1>0, <1>1 DEF ReportsTruly
<1>2. ASSUME NEW c \in Callers, OnlyCall(c), c # d PROVE ReportsTruly(d)'
  BY <1>1, <1>2 DEF OnlyCall
\* What a call that goes on needs to report truly still.
<1>3. ASSUME Kept(d), call[d].pc # "idle", call'[d].wrote = call[d].wrote,
             call'[d].op = "settle" /\ call'[d].answer = "succeeded" =>
               (call[d].op = "settle" /\ call[d].answer = "succeeded") \/ Exists(call[d].key),
             call'[d].op = "put" => call[d].op = "put" \/ Exists(call[d].key)
      PROVE  ReportsTruly(d)'
  <2>1. call'[d].key = call[d].key
    BY <1>3 DEF Kept
  <2> QED BY <1>0, <1>3, <2>1 DEF ReportsTruly
<1>4. ASSUME NEW c \in Callers, Ends(c) PROVE ReportsTruly(d)'
  <2>1. CASE c = d
    BY <1>4, <2>1, MovesTo DEF ReportsTruly, Idle
  <2> QED BY <1>2, <1>4, <2>1, MovesTo
<1>5. ASSUME NEW c \in Callers, call[c].pc # "idle",
             NEW pc \in {"discovering", "executing", "reconciling", "repeating", "readback"}, Goes(c, pc)
      PROVE  ReportsTruly(d)'
  <2>1. CASE c = d
    <3>1. /\ Kept(d) /\ call'[d].wrote = call[d].wrote
          /\ call'[d].op = call[d].op /\ call'[d].answer = call[d].answer
      BY <1>5, <2>1, MovesTo DEF Kept
    <3> QED BY <1>3, <1>5, <2>1, <3>1
  <2> QED BY <1>2, <1>5, <2>1, MovesTo
<1>6. ASSUME NEW c \in Callers, call[c].pc # "idle",
             NEW a \in {"pending", "succeeded", "no_write"}, Settles(c, a),
             a = "succeeded" => Exists(call[c].key)
      PROVE  ReportsTruly(d)'
  <2>1. CASE c = d
    <3>1. /\ Kept(d) /\ call'[d].wrote = call[d].wrote
          /\ call'[d].op = "settle" /\ call'[d].answer = a
      BY <1>6, <2>1, MovesTo DEF Kept
    <3> QED BY <1>3, <1>6, <2>1, <3>1
  <2> QED BY <1>2, <1>6, <2>1, MovesTo
<1>7. ASSUME NEW c \in Callers, Enter(c) PROVE ReportsTruly(d)'
  <2>1. /\ Kept(c) /\ call[c].pc # "idle" /\ call'[c].wrote = call[c].wrote
        /\ call'[c].op = call[c].op /\ call'[c].answer = call[c].answer
    BY <1>7, Posts DEF Enter
  <2>2. CASE c = d
    BY <1>3, <2>1, <2>2
  <2> QED BY <1>2, <2>1, <2>2 DEF Kept
<1>8. ASSUME NEW c \in Callers, Commit(c) PROVE ReportsTruly(d)'
  <2>1. /\ Kept(c) /\ call[c].pc # "idle" /\ call'[c].wrote = call[c].wrote
        /\ call'[c].op = call[c].op
        /\ call[c].op # "claim" => call'[c].answer = call[c].answer
    BY <1>8, Posts DEF Commit
  <2>2. CASE c = d
    BY <1>3, <2>1, <2>2
  <2> QED BY <1>2, <2>1, <2>2 DEF Kept
<1>9. ASSUME NEW c \in Callers, Start(c) PROVE ReportsTruly(d)'
  <2>1. /\ OnlyCall(c) /\ call'[c].op = "claim" /\ ~call'[c].wrote
    BY <1>9, Posts
  <2>2. CASE c = d
    BY <2>1, <2>2 DEF ReportsTruly
  <2> QED BY <1>2, <2>1, <2>2
<1>10. ASSUME NEW c \in Callers, Leave(c) PROVE ReportsTruly(d)'
  <2>1. call[c].pc # "idle"
    BY <1>10 DEF Leave
  <2> QED BY <1>4, <1>5, <1>6, <1>10, <2>1, Leaves
<1>11. ASSUME NEW c \in Callers, Discovered(c) \/ Reconciled(c) PROVE ReportsTruly(d)'
  BY <1>5, <1>6, <1>11 DEF Discovered, Reconciled, Matched, UnknownSettles
<1>12. ASSUME NEW c \in Callers, Executed(c) \/ Repeated(c) PROVE ReportsTruly(d)'
  <2>1. call[c].pc # "idle" /\ (call[c].wrote => Exists(call[c].key))
    BY <1>12 DEF Executed, Repeated, Reported, ReportsTruly
  <2> QED BY <1>6, <1>12, <2>1 DEF Executed, Repeated, UnknownSettles
<1>13. ASSUME NEW c \in Callers, ReadBack(c) PROVE ReportsTruly(d)'
  <2>1. CASE ~Ends(c)
    <3>1. /\ Kept(c) /\ call[c].pc # "idle" /\ call'[c].op = "put" /\ Exists(call[c].key)
          /\ call'[c].wrote = call[c].wrote
      BY <1>13, <2>1, Posts DEF ReadBack, Matched
    <3>2. CASE c = d
      BY <1>3, <3>1, <3>2
    <3> QED BY <1>2, <3>1, <3>2 DEF Kept
  <2> QED BY <1>4, <2>1
<1>14. ASSUME NEW c \in Callers, ProviderWrites(c) PROVE ReportsTruly(d)'
  <2>1. call[c].key \in Keys /\ call[c].request \in Requests
    BY <1>14 DEF ProviderWrites, Formed, CallsFormed
  <2>2. PICK k \in Keys : k = call[c].key
    BY <2>1
  <2>3. Exists(k)'
    BY <1>14, <2>1, <2>2, CarriedOut DEF ProviderWrites
  <2>4. Kept(c) /\ call'[c].key = k
    BY <1>14, <2>2, Posts DEF Kept
  <2>5. CASE c = d
    BY <2>3, <2>4, <2>5 DEF ReportsTruly
  <2> QED BY <1>2, <2>4, <2>5 DEF Kept
<1>15. ASSUME UNCHANGED call PROVE ReportsTruly(d)'
  BY <1>1, <1>15
<1> QED
  BY <1>4, <1>7, <1>8, <1>9, <1>10, <1>11, <1>12, <1>13, <1>14, <1>15
  DEF Next, Step, LockedOut, CommitThrows, Crash, LateWrite, vars

(* Reports stay true through every step.                                    *)
LEMMA NextReported == Formed /\ Locked /\ Reported /\ [Next]_vars => Reported'
<1> SUFFICES ASSUME Formed, Locked, Reported, [Next]_vars PROVE Reported'
  OBVIOUS
<1>1. ASSUME NEW k \in Keys, doc'[k].state = "succeeded" PROVE Exists(k)
  <2>1. CASE doc'[k] = doc[k]
    BY <1>1, <2>1 DEF Reported
  <2>2. ASSUME NEW c \in Callers, Rewrites(c), doc'[k] # doc[k] PROVE Exists(k)
    <3>1. k = call[c].key /\ doc'[k] = NewEntry(c, doc[k])
      BY <2>2 DEF Rewrites, Formed, TypeOK
    <3>2. /\ call[c].pc # "idle" /\ call[c].op \in {"claim", "settle", "put"}
          /\ call[c].op = "claim" => ClaimAnswer(doc[k], call[c].request) = "acquired"
      BY <2>2, <3>1 DEF Rewrites, Changes, Formed, TypeOK
    <3>3. call[c].op = "put" \/ (call[c].op = "settle" /\ call[c].answer = "succeeded")
      BY <1>1, <3>1, <3>2 DEF NewEntry
    <3> QED BY <3>1, <3>2, <3>3 DEF Reported, ReportsTruly
  <2> QED BY <2>1, <2>2, DocumentStep
<1> QED BY <1>1, ExistsKept, ReportsKept DEF Reported

\* Whatever the transports may do: success is recorded, answered and promoted
\* only for what the provider has carried out.
THEOREM LedgerReportsTruly == Spec => []Reported
<1>1. Init => Formed /\ Locked /\ Reported
  BY InitFormed, InitLocked, InitReported
<1>2. Formed /\ Locked /\ Reported /\ [Next]_vars => (Formed /\ Locked /\ Reported)'
  BY NextFormed, NextLocked, NextReported
<1> QED BY <1>1, <1>2, PTL DEF Spec
-----------------------------------------------------------------------------
(* A plain key is written once.  A step does one of six things to a key.    *)

\* Nothing is written, sent or released, and nobody else comes to hold the key.
Quiet(k) ==
  /\ Exists(k)' <=> Exists(k)
  /\ OnItsWay(k)' <=> OnItsWay(k)
  /\ Claimable(k)' => Claimable(k)
  /\ \A d \in Callers : Holds(d, k)' => Holds(d, k) /\ (HasWritten(d) => HasWritten(d)')

\* A claim acquires a key that may be claimed.
Acquired(c, k) ==
  /\ Exists(k)' <=> Exists(k)
  /\ OnItsWay(k)' <=> OnItsWay(k)
  /\ Claimable(k) /\ ~Claimable(k)'
  /\ \A d \in Callers : Holds(d, k)' => d = c \/ Holds(d, k)

\* The attempt that holds the key, and has not written, releases it.
Released(c, k) ==
  /\ Exists(k)' <=> Exists(k)
  /\ OnItsWay(k)' <=> OnItsWay(k)
  /\ Holds(c, k) /\ ~HasWritten(c)
  /\ \A d \in Callers : Holds(d, k)' => d # c /\ Holds(d, k)

\* It writes.
Wrote(c, k) ==
  /\ Holds(c, k) /\ HasWritten(c)'
  /\ OnItsWay(k)' <=> OnItsWay(k)
  /\ Claimable(k)' <=> Claimable(k)
  /\ \A d \in Callers : Holds(d, k)' => Holds(d, k)

\* It gives its request up, which stays on its way.
Left(c, k) ==
  /\ Exists(k)' <=> Exists(k)
  /\ Claimable(k)' <=> Claimable(k)
  /\ Holds(c, k) /\ ~HasWritten(c)
  /\ \A d \in Callers : Holds(d, k)' => d # c /\ Holds(d, k)

\* A request on its way arrives, the only one there was.
Arrived(k) ==
  /\ OnItsWay(k) /\ ~OnItsWay(k)'
  /\ Claimable(k)' <=> Claimable(k)
  /\ \A d \in Callers : Holds(d, k)' => Holds(d, k)

Treats(k) ==
  \/ Quiet(k) \/ Arrived(k)
  \/ \E c \in Callers : Acquired(c, k) \/ Released(c, k) \/ Wrote(c, k) \/ Left(c, k)

\* None of the six lets a key be written twice.
LEMMA Treatment ==
  ASSUME NEW k, HeldOnce(k), FreeToClaim(k), Treats(k)
  PROVE  HeldOnce(k)' /\ FreeToClaim(k)'
<1>1. CASE Quiet(k)
  BY <1>1 DEF Quiet, HeldOnce, FreeToClaim
<1>2. CASE Arrived(k)
  BY <1>2 DEF Arrived, HeldOnce, FreeToClaim
<1>3. ASSUME NEW c \in Callers, Acquired(c, k) PROVE HeldOnce(k)' /\ FreeToClaim(k)'
  BY <1>3 DEF Acquired, HeldOnce, FreeToClaim
<1>4. ASSUME NEW c \in Callers, Released(c, k) PROVE HeldOnce(k)' /\ FreeToClaim(k)'
  BY <1>4 DEF Released, HeldOnce, FreeToClaim
<1>5. ASSUME NEW c \in Callers, Wrote(c, k) PROVE HeldOnce(k)' /\ FreeToClaim(k)'
  BY <1>5 DEF Wrote, HeldOnce, FreeToClaim
<1>6. ASSUME NEW c \in Callers, Left(c, k) PROVE HeldOnce(k)' /\ FreeToClaim(k)'
  BY <1>6 DEF Left, HeldOnce, FreeToClaim
<1> QED BY <1>1, <1>2, <1>3, <1>4, <1>5, <1>6 DEF Treats

\* A move that keeps the document and the providers, and does not make its
\* caller a holder, does nothing to a key.
LEMMA QuietMove ==
  ASSUME NEW k, NEW c \in Callers, OnlyCall(c), UNCHANGED <<writes, late>>,
         Claimable(k)' => Claimable(k),
         Holds(c, k)' => Holds(c, k) /\ ~HasWritten(c)
  PROVE  Treats(k)
<1>1. ASSUME NEW d \in Callers, Holds(d, k)' PROVE Holds(d, k) /\ (HasWritten(d) => HasWritten(d)')
  <2>1. CASE d = c
    BY <1>1, <2>1
  <2>2. CASE d # c
    BY <1>1, <2>2 DEF OnlyCall, Holds, HasWritten
  <2> QED BY <2>1, <2>2
<1> QED BY <1>1 DEF Treats, Quiet, Exists, Written, OnItsWay

\* A caller that stops, with what it abandons, leaves its request on its way.
LEMMA Stops ==
  ASSUME Formed, NEW k \in Plain, NEW c \in Callers, OnlyCall(c), ~Holds(c, k)',
         UNCHANGED <<doc, writes>>, late' = late \cup Abandoned(c),
         call[c].pc = "repeating" => call[c].key \in Native
  PROVE  Treats(k)
<1>1. CASE Abandoned(c) # {} /\ call[c].key = k
  <2>1. call[c].pc = "executing" /\ ~call[c].wrote
    BY <1>1 DEF Abandoned, Plain
  <2>2. Holds(c, k) /\ ~HasWritten(c)
    BY <1>1, <2>1 DEF Holds, HasWritten
  <2>3. \A d \in Callers : Holds(d, k)' => d # c /\ Holds(d, k)
    BY DEF OnlyCall, Holds
  <2> QED BY <2>2, <2>3 DEF Treats, Left, Exists, Written, Claimable
<1>2. CASE Abandoned(c) # {} /\ call[c].key # k
  <2>1. OnItsWay(k)' <=> OnItsWay(k)
    BY <1>2 DEF OnItsWay, Abandoned
  <2>2. \A d \in Callers : Holds(d, k)' => Holds(d, k) /\ (HasWritten(d) => HasWritten(d)')
    BY DEF OnlyCall, Holds, HasWritten
  <2> QED BY <2>1, <2>2 DEF Treats, Quiet, Exists, Written, Claimable
<1>3. CASE Abandoned(c) = {}
  <2>1. UNCHANGED <<writes, late>>
    BY <1>3
  <2> QED BY <2>1, QuietMove DEF Claimable
<1> QED BY <1>1, <1>2, <1>3

\* What an operation on the document does to a plain key.
LEMMA Operations ==
  ASSUME Formed, Locked, NEW k \in Plain, NEW c \in Callers, Commit(c) \/ CommitThrows(c)
  PROVE  Treats(k)
<1>1. /\ call[c].pc = "locked" /\ OnlyCall(c) /\ UNCHANGED <<writes, late>>
      /\ doc \in [Keys -> Entries] /\ call[c].op \in {"claim", "settle", "put"}
      /\ k \in Keys /\ call[c].key \in Keys
  BY Posts, MovesTo DEF Commit, CommitThrows, Kept, Formed, CallsFormed, TypeOK, Plain
<1>2. Holds(c, k)' =>
        /\ Commit(c) /\ call[c].key = k /\ call[c].op = "claim"
        /\ ClaimAnswer(doc[k], call[c].request) = "acquired"
  <2>1. CASE Commit(c)
    <3>1. /\ call'[c].pc = "written" /\ call'[c].op = call[c].op /\ call'[c].key = call[c].key
          /\ call[c].op = "claim" =>
               call'[c].answer = ClaimAnswer(doc[call[c].key], call[c].request)
      BY <1>1, <2>1, Posts, Replacement DEF Kept
    <3> QED BY <2>1, <3>1 DEF Holds
  <2>2. CASE CommitThrows(c)
    BY <2>2, MovesTo DEF CommitThrows, Holds, Idle
  <2> QED BY <2>1, <2>2
<1>3. doc' = doc \/ Rewrites(c)
  BY <1>1, Replacement DEF Commit, CommitThrows
<1>4. ASSUME call[c].op = "claim", call[c].key = k,
             ClaimAnswer(doc[k], call[c].request) = "acquired"
      PROVE  Claimable(k)
  BY <1>1, <1>4 DEF ClaimAnswer, Claimable, Entries
<1>5. CASE ~Holds(c, k)' /\ (Claimable(k)' => Claimable(k))
  BY <1>1, <1>5, QuietMove
<1>6. CASE Holds(c, k)'
  <2>1. doc' = [doc EXCEPT ![k] = NewEntry(c, doc[k])]
    BY <1>1, <1>2, <1>6, Replacement DEF Commit, Replaced, Changes
  <2>2. NewEntry(c, doc[k]) = [state |-> "pending", request |-> call[c].request]
    BY <1>2, <1>6 DEF NewEntry
  <2>3. Claimable(k) /\ ~Claimable(k)'
    BY <1>1, <1>2, <1>4, <1>6, <2>1, <2>2 DEF Claimable
  <2>4. \A d \in Callers : Holds(d, k)' => d = c \/ Holds(d, k)
    BY <1>1 DEF OnlyCall, Holds
  <2> QED BY <1>1, <2>3, <2>4 DEF Treats, Acquired, Exists, Written, OnItsWay
<1>7. CASE ~Holds(c, k)' /\ Claimable(k)' /\ ~Claimable(k)
  <2>1. Rewrites(c) /\ call[c].key = k
    BY <1>1, <1>3, <1>7 DEF Rewrites, Claimable
  <2>2. doc'[k] = NewEntry(c, doc[k]) /\ Changes(c, doc[k])
    BY <1>1, <2>1 DEF Rewrites
  <2>3. call[c].op = "settle" /\ call[c].answer = "no_write"
    <3>1. call[c].op = "settle" => call[c].answer \in {"pending", "succeeded", "no_write"}
      BY <1>1 DEF Formed, CallsFormed
    <3> QED BY <1>1, <1>7, <2>2, <3>1 DEF NewEntry, Changes, Claimable
  <2>4. Holds(c, k) /\ ~HasWritten(c)
    BY <1>1, <2>1, <2>3 DEF Holds, HasWritten
  <2>5. \A d \in Callers : Holds(d, k)' => d # c /\ Holds(d, k)
    BY <1>1, <1>7 DEF OnlyCall, Holds
  <2> QED BY <1>1, <2>4, <2>5 DEF Treats, Released, Exists, Written, OnItsWay
<1> QED BY <1>5, <1>6, <1>7

\* What the provider does when it carries out a request of a holder.
LEMMA Writes ==
  ASSUME Formed, NEW k \in Plain, NEW c \in Callers, ProviderWrites(c),
         call[c].pc = "repeating" => call[c].key \in Native
  PROVE  Treats(k)
<1>1. /\ call[c].key \in Keys /\ call[c].request \in Requests /\ k \in Keys
      /\ Kept(c) /\ call'[c].pc = call[c].pc /\ call'[c].op = call[c].op
      /\ call'[c].answer = call[c].answer /\ call'[c].wrote
  BY Posts DEF ProviderWrites, Formed, CallsFormed, Plain
<1>2. \A d \in Callers : Holds(d, k)' => Holds(d, k)
  BY <1>1 DEF Kept, OnlyCall, Holds
<1>3. \A d \in Callers : HasWritten(d) => HasWritten(d)'
  BY <1>1 DEF Kept, OnlyCall, HasWritten
<1>4. (OnItsWay(k)' <=> OnItsWay(k)) /\ (Claimable(k)' <=> Claimable(k))
  BY DEF ProviderWrites, OnItsWay, Claimable
<1>5. CASE call[c].key = k
  <2>1. call[c].pc = "executing"
    BY <1>5 DEF ProviderWrites, Plain
  <2>2. Holds(c, k) /\ HasWritten(c)'
    BY <1>1, <1>5, <2>1 DEF Holds, HasWritten
  <2> QED BY <1>2, <1>4, <2>2 DEF Treats, Wrote
<1>6. CASE call[c].key # k
  <2>1. Exists(k)' <=> Exists(k)
    <3>1. PICK l \in Keys : l = call[c].key
      BY <1>1
    <3> QED BY <1>1, <1>6, <3>1, CarriedOut DEF ProviderWrites
  <2> QED BY <1>2, <1>3, <1>4, <2>1 DEF Treats, Quiet
<1> QED BY <1>5, <1>6

\* A key has requests of its own only, so that the one that arrives is the last.
LEMMA Arrivals ==
  ASSUME Formed, Bound, NEW k \in Plain, NEW l \in Keys, NEW r \in Requests, LateWrite(l, r)
  PROVE  Treats(k)
<1>1. /\ \A d \in Callers : Holds(d, k)' => Holds(d, k)
      /\ \A d \in Callers : HasWritten(d) => HasWritten(d)'
      /\ Claimable(k)' <=> Claimable(k)
  BY DEF LateWrite, Holds, HasWritten, Claimable
<1>2. CASE l = k
  <2>1. \A q \in Requests : <<k, q>> \in late => q = r
    BY <1>2 DEF LateWrite, Bound, Plain
  <2>2. OnItsWay(k) /\ ~OnItsWay(k)'
    BY <1>2, <2>1 DEF LateWrite, OnItsWay
  <2> QED BY <1>1, <2>2 DEF Treats, Arrived
<1>3. CASE l # k
  <2>1. Exists(k)' <=> Exists(k)
    BY <1>3, CarriedOut DEF LateWrite, Plain
  <2>2. OnItsWay(k)' <=> OnItsWay(k)
    BY <1>3 DEF LateWrite, OnItsWay
  <2> QED BY <1>1, <2>1, <2>2 DEF Treats, Quiet
<1> QED BY <1>2, <1>3

\* Where a call goes, it holds a key only if it held it before.
LEMMA NoNewHolder ==
  ASSUME Formed, NEW k, NEW c \in Callers
  PROVE  /\ Ends(c) => OnlyCall(c) /\ ~Holds(c, k)'
         /\ \A pc \in {"reconciling", "repeating", "readback"} :
              Goes(c, pc) => OnlyCall(c) /\ ~Holds(c, k)'
         /\ \A pc \in {"discovering", "executing"} :
              Goes(c, pc) => OnlyCall(c) /\ (Holds(c, k)' => call[c].key = k)
         /\ \A a \in {"pending", "succeeded"} : Settles(c, a) => OnlyCall(c) /\ ~Holds(c, k)'
         /\ Settles(c, "no_write") => OnlyCall(c) /\ (Holds(c, k)' => call[c].key = k)
<1>1. Ends(c) => OnlyCall(c) /\ ~Holds(c, k)'
  BY MovesTo DEF Holds, Idle
<1>2. ASSUME NEW pc \in {"reconciling", "repeating", "readback"}, Goes(c, pc)
      PROVE  OnlyCall(c) /\ ~Holds(c, k)'
  BY <1>2, MovesTo DEF Holds
<1>3. ASSUME NEW pc \in {"discovering", "executing"}, Goes(c, pc)
      PROVE  OnlyCall(c) /\ (Holds(c, k)' => call[c].key = k)
  BY <1>3, MovesTo DEF Holds
<1>4. ASSUME NEW a \in {"pending", "succeeded"}, Settles(c, a)
      PROVE  OnlyCall(c) /\ ~Holds(c, k)'
  BY <1>4, MovesTo DEF Holds
<1>5. Settles(c, "no_write") => OnlyCall(c) /\ (Holds(c, k)' => call[c].key = k)
  BY MovesTo DEF Holds
<1> QED BY <1>1, <1>2, <1>3, <1>4, <1>5

\* Every step does one of the six things to every plain key that it leaves
\* guarded.
LEMMA TreatsKeys ==
  ASSUME Formed, Locked, Bound, RepeatsNative, [Next]_vars, NEW k \in Guarded'
  PROVE  Treats(k)
<1>0. k \in Plain /\ k \notin released'
  BY DEF Guarded, Plain
<1>1. ASSUME NEW c \in Callers, Enter(c) PROVE Treats(k)
  <2>1. /\ OnlyCall(c) /\ UNCHANGED <<doc, writes, late>>
        /\ Holds(c, k)' => Holds(c, k) /\ ~HasWritten(c)
    BY <1>1, Posts DEF Enter, Kept, Holds, HasWritten
  <2> QED BY <2>1, QuietMove DEF Claimable
<1>2. ASSUME NEW c \in Callers, LockedOut(c) PROVE Treats(k)
  BY <1>2, NoNewHolder, QuietMove DEF LockedOut, Claimable
<1>3. ASSUME NEW c \in Callers, Start(c) PROVE Treats(k)
  <2>1. OnlyCall(c) /\ UNCHANGED <<doc, writes, late>> /\ ~Holds(c, k)'
    BY <1>3, Posts DEF Start, Holds
  <2> QED BY <2>1, QuietMove DEF Claimable
<1>4. ASSUME NEW c \in Callers, Leave(c) PROVE Treats(k)
  <2>1. call[c].pc = "written" /\ UNCHANGED <<doc, writes, late>>
    BY <1>4 DEF Leave
  <2>2. call[c].op = "claim" /\ call[c].answer = "acquired" /\ call[c].key = k =>
          Holds(c, k) /\ ~HasWritten(c)
    BY <2>1 DEF Holds, HasWritten
  <2>3. CASE Ends(c) \/ Goes(c, "readback") \/ Goes(c, "reconciling")
    BY <2>1, <2>3, NoNewHolder, QuietMove DEF Claimable
  <2>4. CASE call[c].op = "claim" /\ call[c].answer = "acquired"
             /\ (Goes(c, "discovering") \/ Settles(c, "no_write"))
    <3>1. OnlyCall(c) /\ (Holds(c, k)' => call[c].key = k)
      BY <2>4, NoNewHolder
    <3> QED BY <2>1, <2>2, <2>4, <3>1, QuietMove DEF Claimable
  <2>5. CASE call[c].key \in Rerun /\ Goes(c, "discovering")
    <3>1. OnlyCall(c) /\ ~Holds(c, k)'
      BY <1>0, <2>5, NoNewHolder DEF Plain
    <3> QED BY <2>1, <3>1, QuietMove DEF Claimable
  <2>6. CASE call[c].op = "claim" /\ call[c].answer # "acquired" /\ Settles(c, "no_write")
    <3>1. call'[c].answer = "no_write"
      BY <2>6, MovesTo
    <3>2. call[c].key \in released'
      BY <1>4, <2>6, <3>1 DEF Leave, Unheld
    <3>3. OnlyCall(c) /\ ~Holds(c, k)'
      BY <1>0, <2>6, <3>2, NoNewHolder
    <3> QED BY <2>1, <3>3, QuietMove DEF Claimable
  <2>7. CASE Settles(c, "pending")
    BY <2>1, <2>7, NoNewHolder, QuietMove DEF Claimable
  <2> QED BY <1>4, <2>3, <2>4, <2>5, <2>6, <2>7, Leaves
<1>5. ASSUME NEW c \in Callers, Discovered(c) PROVE Treats(k)
  <2>1. /\ UNCHANGED <<doc, writes, late>> /\ OnlyCall(c)
        /\ Holds(c, k)' => call[c].key = k
        /\ call[c].key = k => Holds(c, k) /\ ~HasWritten(c)
    BY <1>5, NoNewHolder DEF Discovered, Holds, HasWritten
  <2> QED BY <2>1, QuietMove DEF Claimable
<1>6. ASSUME NEW c \in Callers, Executed(c) PROVE Treats(k)
  <2>1. CASE Settles(c, "succeeded") /\ UNCHANGED late
    BY <1>6, <2>1, NoNewHolder, QuietMove DEF Executed, Claimable
  <2>2. CASE ~call[c].wrote /\ Settles(c, "no_write") /\ UNCHANGED late
    <3>1. /\ OnlyCall(c) /\ (Holds(c, k)' => call[c].key = k)
          /\ call[c].key = k => Holds(c, k) /\ ~HasWritten(c)
      BY <1>6, <2>2, NoNewHolder DEF Executed, Holds, HasWritten
    <3> QED BY <1>6, <2>2, <3>1, QuietMove DEF Executed, Claimable
  <2>3. CASE Settles(c, "pending") /\ late' = late \cup Abandoned(c)
    BY <1>0, <1>6, <2>3, NoNewHolder, Stops DEF Executed, RepeatsNative
  <2> QED BY <1>6, <2>1, <2>2, <2>3 DEF Executed, UnknownSettles
<1>7. ASSUME NEW c \in Callers, Reconciled(c) PROVE Treats(k)
  <2>1. CASE Settles(c, "no_write") /\ released' = released \cup {call[c].key}
    <3>1. OnlyCall(c) /\ ~Holds(c, k)'
      BY <1>0, <2>1, NoNewHolder
    <3> QED BY <1>7, <3>1, QuietMove DEF Reconciled, Claimable
  <2>2. CASE Settles(c, "succeeded") \/ Settles(c, "pending") \/ Goes(c, "repeating")
    BY <1>7, <2>2, NoNewHolder, QuietMove DEF Reconciled, Claimable
  <2> QED BY <1>7, <2>1, <2>2 DEF Reconciled, UnknownSettles
<1>8. ASSUME NEW c \in Callers, Repeated(c) PROVE Treats(k)
  <2>1. CASE Settles(c, "succeeded") /\ UNCHANGED late
    BY <1>8, <2>1, NoNewHolder, QuietMove DEF Repeated, Claimable
  <2>2. CASE Settles(c, "pending") /\ late' = late \cup Abandoned(c)
    BY <1>0, <1>8, <2>2, NoNewHolder, Stops DEF Repeated, RepeatsNative
  <2> QED BY <1>8, <2>1, <2>2 DEF Repeated, UnknownSettles
<1>9. ASSUME NEW c \in Callers, ReadBack(c) PROVE Treats(k)
  <2>1. OnlyCall(c) /\ ~Holds(c, k)'
    <3>1. CASE Ends(c)
      BY <3>1, NoNewHolder
    <3>2. CASE ~Ends(c)
      BY <1>9, <3>2, Posts DEF Kept, Holds
    <3> QED BY <3>1, <3>2
  <2> QED BY <1>9, <2>1, QuietMove DEF ReadBack, Claimable
<1>10. ASSUME NEW c \in Callers, Crash(c) PROVE Treats(k)
  BY <1>0, <1>10, NoNewHolder, Stops DEF Crash, RepeatsNative
<1>11. ASSUME NEW c \in Callers, Commit(c) \/ CommitThrows(c) PROVE Treats(k)
  BY <1>0, <1>11, Operations
<1>12. ASSUME NEW c \in Callers, ProviderWrites(c) PROVE Treats(k)
  BY <1>0, <1>12, Writes DEF RepeatsNative
<1>13. ASSUME NEW l \in Keys, NEW r \in Requests, LateWrite(l, r) PROVE Treats(k)
  BY <1>0, <1>13, Arrivals
<1>14. ASSUME UNCHANGED vars PROVE Treats(k)
  BY <1>14 DEF vars, Treats, Quiet, Exists, Written, OnItsWay, Claimable, Holds, HasWritten
<1> QED
  BY <1>1, <1>2, <1>3, <1>4, <1>5, <1>6, <1>7, <1>8, <1>9, <1>10, <1>11, <1>12, <1>13, <1>14
  DEF Next, Step

(* Only native keys are repeated, through every step.                       *)
LEMMA NextRepeatsNative == Formed /\ RepeatsNative /\ [Next]_vars => RepeatsNative'
<1> SUFFICES ASSUME Formed, RepeatsNative, [Next]_vars PROVE RepeatsNative'
  OBVIOUS
<1>1. ASSUME NEW c \in Callers, OnlyCall(c), call'[c].pc # "repeating" PROVE RepeatsNative'
  BY <1>1 DEF RepeatsNative, OnlyCall
<1>2. ASSUME NEW c \in Callers, Ends(c) PROVE RepeatsNative'
  BY <1>1, <1>2, MovesTo DEF Idle
<1>3. ASSUME NEW c \in Callers, NEW pc \in {"discovering", "executing", "reconciling", "readback"},
             Goes(c, pc)
      PROVE  RepeatsNative'
  BY <1>1, <1>3, MovesTo
<1>4. ASSUME NEW c \in Callers, NEW a \in {"pending", "succeeded", "no_write"}, Settles(c, a)
      PROVE  RepeatsNative'
  BY <1>1, <1>4, MovesTo
<1>5. ASSUME NEW c \in Callers, Goes(c, "repeating"), call[c].key \in Native PROVE RepeatsNative'
  <2>1. OnlyCall(c) /\ call'[c].key \in Native
    BY <1>5, MovesTo
  <2> QED BY <2>1 DEF RepeatsNative, OnlyCall
<1>6. ASSUME NEW c \in Callers, Enter(c) PROVE RepeatsNative'
  BY <1>1, <1>6, Posts DEF Kept
<1>7. ASSUME NEW c \in Callers, Commit(c) PROVE RepeatsNative'
  BY <1>1, <1>7, Posts DEF Kept
<1>8. ASSUME NEW c \in Callers, Start(c) PROVE RepeatsNative'
  BY <1>1, <1>8, Posts
<1>9. ASSUME NEW c \in Callers, Leave(c) PROVE RepeatsNative'
  BY <1>2, <1>3, <1>4, <1>9, Leaves
<1>10. ASSUME NEW c \in Callers, ReadBack(c) PROVE RepeatsNative'
  <2>1. CASE ~Ends(c)
    BY <1>1, <1>10, <2>1, Posts DEF Kept
  <2> QED BY <1>2, <2>1
<1>11. ASSUME NEW c \in Callers, ProviderWrites(c) PROVE RepeatsNative'
  <2>1. Kept(c) /\ call'[c].pc = call[c].pc
    BY <1>11, Posts
  <2> QED BY <2>1 DEF Kept, OnlyCall, RepeatsNative
<1>12. ASSUME NEW c \in Callers, Discovered(c) \/ Executed(c) \/ Reconciled(c) \/ Repeated(c)
       PROVE  RepeatsNative'
  BY <1>3, <1>4, <1>5, <1>12 DEF Discovered, Executed, Reconciled, Repeated, UnknownSettles
<1>13. ASSUME UNCHANGED call PROVE RepeatsNative'
  BY <1>13 DEF RepeatsNative
<1> QED
  BY <1>2, <1>6, <1>7, <1>8, <1>9, <1>10, <1>11, <1>12, <1>13
  DEF Next, Step, LockedOut, CommitThrows, Crash, LateWrite, vars

\* What was released stays released.
LEMMA ReleasedGrows == [Next]_vars => released \subseteq released'
  BY DEF Next, Step, vars, Enter, LockedOut, Commit, CommitThrows, Start, Leave, Discovered,
     Executed, Reconciled, Repeated, ReadBack, ProviderWrites, LateWrite, Crash

\* A request is carried out for the first time, or not again.
LEMMA NextCarriedOutOnce ==
  Formed /\ Held /\ RepeatsNative /\ CarriedOutOnce /\ [Next]_vars => CarriedOutOnce'
<1> SUFFICES ASSUME Formed, Held, RepeatsNative, CarriedOutOnce, [Next]_vars PROVE CarriedOutOnce'
  OBVIOUS
<1>0. writes \in [Keys -> [Requests -> 0..2]]
  BY DEF Formed, TypeOK
<1>1. ASSUME NEW k \in Keys, NEW r \in Requests, CarryOut(k, r), UNCHANGED released,
             k \in Guarded => ~Exists(k)
      PROVE  CarriedOutOnce'
  <2>1. k \in Guarded => writes[k][r] = 0
    BY <1>0, <1>1 DEF Exists, Written
  <2>2. k \notin released => writes'[k][r] <= 1
    BY <1>0, <1>1, <2>1 DEF CarryOut, Guarded, Plain, CarriedOutOnce
  <2>3. \A l \in Keys, q \in Requests : <<l, q>> # <<k, r>> => writes'[l][q] = writes[l][q]
    BY <1>0, <1>1 DEF CarryOut
  <2> QED BY <1>1, <2>2, <2>3 DEF CarriedOutOnce
<1>2. ASSUME NEW c \in Callers, ProviderWrites(c) PROVE CarriedOutOnce'
  <2>1. call[c].key \in Keys /\ call[c].request \in Requests
    BY <1>2 DEF ProviderWrites, Formed, CallsFormed
  <2>2. call[c].key \in Guarded => ~Exists(call[c].key)
    <3>1. CASE call[c].pc = "repeating"
      BY <3>1 DEF RepeatsNative, Guarded, Plain
    <3>2. CASE call[c].pc = "executing"
      BY <1>2, <3>2 DEF ProviderWrites, Held, HeldOnce, Holds, HasWritten
    <3> QED BY <1>2, <3>1, <3>2 DEF ProviderWrites
  <2> QED BY <1>1, <1>2, <2>1, <2>2 DEF ProviderWrites
<1>3. ASSUME NEW k \in Keys, NEW r \in Requests, LateWrite(k, r) PROVE CarriedOutOnce'
  BY <1>1, <1>3 DEF LateWrite, Held, HeldOnce, OnItsWay
<1>4. ASSUME UNCHANGED writes PROVE CarriedOutOnce'
  BY <1>4, ReleasedGrows DEF CarriedOutOnce
<1> QED
  BY <1>2, <1>3, <1>4 DEF Next, Step, vars, Enter, LockedOut, Commit, CommitThrows, Start, Leave,
     Discovered, Executed, Reconciled, Repeated, ReadBack, Crash

(* The invariant holds at first.                                            *)
LEMMA InitPInv == Init => PInv
<1> SUFFICES ASSUME Init PROVE PInv
  OBVIOUS
<1>1. Held /\ Free
  BY DEF Init, Held, Free, HeldOnce, FreeToClaim, Holds, OnItsWay, Exists, Written, Guarded, Plain, Idle
<1>2. RepeatsNative /\ CarriedOutOnce
  BY DEF Init, RepeatsNative, CarriedOutOnce, Idle
<1> QED BY <1>1, <1>2, InitFormed, InitLocked, InitBound, InitReported DEF PInv

(* It is kept by every step.                                                *)
LEMMA NextPInv == PInv /\ [Next]_vars => PInv'
<1> SUFFICES ASSUME PInv, [Next]_vars PROVE PInv'
  OBVIOUS
<1>1. ASSUME NEW k \in Guarded' PROVE HeldOnce(k)' /\ FreeToClaim(k)'
  <2>1. k \in Guarded
    BY ReleasedGrows DEF Guarded, Plain
  <2>2. HeldOnce(k) /\ FreeToClaim(k)
    BY <2>1 DEF PInv, Held, Free
  <2>3. Treats(k)
    BY TreatsKeys DEF PInv
  <2> QED BY <2>2, <2>3, Treatment
<1>2. Held' /\ Free'
  BY <1>1 DEF Held, Free
<1>3. Formed' /\ Locked' /\ Bound' /\ Reported'
  BY NextFormed, NextLocked, NextBound, NextReported DEF PInv
<1>4. RepeatsNative' /\ CarriedOutOnce'
  BY NextRepeatsNative, NextCarriedOutOnce DEF PInv
<1> QED BY <1>2, <1>3, <1>4 DEF PInv

(* It holds of the ledger.                                                  *)
LEMMA LedgerInvariant == Spec => []PInv
  BY InitPInv, NextPInv, PTL DEF Spec

\* An unknown outcome is not permission to write again: a key is written for one
\* request only and, unless somebody who had not acquired it has released it, at
\* most once.
THEOREM LedgerWritesOnce == Spec => []OneWrite
<1>1. PInv => OneWrite
  <2> SUFFICES ASSUME PInv, NEW k \in Keys
               PROVE  /\ Cardinality(Written(k)) <= 1
                      /\ k \notin released => \A r \in Requests : writes[k][r] <= 1
    BY DEF OneWrite
  <2>1. Written(k) \subseteq {doc[k].request}
    BY DEF PInv, Bound, Written
  <2>2. Cardinality(Written(k)) <= 1
    <3>1. IsFiniteSet({doc[k].request}) /\ Cardinality({doc[k].request}) = 1
      BY FS_Singleton
    <3>2. Cardinality(Written(k)) <= Cardinality({doc[k].request})
      BY <2>1, <3>1, FS_Subset
    <3>3. IsFiniteSet(Written(k)) /\ Cardinality(Written(k)) \in Nat
      BY <2>1, <3>1, FS_Subset, FS_CardinalityType
    <3> QED BY <3>1, <3>2, <3>3
  <2> QED BY <2>2 DEF PInv, CarriedOutOnce
<1> QED BY <1>1, LedgerInvariant, PTL

\* The ledger reports a write only when there was one, and a key that its owner
\* releases has nothing written for it, and nothing can be any more.
THEOREM LedgerEntriesAreTrue == Spec => []EntriesAreTrue
<1>1. PInv => EntriesAreTrue
  <2> SUFFICES ASSUME PInv, NEW k \in Keys
               PROVE  /\ doc[k].state = "succeeded" => Exists(k)
                      /\ doc[k].state = "no_write" /\ k \notin Native \cup Rerun \cup released =>
                           ~Exists(k) /\ ~UnderWay(k)
    BY DEF EntriesAreTrue
  <2>1. ASSUME doc[k].state = "no_write", k \notin Native \cup Rerun \cup released
        PROVE  ~Exists(k) /\ ~UnderWay(k)
    <3>1. ~Exists(k) /\ ~OnItsWay(k) /\ \A c \in Callers : ~Holds(c, k)
      BY <2>1 DEF PInv, Free, FreeToClaim, Claimable, Guarded, Plain
    <3>2. \A c \in Callers : call[c].key = k =>
            call[c].pc \notin {"discovering", "executing", "repeating"}
      BY <2>1, <3>1 DEF Holds, PInv, RepeatsNative
    <3> QED BY <3>1, <3>2 DEF UnderWay, OnItsWay
  <2> QED BY <2>1 DEF PInv, Reported
<1> QED BY <1>1, LedgerInvariant, PTL
=============================================================================
