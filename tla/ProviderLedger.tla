---------------------------- MODULE ProviderLedger ----------------------------
(***************************************************************************)
(* The provider idempotency ledger (lib/runtime/file-idempotency-ledger.ts) *)
(* and the adapter that writes to providers behind it                      *)
(* (lib/providers/adapter.ts: apply, reconcile).                           *)
(*                                                                         *)
(* The ledger is one JSON document.  Every operation on it takes the lock  *)
(* file, reads the document, replaces it and removes the lock file; a      *)
(* process may die between any two of these.  A caller carries one         *)
(* operation of a plan through the adapter: claim, provider, settlement,   *)
(* read-back and promotion.                                                *)
(***************************************************************************)
EXTENDS Naturals, FiniteSets

CONSTANTS
  Callers,      \* processes that apply or reconcile plans
  Keys,         \* idempotency keys of operations
  Native,       \* keys the provider itself deduplicates (http.nativeIdempotency)
  Rerun,        \* idempotent commands, run again on replay (reconcileOnReplay)
  Requests,     \* hashes of complete requests
  RequestsOf,   \* those that plans use a key for
  None,
  MaxCalls,
  MaxFailures   \* operations that throw, and crashes

ASSUME LedgerAssumption ==
  /\ Native \subseteq Keys /\ Rerun \subseteq Keys
  /\ RequestsOf \in [Keys -> SUBSET Requests]
  /\ None \notin Requests /\ None \notin Callers /\ None \notin Keys
  /\ MaxCalls \in Nat /\ MaxFailures \in Nat

VARIABLES
  doc,     \* the document: an entry for each key
  lock,    \* the lock file's owner, alive or dead; None: no lock file
  call,    \* each caller's operation
  writes,  \* history: the writes carried out under a key, by request
  late,    \* requests on their way whose caller has stopped listening
  released,  \* history: keys released by a call that had not acquired them
  used     \* calls and failures so far

vars == <<doc, lock, call, writes, late, released, used>>

Absent == [state |-> "absent", request |-> None]
Idle == [pc |-> "idle", op |-> "claim", mode |-> "apply", key |-> None, request |-> None,
         reuse |-> FALSE, answer |-> "none", wrote |-> FALSE, snapshot |-> {}]

Init ==
  /\ doc = [k \in Keys |-> Absent]
  /\ lock = None
  /\ call = [c \in Callers |-> Idle]
  /\ writes = [k \in Keys |-> [r \in Requests |-> 0]]
  /\ late = {}
  /\ released = {}
  /\ used = [calls |-> 0, failures |-> 0]

Written(k) == {r \in Requests : writes[k][r] > 0}

Goes(c, pc) == call' = [call EXCEPT ![c].pc = pc]
\* The caller goes to settle its attempt as `answer`.
Settles(c, answer) == call' = [call EXCEPT ![c].pc = "waiting", ![c].op = "settle", ![c].answer = answer]
Ends(c) == call' = [call EXCEPT ![c] = Idle]
-----------------------------------------------------------------------------
(* One ledger operation: withLock around read, change and write.            *)

\* Mutant: the lock file is opened without the exclusive flag.
Unlocked == TRUE

LockFree == lock = None

Enter(c) ==
  /\ call[c].pc = "waiting" /\ LockFree
  /\ lock' = c
  /\ call' = [call EXCEPT ![c].pc = "locked", ![c].snapshot = {doc}]
  /\ UNCHANGED <<doc, writes, late, released, used>>

\* Mutant: the lock file is waited for without end.
WaitsForEver == FALSE

\* Two hundred attempts ten milliseconds apart.
MayGiveUp == TRUE

\* The operation throws "is locked", and apply or reconcile with it.
LockedOut(c) ==
  /\ call[c].pc = "waiting" /\ ~LockFree /\ MayGiveUp
  /\ Ends(c)
  /\ UNCHANGED <<doc, lock, writes, late, released, used>>

\* Mutant: a pending key is given out again.
ClaimAgain(entry, request) ==
  IF entry.state \in {"absent", "no_write", "pending"} THEN "acquired" ELSE "replay"

\* What claim answers for the entry it read.
ClaimAnswer(entry, request) ==
  CASE entry.state = "absent"                                   -> "acquired"
    [] entry.state # "absent" /\ entry.request # request        -> "conflict"
    [] entry.request = request /\ entry.state = "succeeded"     -> "replay"
    [] entry.request = request /\ entry.state = "pending"       -> "pending"
    [] entry.request = request /\ entry.state = "no_write"      -> "acquired"

\* Mutant: the claim's answer is recorded as the entry's state.
NewEntryAnswered(c, entry) ==
  [state |-> IF call[c].op = "claim" THEN ClaimAnswer(entry, call[c].request) ELSE "succeeded",
   request |-> call[c].request]

\* The entry an operation leaves; promotion keeps the entry's request.
NewEntry(c, entry) ==
  CASE call[c].op = "claim" /\ ClaimAnswer(entry, call[c].request) = "acquired"
         -> [state |-> "pending", request |-> call[c].request]
    [] call[c].op = "claim" /\ ClaimAnswer(entry, call[c].request) # "acquired" -> entry
    [] call[c].op = "settle" -> [state |-> call[c].answer, request |-> call[c].request]
    [] call[c].op = "put"    -> [state |-> "succeeded", request |-> entry.request]

\* Does the operation write the document at all?
Changes(c, entry) == call[c].op = "claim" => ClaimAnswer(entry, call[c].request) = "acquired"

\* The document is replaced as a whole by the one read, with one entry changed.
Replaced(c) ==
  LET read == CHOOSE d \in call[c].snapshot : TRUE IN
    IF Changes(c, read[call[c].key])
      THEN [read EXCEPT ![call[c].key] = NewEntry(c, @)] ELSE doc

Commit(c) ==
  /\ call[c].pc = "locked"
  /\ doc' = Replaced(c)
  /\ call' = [call EXCEPT ![c].pc = "written", ![c].snapshot = {},
       ![c].answer = IF call[c].op = "claim"
         THEN ClaimAnswer((CHOOSE d \in call[c].snapshot : TRUE)[call[c].key], call[c].request) ELSE @]
  /\ UNCHANGED <<lock, writes, late, released, used>>

\* The temporary file or the rename throws, or the directory's fsync after it.
CommitThrows(c) ==
  /\ call[c].pc = "locked" /\ used.failures < MaxFailures
  /\ used' = [used EXCEPT !.failures = @ + 1]
  /\ doc' \in {doc, Replaced(c)}
  /\ lock' = None
  /\ Ends(c)
  /\ UNCHANGED <<writes, late, released>>
-----------------------------------------------------------------------------
(* The adapter.                                                             *)

Start(c) ==
  /\ call[c].pc = "idle" /\ used.calls < MaxCalls
  /\ used' = [used EXCEPT !.calls = @ + 1]
  /\ \E k \in Keys, m \in {"apply", "reconcile"}, reuse \in BOOLEAN : \E r \in RequestsOf[k] :
       /\ reuse => k \in Rerun /\ m = "apply"
       /\ call' = [call EXCEPT ![c] = [Idle EXCEPT !.pc = "waiting", !.mode = m, !.key = k,
                                                   !.request = r, !.reuse = reuse]]
  /\ UNCHANGED <<doc, lock, writes, late, released>>

\* A successful entry is the result, unless the command is to be run again.
Replays(c) == call[c].mode = "apply" => call[c].key \notin Rerun \/ call[c].reuse

\* apply's branches on the claim, up to the transport's next answer; a caller
\* without the operation's transport settles it as not written at once.
ApplyGoesOn(c) ==
  \/ call[c].answer = "conflict" /\ Ends(c)
  \/ call[c].answer = "replay" /\ Replays(c) /\ Goes(c, "readback")
  \/ /\ call[c].answer # "conflict" /\ (call[c].answer = "replay" => ~Replays(c))
     /\ \/ Settles(c, "no_write")
        \/ call[c].answer = "pending" /\ Goes(c, "reconciling")
        \/ call[c].answer # "pending" /\ Goes(c, "discovering")

\* reconcile's: a key never attempted is settled as not written; a caller
\* without the transport leaves a pending one pending.
ReconcileGoesOn(c) ==
  \/ call[c].answer = "conflict" /\ Ends(c)
  \/ call[c].answer = "acquired" /\ Settles(c, "no_write")
  \/ call[c].answer = "replay" /\ Goes(c, "readback")
  \/ /\ call[c].answer = "pending"
     /\ \/ Settles(c, "pending")
        \/ Goes(c, "reconciling")

\* Keys whose claim was not acquired and that are to be settled as not written.
Unheld(c) ==
  IF call[c].op = "claim" /\ call[c].answer # "acquired" /\ call'[c].answer = "no_write"
    THEN {call[c].key} ELSE {}

\* The lock file is removed and the caller goes on.
Leave(c) ==
  /\ call[c].pc = "written"
  /\ lock' = None
  /\ CASE call[c].op = "claim" /\ call[c].mode = "apply"     -> ApplyGoesOn(c)
       [] call[c].op = "claim" /\ call[c].mode = "reconcile" -> ReconcileGoesOn(c)
       [] call[c].op = "settle" ->
            IF call[c].answer = "succeeded" THEN Goes(c, "readback") ELSE Ends(c)
       [] call[c].op = "put" -> Ends(c)
  /\ released' = released \cup Unheld(c)
  /\ UNCHANGED <<doc, writes, late, used>>
-----------------------------------------------------------------------------
(* Providers.  Their reads are true when they answer.                       *)

Exists(k) == Written(k) # {}

\* A lookup or a read-back finds the key's resource.
Matched(k) == Exists(k)

\* A request of the key may still be carried out.
UnderWay(k) ==
  \/ \E r \in Requests : <<k, r>> \in late
  \/ \E c \in Callers : call[c].key = k /\ call[c].pc \in {"discovering", "executing", "repeating"}

\* discoverExistingResource before a write: found, refused, or not seen.
Discovered(c) ==
  /\ call[c].pc = "discovering"
  /\ \/ Matched(call[c].key) /\ Settles(c, "succeeded")
     \/ Settles(c, "no_write")
     \/ Goes(c, "executing")
  /\ UNCHANGED <<doc, lock, writes, late, released, used>>

\* The provider carries a request out; a key it knows, or an idempotent
\* command, has no second effect.
CarryOut(k, r) ==
  writes' = [writes EXCEPT ![k][r] =
               IF k \in Native \cup Rerun /\ @ > 0 THEN @ ELSE IF @ < 2 THEN @ + 1 ELSE @]

ProviderWrites(c) ==
  /\ call[c].pc \in {"executing", "repeating"} /\ ~call[c].wrote
  /\ CarryOut(call[c].key, call[c].request)
  /\ call' = [call EXCEPT ![c].wrote = TRUE]
  /\ UNCHANGED <<doc, lock, late, released, used>>

LateWrite(k, r) ==
  /\ <<k, r>> \in late
  /\ late' = late \ {<<k, r>>}
  /\ CarryOut(k, r)
  /\ UNCHANGED <<doc, lock, call, released, used>>

\* A request not carried out yet stays on its way when nobody waits for it.
Abandoned(c) ==
  IF call[c].pc \in {"executing", "repeating"} /\ ~call[c].wrote
    THEN {<<call[c].key, call[c].request>>} ELSE {}

\* Mutant: an attempt that failed is taken for one that wrote nothing.
UnknownReleased == "no_write"

\* What an attempt of unknown outcome is settled as.
UnknownSettles == "pending"

\* execute's answer: success, proof that nothing was written, or neither.
Executed(c) ==
  /\ call[c].pc = "executing"
  /\ \/ call[c].wrote /\ Settles(c, "succeeded") /\ UNCHANGED late
     \/ ~call[c].wrote /\ Settles(c, "no_write") /\ UNCHANGED late
     \/ Settles(c, UnknownSettles) /\ late' = late \cup Abandoned(c)
  /\ UNCHANGED <<doc, lock, writes, released, used>>

\* reconcileUnknownOutcome: a lookup or a read-back that matches; a proof that
\* nothing was or will be written; for a native key, the request once more;
\* otherwise the outcome stays unknown.
Reconciled(c) ==
  /\ call[c].pc = "reconciling"
  /\ \/ Matched(call[c].key) /\ Settles(c, "succeeded") /\ UNCHANGED released
     \/ /\ ~Exists(call[c].key) /\ ~UnderWay(call[c].key)
        /\ Settles(c, "no_write") /\ released' = released \cup {call[c].key}
     \/ call[c].key \in Native /\ Goes(c, "repeating") /\ UNCHANGED released
     \/ Settles(c, UnknownSettles) /\ UNCHANGED released
  /\ UNCHANGED <<doc, lock, writes, late, used>>

\* The answer to the repeated request.
Repeated(c) ==
  /\ call[c].pc = "repeating"
  /\ \/ call[c].wrote /\ Settles(c, "succeeded") /\ UNCHANGED late
     \/ Settles(c, UnknownSettles) /\ late' = late \cup Abandoned(c)
  /\ UNCHANGED <<doc, lock, writes, released, used>>

\* readBack and verify; a verified result is promoted.
ReadBack(c) ==
  /\ call[c].pc = "readback"
  /\ \/ /\ Matched(call[c].key)
        /\ call' = [call EXCEPT ![c].pc = "waiting", ![c].op = "put"]
     \/ Ends(c)
  /\ UNCHANGED <<doc, lock, writes, late, released, used>>

\* A process dies: its lock file stays, and a request it sent may arrive.
Crash(c) ==
  /\ call[c].pc # "idle" /\ used.failures < MaxFailures
  /\ used' = [used EXCEPT !.failures = @ + 1]
  /\ late' = late \cup Abandoned(c)
  /\ Ends(c)
  /\ UNCHANGED <<doc, lock, writes, released>>
-----------------------------------------------------------------------------
Step(c) ==
  \/ Enter(c) \/ LockedOut(c) \/ Commit(c) \/ Leave(c)
  \/ Discovered(c) \/ Executed(c) \/ Reconciled(c) \/ Repeated(c) \/ ReadBack(c)

Next ==
  \/ \E c \in Callers : Step(c) \/ Start(c) \/ CommitThrows(c) \/ ProviderWrites(c) \/ Crash(c)
  \/ \E k \in Keys, r \in Requests : LateWrite(k, r)

\* File operations and transports return or throw.
Fairness == \A c \in Callers : WF_vars(Step(c))

Spec == Init /\ [][Next]_vars
FairSpec == Spec /\ Fairness
-----------------------------------------------------------------------------
Entries ==
  [state : {"absent", "pending", "succeeded", "no_write"}, request : Requests \cup {None}]

TypeOK ==
  /\ doc \in [Keys -> Entries]
  /\ lock \in Callers \cup {None}
  /\ call \in [Callers ->
       [pc : {"idle", "waiting", "locked", "written", "discovering", "executing", "reconciling",
              "repeating", "readback"},
        op : {"claim", "settle", "put"}, mode : {"apply", "reconcile"},
        key : Keys \cup {None}, request : Requests \cup {None}, reuse : BOOLEAN,
        answer : {"none", "acquired", "conflict", "replay", "pending", "succeeded", "no_write"},
        wrote : BOOLEAN, snapshot : SUBSET [Keys -> Entries]]]
  /\ writes \in [Keys -> [Requests -> 0..2]]
  /\ late \subseteq Keys \X Requests
  /\ released \subseteq Keys
  /\ used \in [calls : 0..MaxCalls, failures : 0..MaxFailures]

\* An unknown outcome is not permission to write again: whatever dies, throws
\* or overlaps, a key is written for one request only, and once, unless a call
\* that had not acquired it has released it: for want of the transport, or on
\* the transport's proof, which may be stale when it is settled.
OneWrite ==
  \A k \in Keys :
    /\ Cardinality(Written(k)) <= 1
    /\ k \notin released => \A r \in Requests : writes[k][r] <= 1

\* The ledger reports a write only when there was one; and a key that its owner
\* releases for another attempt has not been written and cannot be any more.
\* (A native key may be released after a repeated request; the provider then
\* deduplicates the next one.)
EntriesAreTrue ==
  \A k \in Keys :
    /\ doc[k].state = "succeeded" => Exists(k)
    /\ doc[k].state = "no_write" /\ k \notin Native \cup Rerun \cup released =>
         ~Exists(k) /\ ~UnderWay(k)

\* An operation changes its own key's entry and takes back no other's,
\* although each replaces the whole document.
NoEntryLost ==
  [][\A k \in Keys : doc'[k] # doc[k] =>
        \E c \in Callers : call[c].key = k /\ call[c].pc = "locked" /\ call'[c].pc # "locked"]_vars

\* As commented: reconcile only reads from the provider.
ReconcileNeverWrites ==
  [][\A c \in Callers : call[c].mode = "reconcile" /\ ~call[c].wrote => ~call'[c].wrote]_vars

\* Every call ends, with an answer or an error, whatever lock files are left.
EveryCallEnds == \A c \in Callers : call[c].pc # "idle" ~> call[c].pc = "idle"
=============================================================================
