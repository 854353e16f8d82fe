--------------------------- MODULE SpendLedgerProofs ---------------------------
(***************************************************************************)
(* Proofs about the spend ledger for any processes, grants, campaigns,     *)
(* keys, requests, caps and failures.                                      *)
(*                                                                         *)
(* What a reservation takes from the caps is decided when it is made;      *)
(* later steps only move it from reserved to settled, or give it back when *)
(* nothing was or will be spent (Accounted, Knows). What is settled above  *)
(* its reservation is excess, which halts its grant.                       *)
(***************************************************************************)
EXTENDS SpendLedger, FiniteSums, TLAPS

-----------------------------------------------------------------------------
(* The sets the variables range over.                                       *)

Statuses == {"absent", "held", "pending", "settled", "released"}
PauseStates == {"none", "pending", "attempting", "accepted", "unknown", "failed", "blocked",
                "verified"}
KeyPcs == {"running", "settling", "marking", "releasing", "absent"}
PausePcs == {"planned", "applying", "reading", "persisting"}
Pcs == KeyPcs \cup PausePcs \cup {"idle", "halting"}
Incidents == Keys \cup {None}

Slots == [status : Statuses, request : Requests \cup {None}, settled : Nat]
PauseRows == [state : PauseStates, tried : BOOLEAN, incidents : SUBSET Incidents]
Jobs == [pc : Pcs, key : Keys \cup {None}, amount : Nat, done : BOOLEAN, ofRun : BOOLEAN,
         grant : Grants \cup {None}, targets : SUBSET Targets, state : PauseStates]

(* A process at work on a key has one; at work on pauses it has a           *)
(* registered grant and, past the list of its campaigns, one of them.       *)
Fits(j) ==
  /\ j \in Jobs
  /\ j.pc \in KeyPcs => j.key \in Keys
  /\ j.pc \in PausePcs \cup {"halting"} => j.grant \in grants
  /\ j.pc \in PausePcs => \E t \in Campaigns : j.targets = {t}

\* A key is free, or has one of its requests under a registered grant.
Filled(k) ==
  IF res[k].status = "absent" THEN res[k] = Unreserved
  ELSE res[k].request \in RequestsOf[k] /\ res[k].request.grant \in grants

Typed ==
  /\ grants \subseteq Grants /\ halted \subseteq grants
  /\ res \in [Keys -> Slots] /\ \A k \in Keys : Filled(k)
  /\ pauses \in [Grants -> [Targets -> PauseRows]]
  /\ job \in [Procs -> Jobs] /\ \A p \in Procs : Fits(job[p])
  /\ charged \in [Keys -> Nat] /\ late \subseteq Keys
  /\ asked \in [Grants -> [Targets -> Nat]] /\ paused \subseteq Grants \X Campaigns
-----------------------------------------------------------------------------
(* The inductive invariant.                                                 *)

Runs(p, k) == job[p].pc = "running" /\ job[p].key = k
NobodyRuns(k) == \A p \in Procs : ~Runs(p, k)

(* Money is spent for a key once at most: before that by one who runs it or *)
(* by its late request, and by nobody once it is free again or settled.     *)
KeyHolds(k) ==
  /\ res[k].status = "absent" => /\ charged[k] = 0 /\ k \notin late
                                 /\ \A p \in Procs : job[p].pc \in KeyPcs => job[p].key # k
  /\ res[k].status = "released" => charged[k] = 0 /\ k \notin late /\ NobodyRuns(k)
  /\ res[k].status = "settled" => charged[k] = res[k].settled /\ charged[k] > 0
  /\ k \in late => charged[k] = 0 /\ NobodyRuns(k)
  /\ \A p, q \in Procs : Runs(p, k) /\ Runs(q, k) => p = q

Accounted == \A k \in Keys : KeyHolds(k)

(* What a process knows of its key: whether it was spent, and how much.     *)
Knows(p) ==
  LET k == job[p].key IN
    /\ job[p].pc = "running" => IF job[p].done THEN charged[k] > 0 ELSE charged[k] = 0
    /\ job[p].pc = "settling" => charged[k] > 0 /\ job[p].amount = charged[k]
    /\ job[p].pc \in {"releasing", "absent"} => charged[k] = 0 /\ k \notin late /\ NobodyRuns(k)

(* A pause never tried was never asked for; one that is verified, or found  *)
(* verified by a process about to write that down, was carried out.         *)
PausesHold ==
  /\ \A g \in Grants, t \in Targets :
       /\ asked[g][t] <= 1 /\ (~pauses[g][t].tried => asked[g][t] = 0)
       /\ pauses[g][t].state = "verified" => <<g, t>> \in paused
  /\ \A p \in Procs :
       job[p].pc = "persisting" /\ job[p].state = "verified" => <<job[p].grant, Target(p)>> \in paused

\* What a reservation takes from the caps, but for what was overspent.
Taken(k) == Counted(k) - Excess(k)

(* Finitely many reservations are on record, and they fit the caps.         *)
Budgeted == IsFiniteSet(Reserved) /\ WithinBudget

IInv ==
  /\ Typed /\ Accounted /\ (\A p \in Procs : Knows(p))
  /\ OverspendHalts /\ PausesHold /\ Budgeted
-----------------------------------------------------------------------------
(* Updates of one process, one key and one pause.                           *)

(* A process at rest.                                                       *)
LEMMA IdleFits == Fits(Idle)
  BY DEF Fits, Idle, Jobs, Pcs, KeyPcs, PausePcs, PauseStates

(* A process whose job becomes j.                                           *)
LEMMA JobBecomes ==
  ASSUME Typed, UNCHANGED grants, NEW p \in Procs, NEW j, Fits(j), job' = [job EXCEPT ![p] = j]
  PROVE  /\ job' \in [Procs -> Jobs] /\ \A q \in Procs : Fits(job[q])'
         /\ job'[p] = j /\ \A q \in Procs : q # p => job'[q] = job[q]
<1>1. j \in Jobs
  BY DEF Fits
<1>2. /\ job' \in [Procs -> Jobs] /\ job'[p] = j
      /\ \A q \in Procs : q # p => job'[q] = job[q]
  BY <1>1 DEF Typed
<1>3. ASSUME NEW q \in Procs PROVE Fits(job[q])'
  <2>1. Fits(job'[q])
    BY <1>2 DEF Typed
  <2> QED
    BY <2>1 DEF Fits
<1> QED
  BY <1>2, <1>3

(* A process that ends.                                                     *)
LEMMA JobEnds ==
  ASSUME Typed, UNCHANGED grants, NEW p \in Procs, Ends(p)
  PROVE  /\ job' \in [Procs -> Jobs] /\ \A q \in Procs : Fits(job[q])'
         /\ job'[p].pc = "idle" /\ \A q \in Procs : q # p => job'[q] = job[q]
<1>1. Idle.pc = "idle"
  BY DEF Idle
<1> QED
  BY <1>1, IdleFits, JobBecomes DEF Ends

(* A process that goes on with its job under another pc.                    *)
Gone(j, pc, amount, state) == [j EXCEPT !.pc = pc, !.amount = amount, !.state = state]

(* It keeps its key, its grant and its targets.                             *)
LEMMA JobGoes ==
  ASSUME Typed, UNCHANGED grants, NEW p \in Procs, NEW pc \in Pcs,
         \/ pc \in KeyPcs /\ job[p].pc \in KeyPcs
         \/ pc \in PausePcs /\ job[p].pc \in PausePcs,
         NEW amount \in Nat, NEW state \in PauseStates,
         job' = [job EXCEPT ![p] = Gone(job[p], pc, amount, state)]
  PROVE  /\ job' \in [Procs -> Jobs] /\ \A q \in Procs : Fits(job[q])'
         /\ job'[p].pc = pc /\ job'[p].amount = amount /\ job'[p].state = state
         /\ job'[p].key = job[p].key /\ job'[p].grant = job[p].grant
         /\ job'[p].targets = job[p].targets
         /\ \A q \in Procs : q # p => job'[q] = job[q]
<1> DEFINE j == Gone(job[p], pc, amount, state)
<1>1. Fits(job[p]) /\ job[p] \in Jobs
  BY DEF Typed
<1>2. /\ j \in Jobs /\ j.pc = pc /\ j.amount = amount /\ j.state = state
      /\ j.key = job[p].key /\ j.grant = job[p].grant /\ j.targets = job[p].targets
  BY <1>1 DEF Jobs, Gone
<1>3. Fits(j)
  BY <1>1, <1>2 DEF Fits, KeyPcs, PausePcs
<1> HIDE DEF j
<1>4. job' = [job EXCEPT ![p] = j]
  BY DEF j
<1> QED
  BY <1>2, <1>3, <1>4, JobBecomes

(* A key whose reservation becomes row.                                     *)
LEMMA ResBecomes ==
  ASSUME Typed, UNCHANGED grants, NEW k \in Keys, NEW row \in Slots, row.status # "absent",
         row.request \in RequestsOf[k], row.request.grant \in grants,
         res' = [res EXCEPT ![k] = row]
  PROVE  /\ res' \in [Keys -> Slots] /\ \A i \in Keys : Filled(i)'
         /\ res'[k] = row /\ \A i \in Keys : i # k => res'[i] = res[i]
<1>1. /\ res' \in [Keys -> Slots] /\ res'[k] = row /\ \A i \in Keys : i # k => res'[i] = res[i]
  BY DEF Typed
<1>2. ASSUME NEW i \in Keys PROVE Filled(i)'
  <2>1. CASE i = k
    BY <1>1, <2>1 DEF Filled
  <2>2. CASE i # k
    BY <1>1, <2>2 DEF Typed, Filled
  <2> QED
    BY <2>1, <2>2
<1> QED
  BY <1>1, <1>2

(* A reservation that has another status and settled amount.                *)
Restated(row, status, settled) == [row EXCEPT !.status = status, !.settled = settled]

(* It keeps its request.                                                    *)
LEMMA ResMoves ==
  ASSUME Typed, UNCHANGED grants, NEW k \in Keys, res[k].status # "absent",
         NEW status \in Statuses \ {"absent"}, NEW settled \in Nat,
         res' = [res EXCEPT ![k] = Restated(res[k], status, settled)]
  PROVE  /\ res' \in [Keys -> Slots] /\ \A i \in Keys : Filled(i)'
         /\ res'[k].status = status /\ res'[k].settled = settled
         /\ res'[k].request = res[k].request
         /\ \A i \in Keys : i # k => res'[i] = res[i]
<1> DEFINE row == Restated(res[k], status, settled)
<1>1. /\ res[k] \in Slots /\ res[k].request \in RequestsOf[k] /\ res[k].request.grant \in grants
  BY DEF Typed, Filled
<1>2. /\ row \in Slots /\ row.status = status /\ row.settled = settled
      /\ row.request = res[k].request
  BY <1>1 DEF Slots, Restated
<1> HIDE DEF row
<1>3. res' = [res EXCEPT ![k] = row]
  BY DEF row
<1> QED
  BY <1>1, <1>2, <1>3, ResBecomes

(* A pause that becomes row.                                                *)
LEMMA PauseBecomes ==
  ASSUME Typed, NEW g \in Grants, NEW t \in Targets, NEW row \in PauseRows,
         pauses' = [pauses EXCEPT ![g][t] = row]
  PROVE  /\ pauses' \in [Grants -> [Targets -> PauseRows]] /\ pauses'[g][t] = row
         /\ \A h \in Grants, u \in Targets : <<h, u>> # <<g, t>> => pauses'[h][u] = pauses[h][u]
  BY DEF Typed

(* What a queued incident leaves of a pause.                                *)
LEMMA QueuedRow ==
  ASSUME NEW pause \in PauseRows, NEW g, NEW t, NEW incidents \in SUBSET Incidents
  PROVE  /\ Queued(pause, g, t, incidents) \in PauseRows
         /\ Queued(pause, g, t, incidents).tried = pause.tried
         /\ Queued(pause, g, t, incidents).incidents = pause.incidents \cup incidents
         /\ Queued(pause, g, t, incidents).state = "verified" => pause.state = "verified"
<1> DEFINE s == pause.state
           next == CASE s = "none" /\ Executable(g, t)  -> "pending"
                     [] s = "none" /\ ~Executable(g, t) -> "blocked"
                     [] s = "verified" /\ ~(incidents \subseteq pause.incidents) -> "accepted"
                     [] s \in {"pending", "attempting", "accepted", "unknown", "failed", "blocked"} -> s
                     [] s = "verified" /\ incidents \subseteq pause.incidents -> s
<1>1. s \in PauseStates
  BY DEF PauseRows
<1>2. next \in PauseStates /\ (next = "verified" => s = "verified")
  <2>1. CASE s = "none"
    BY <2>1 DEF PauseStates
  <2>2. CASE s = "verified"
    BY <2>2 DEF PauseStates
  <2>3. CASE s \in {"pending", "attempting", "accepted", "unknown", "failed", "blocked"}
    BY <2>3 DEF PauseStates
  <2> QED
    BY <1>1, <2>1, <2>2, <2>3 DEF PauseStates
<1>3. Queued(pause, g, t, incidents)
        = [pause EXCEPT !.incidents = pause.incidents \cup incidents, !.state = next]
  BY DEF Queued, PauseRows
<1> HIDE DEF next
<1> QED
  BY <1>2, <1>3 DEF PauseRows

(* What a saved state leaves of a pause.                                    *)
LEMMA PersistedRow ==
  ASSUME NEW pause \in PauseRows, NEW state \in PauseStates
  PROVE  /\ Persisted(pause, state) \in PauseRows
         /\ Persisted(pause, state).tried = pause.tried
         /\ Persisted(pause, state).incidents = pause.incidents
         /\ Persisted(pause, state).state = "verified" => state = "verified" \/ pause.state = "verified"
  BY DEF Persisted, PauseRows
-----------------------------------------------------------------------------
(* The types.                                                               *)

(* What a process works on.                                                 *)
LEMMA JobFacts ==
  ASSUME Typed, NEW p \in Procs
  PROVE  /\ Fits(job[p]) /\ job[p] \in Jobs /\ job[p].amount \in Nat /\ job[p].pc \in Pcs
         /\ job[p].done \in BOOLEAN /\ job[p].state \in PauseStates /\ job[p].targets \subseteq Targets
         /\ job[p].pc \in KeyPcs => job[p].key \in Keys
         /\ job[p].pc = "halting" => job[p].grant \in Grants /\ job[p].grant \in grants
  BY DEF Typed, Fits, Jobs

(* The pause a process works on.                                            *)
LEMMA PauseFacts ==
  ASSUME Typed, NEW p \in Procs, job[p].pc \in PausePcs
  PROVE  /\ job[p].grant \in Grants /\ Target(p) \in Campaigns /\ Target(p) \in Targets
         /\ Pause(p) \in PauseRows /\ Pause(p).state \in PauseStates
<1>1. Fits(job[p]) /\ job[p].grant \in Grants
  BY JobFacts DEF Fits, Typed
<1>2. PICK t \in Campaigns : job[p].targets = {t}
  BY <1>1 DEF Fits
<1>3. Target(p) = t
  BY <1>2 DEF Target
<1>4. Target(p) \in Targets
  BY <1>3 DEF Targets
<1>5. Pause(p) \in PauseRows
  BY <1>1, <1>4 DEF Typed, Pause
<1> QED
  BY <1>1, <1>3, <1>4, <1>5 DEF PauseRows

(* A key that has a reservation.                                            *)
LEMMA KeyFacts ==
  ASSUME Typed, NEW k \in Keys
  PROVE  /\ res[k] \in Slots /\ res[k].status \in Statuses /\ res[k].settled \in Nat
         /\ charged[k] \in Nat
         /\ res[k].status # "absent" =>
              /\ res[k].request \in RequestsOf[k] /\ res[k].request \in Requests
              /\ res[k].request.grant \in Grants /\ res[k].request.grant \in grants
              /\ res[k].request.campaign \in Targets /\ res[k].request.amount \in Nat \ {0}
  BY SpendAssumption DEF Typed, Filled, Slots, Requests, Targets

(* The types when the reservations or the jobs do not change.               *)
LEMMA Same ==
  ASSUME Typed, UNCHANGED grants
  PROVE  /\ UNCHANGED res => res' \in [Keys -> Slots] /\ \A k \in Keys : Filled(k)'
         /\ UNCHANGED job => job' \in [Procs -> Jobs] /\ \A p \in Procs : Fits(job[p])'
<1>1. ASSUME UNCHANGED res, NEW k \in Keys PROVE Filled(k)'
  BY <1>1 DEF Typed, Filled
<1>2. ASSUME UNCHANGED job, NEW p \in Procs PROVE Fits(job[p])'
  BY <1>2 DEF Typed, Fits
<1> QED
  BY <1>1, <1>2 DEF Typed

(* The provider spends a positive amount.                                   *)
LEMMA SpendsSome ==
  ASSUME Typed, NEW k \in Keys, res[k].status # "absent", Spends(k)
  PROVE  /\ charged' \in [Keys -> Nat] /\ charged'[k] > 0
         /\ \A i \in Keys : i # k => charged'[i] = charged[i]
<1>1. res[k].request.amount \in Nat \ {0} /\ charged[k] \in Nat
  BY KeyFacts
<1>2. PICK a \in {res[k].request.amount - 1, res[k].request.amount, res[k].request.amount + 1} \ {0} :
        charged' = [charged EXCEPT ![k] = @ + a]
  BY DEF Spends
<1>3. a \in Nat /\ a > 0
  BY <1>1, <1>2
<1>4. charged[k] + a \in Nat /\ charged[k] + a > 0
  BY <1>1, <1>3
<1> QED
  BY <1>2, <1>4 DEF Typed

(* What a settlement does to the ledger.                                    *)
LEMMA SettlesWell ==
  ASSUME Typed, NEW p \in Procs, job[p].pc = "settling", Settles(p) \/ UNCHANGED ledger
  PROVE  /\ UNCHANGED grants /\ halted \subseteq halted' /\ halted' \subseteq grants
         /\ res' \in [Keys -> Slots] /\ \A k \in Keys : Filled(k)'
         /\ pauses' \in [Grants -> [Targets -> PauseRows]]
         /\ \A g \in Grants, t \in Targets :
              /\ pauses'[g][t].tried = pauses[g][t].tried
              /\ pauses[g][t].incidents \subseteq pauses'[g][t].incidents
              /\ pauses'[g][t].state = "verified" => pauses[g][t].state = "verified"
         /\ \A k \in Keys : k # job[p].key => res'[k] = res[k]
         /\ \/ res'[job[p].key] = res[job[p].key]
            \/ /\ res[job[p].key].status \in {"held", "pending"}
               /\ res'[job[p].key].status = "settled"
               /\ res'[job[p].key].settled = job[p].amount
               /\ res'[job[p].key].request = res[job[p].key].request
               /\ job[p].amount > res[job[p].key].request.amount =>
                    /\ res[job[p].key].request.grant \in halted'
                    /\ job[p].key \in pauses'[res[job[p].key].request.grant]
                                              [res[job[p].key].request.campaign].incidents
<1> DEFINE k == job[p].key
           amount == job[p].amount
           g == res[k].request.grant
           t == res[k].request.campaign
<1>0. k = job[p].key /\ amount = job[p].amount /\ g = res[k].request.grant /\ t = res[k].request.campaign
  OBVIOUS
<1>1. k \in Keys /\ amount \in Nat
  BY JobFacts DEF KeyPcs
<1>2. CASE UNCHANGED ledger
  BY <1>2, Same DEF ledger, Typed
<1>3. CASE res[k].status \in {"held", "pending"} /\ Settlement(k, amount)
  <2>1. /\ g \in Grants /\ g \in grants /\ t \in Targets /\ UNCHANGED grants
        /\ res[k] \in Slots
        /\ res' = [res EXCEPT ![k].status = "settled", ![k].settled = amount]
    BY <1>1, <1>3, KeyFacts DEF Settlement
  <2> HIDE DEF k, amount, g, t
  <2>2. res' = [res EXCEPT ![k] = Restated(res[k], "settled", amount)]
    BY <1>1, <2>1 DEF Typed, Restated
  <2>3. /\ res' \in [Keys -> Slots] /\ \A i \in Keys : Filled(i)'
        /\ res'[k].status = "settled" /\ res'[k].settled = amount
        /\ res'[k].request = res[k].request
        /\ \A i \in Keys : i # k => res'[i] = res[i]
    <3>1. res[k].status # "absent" /\ "settled" \in Statuses \ {"absent"}
      BY <1>3 DEF Statuses
    <3>2. k \in Keys /\ amount \in Nat /\ UNCHANGED grants
      BY <1>1, <2>1
    <3> QED
      BY <2>2, <3>1, <3>2, ResMoves
  <2>4. CASE Overspent(k, amount)
    <3> DEFINE row == Queued(pauses[g][t], g, t, {k})
    <3>1. /\ halted' = halted \cup {g} /\ pauses' = [pauses EXCEPT ![g][t] = row]
      BY <1>0, <1>3, <2>4 DEF Settlement
    <3>2. pauses[g][t] \in PauseRows /\ {k} \in SUBSET Incidents
      BY <1>1, <2>1 DEF Typed, Incidents
    <3>3. /\ row \in PauseRows /\ row.tried = pauses[g][t].tried
          /\ row.incidents = pauses[g][t].incidents \cup {k}
          /\ row.state = "verified" => pauses[g][t].state = "verified"
      BY <3>2, QueuedRow
    <3> HIDE DEF row
    <3>4. /\ pauses' \in [Grants -> [Targets -> PauseRows]] /\ pauses'[g][t] = row
          /\ \A h \in Grants, u \in Targets : <<h, u>> # <<g, t>> => pauses'[h][u] = pauses[h][u]
      BY ZenonT(60), <2>1, <3>1, <3>3, PauseBecomes
    <3>5. \A h \in Grants, u \in Targets :
            /\ pauses'[h][u].tried = pauses[h][u].tried
            /\ pauses[h][u].incidents \subseteq pauses'[h][u].incidents
            /\ pauses'[h][u].state = "verified" => pauses[h][u].state = "verified"
      <4> TAKE h \in Grants, u \in Targets
      <4>1. CASE <<h, u>> = <<g, t>>
        BY <3>3, <3>4, <4>1
      <4>2. CASE <<h, u>> # <<g, t>>
        BY <3>4, <4>2
      <4> QED
        BY <4>1, <4>2
    <3>6. halted \subseteq halted' /\ halted' \subseteq grants /\ g \in halted'
      BY <2>1, <3>1 DEF Typed
    <3>7. k \in pauses'[g][t].incidents
      BY <3>3, <3>4
    <3> QED
      BY <1>0, <1>3, <2>1, <2>3, <3>4, <3>5, <3>6, <3>7
  <2>5. CASE ~Overspent(k, amount)
    <3>1. UNCHANGED <<halted, pauses>> /\ ~(amount > res[k].request.amount)
      BY <1>0, <1>3, <2>5 DEF Settlement, Overspent
    <3> QED
      BY <1>0, <1>3, <2>1, <2>3, <3>1 DEF Typed
  <2> QED
    BY <2>4, <2>5
<1> QED
  BY <1>2, <1>3 DEF Settles

(* A status alone, of a reservation that is there.                          *)
LEMMA StatusMoves ==
  ASSUME Typed, UNCHANGED grants, NEW k \in Keys, res[k].status # "absent",
         NEW status \in Statuses \ {"absent"}, Status(k, status)
  PROVE  /\ res' \in [Keys -> Slots] /\ \A i \in Keys : Filled(i)'
         /\ res'[k].status = status /\ res'[k].settled = res[k].settled
         /\ res'[k].request = res[k].request
         /\ \A i \in Keys : i # k => res'[i] = res[i]
<1>1. res[k] \in Slots /\ res[k].settled \in Nat
  BY KeyFacts
<1>2. res' = [res EXCEPT ![k] = Restated(res[k], status, res[k].settled)]
  BY <1>1 DEF Status, Restated, Slots, Typed
<1> QED
  BY <1>1, <1>2, ResMoves

(* A pause that takes the state a process found.                            *)
LEMMA PersistsWell ==
  ASSUME Typed, NEW p \in Procs, job[p].pc \in PausePcs, NEW state \in PauseStates, Persists(p, state)
  PROVE  /\ pauses' \in [Grants -> [Targets -> PauseRows]]
         /\ \A g \in Grants, t \in Targets :
              /\ pauses'[g][t].tried = pauses[g][t].tried
              /\ pauses'[g][t].incidents = pauses[g][t].incidents
              /\ pauses'[g][t].state = "verified" =>
                   \/ pauses[g][t].state = "verified"
                   \/ state = "verified" /\ g = job[p].grant /\ t = Target(p)
<1> DEFINE g == job[p].grant
           t == Target(p)
           row == Persisted(Pause(p), state)
<1>1. g \in Grants /\ t \in Targets /\ Pause(p) \in PauseRows /\ Pause(p) = pauses[g][t]
  BY PauseFacts DEF Pause
<1>2. /\ row \in PauseRows /\ row.tried = Pause(p).tried /\ row.incidents = Pause(p).incidents
      /\ row.state = "verified" => state = "verified" \/ Pause(p).state = "verified"
  BY <1>1, PersistedRow
<1>3. pauses' = [pauses EXCEPT ![g][t] = row]
  BY DEF Persists, Pause
<1>0. g = job[p].grant /\ t = Target(p)
  OBVIOUS
<1> HIDE DEF g, t, row
<1>4. /\ pauses' \in [Grants -> [Targets -> PauseRows]] /\ pauses'[g][t] = row
      /\ \A h \in Grants, u \in Targets : <<h, u>> # <<g, t>> => pauses'[h][u] = pauses[h][u]
  BY ZenonT(60), <1>1, <1>2, <1>3, PauseBecomes
<1>5. ASSUME NEW h \in Grants, NEW u \in Targets
      PROVE  /\ pauses'[h][u].tried = pauses[h][u].tried
             /\ pauses'[h][u].incidents = pauses[h][u].incidents
             /\ pauses'[h][u].state = "verified" =>
                  \/ pauses[h][u].state = "verified"
                  \/ state = "verified" /\ h = g /\ u = t
  <2>1. CASE <<h, u>> = <<g, t>>
    BY <1>1, <1>2, <1>4, <2>1
  <2>2. CASE <<h, u>> # <<g, t>>
    BY <1>4, <2>2
  <2> QED
    BY <2>1, <2>2
<1> QED
  BY <1>0, <1>4, <1>5

(* A halt that queues the pauses of a grant's campaigns.                    *)
LEMMA QueuesWell ==
  ASSUME Typed, NEW p \in Procs, HaltAndQueue(p)
  PROVE  /\ pauses' \in [Grants -> [Targets -> PauseRows]]
         /\ \A g \in Grants, t \in Targets :
              /\ pauses'[g][t].tried = pauses[g][t].tried
              /\ pauses[g][t].incidents \subseteq pauses'[g][t].incidents
              /\ pauses'[g][t].state = "verified" => pauses[g][t].state = "verified"
<1> DEFINE g == job[p].grant
           row(t) == Queued(pauses[g][t], g, t, {None})
           new(t) == IF t \in job[p].targets THEN row(t) ELSE pauses[g][t]
<1>1. g \in Grants
  BY JobFacts DEF HaltAndQueue
<1>2. ASSUME NEW t \in Targets
      PROVE  /\ new(t) \in PauseRows /\ new(t).tried = pauses[g][t].tried
             /\ pauses[g][t].incidents \subseteq new(t).incidents
             /\ new(t).state = "verified" => pauses[g][t].state = "verified"
  <2>1. pauses[g][t] \in PauseRows /\ {None} \in SUBSET Incidents
    BY <1>1, <1>2 DEF Typed, Incidents
  <2>2. /\ row(t) \in PauseRows /\ row(t).tried = pauses[g][t].tried
        /\ row(t).incidents = pauses[g][t].incidents \cup {None}
        /\ row(t).state = "verified" => pauses[g][t].state = "verified"
    BY <2>1, QueuedRow
  <2> HIDE DEF row
  <2> QED
    BY <2>1, <2>2
<1>3. pauses' = [pauses EXCEPT ![g] = [t \in Targets |-> new(t)]]
  BY <1>1 DEF HaltAndQueue, Typed
<1> HIDE DEF g, new
<1>4. /\ pauses' \in [Grants -> [Targets -> PauseRows]]
      /\ \A t \in Targets : pauses'[g][t] = new(t)
      /\ \A h \in Grants : h # g => pauses'[h] = pauses[h]
  BY <1>1, <1>2, <1>3 DEF Typed
<1>5. ASSUME NEW h \in Grants, NEW t \in Targets
      PROVE  /\ pauses'[h][t].tried = pauses[h][t].tried
             /\ pauses[h][t].incidents \subseteq pauses'[h][t].incidents
             /\ pauses'[h][t].state = "verified" => pauses[h][t].state = "verified"
  <2>1. CASE h = g
    BY <1>2, <1>4, <2>1
  <2>2. CASE h # g
    BY <1>4, <2>2
  <2> QED
    BY <2>1, <2>2
<1> QED
  BY <1>4, <1>5

(* The types from the parts a step may change.                              *)
LEMMA TypedAgain ==
  ASSUME Typed, grants' \subseteq Grants, halted' \subseteq grants',
         res' \in [Keys -> Slots], \A k \in Keys : Filled(k)',
         pauses' \in [Grants -> [Targets -> PauseRows]],
         job' \in [Procs -> Jobs], \A p \in Procs : Fits(job[p])',
         charged' \in [Keys -> Nat], late' \subseteq Keys,
         asked' \in [Grants -> [Targets -> Nat]], paused' \subseteq Grants \X Campaigns
  PROVE  Typed'
  BY DEF Typed

(* The steps that only move a process on, and note what it leaves behind.   *)
Moves(p) ==
  \/ RunReturns(p) \/ RunRefused(p) \/ RunUnknown(p) \/ ReadBack(p) \/ ReconcileAbsent(p)
  \/ AutoPause(p) \/ ProcessPause(p) \/ ReadPause(p) \/ Crash(p)

(* They leave the ledger and the money alone.                               *)
LEMMA MovesKeep ==
  ASSUME Typed, NEW p \in Procs, Moves(p)
  PROVE  UNCHANGED <<ledger, charged, asked, paused>> /\ late' \subseteq Keys
<1>1. UNCHANGED <<ledger, charged, asked, paused>>
  BY DEF Moves, RunReturns, RunRefused, RunUnknown, ReadBack, ReconcileAbsent, AutoPause,
         ProcessPause, ReadPause, Crash, world
<1>2. late' \subseteq late \cup Abandoned(p)
  BY DEF Moves, RunReturns, RunRefused, RunUnknown, ReadBack, ReconcileAbsent, AutoPause,
         ProcessPause, ReadPause, Crash, world, ProvedAbsent
<1>3. Abandoned(p) \subseteq Keys
  BY JobFacts DEF Abandoned, KeyPcs
<1> QED
  BY <1>1, <1>2, <1>3 DEF Typed

(* Where they leave the process.                                            *)
LEMMA MovesTyped ==
  ASSUME Typed, NEW p \in Procs, Moves(p)
  PROVE  /\ job' \in [Procs -> Jobs] /\ \A q \in Procs : Fits(job[q])'
         /\ \A q \in Procs : q # p => job'[q] = job[q]
<1>0. UNCHANGED grants
  BY MovesKeep DEF ledger
<1>2. CASE RunReturns(p)
  <2>1. CASE Ends(p)
    BY <1>0, <2>1, JobEnds
  <2>2. CASE job' = [job EXCEPT ![p].pc = "settling", ![p].amount = charged[job[p].key]]
    <3>1. /\ job[p] \in Jobs /\ charged[job[p].key] \in Nat /\ job[p].state \in PauseStates
          /\ job[p].done \in BOOLEAN /\ job[p].pc = "running"
      BY <1>2, JobFacts, KeyFacts DEF RunReturns, KeyPcs
    <3>2. job' = [job EXCEPT ![p] = Gone(job[p], "settling", charged[job[p].key], job[p].state)]
      BY <2>2, <3>1 DEF Typed, Jobs, Gone
    <3> DEFINE amount == charged[job[p].key]
    <3>3. "settling" \in Pcs /\ "settling" \in KeyPcs /\ job[p].pc \in KeyPcs /\ amount \in Nat
      BY <3>1 DEF Pcs, KeyPcs
    <3>4. job' = [job EXCEPT ![p] = Gone(job[p], "settling", amount, job[p].state)]
      BY <3>2
    <3> HIDE DEF amount
    <3> QED
      BY <1>0, <3>1, <3>3, <3>4, JobGoes
  <2> QED
    BY <1>2, <2>1, <2>2 DEF RunReturns
<1>3. CASE RunRefused(p) \/ RunUnknown(p)
  <2>1. PICK pc \in {"releasing", "marking"} : job' = [job EXCEPT ![p].pc = pc]
    BY <1>3 DEF RunRefused, RunUnknown, Goes
  <2>2. /\ job[p] \in Jobs /\ job[p].amount \in Nat /\ job[p].state \in PauseStates
        /\ job[p].done \in BOOLEAN /\ job[p].pc = "running"
    BY <1>3, JobFacts DEF RunRefused, RunUnknown
  <2>3. job' = [job EXCEPT ![p] = Gone(job[p], pc, job[p].amount, job[p].state)]
    BY <2>1, <2>2 DEF Typed, Jobs, Gone
  <2>4. pc \in Pcs /\ pc \in KeyPcs /\ job[p].pc \in KeyPcs
    BY <2>2 DEF Pcs, KeyPcs
  <2> QED
    BY <1>0, <2>2, <2>3, <2>4, JobGoes
<1>4. CASE ReadBack(p)
  <2>1. PICK k \in Keys : job' = [job EXCEPT ![p] = [Idle EXCEPT !.pc = "settling", !.key = k,
                                                                 !.amount = charged[k]]]
    BY <1>4 DEF ReadBack, Reserved
  <2> DEFINE j == [Idle EXCEPT !.pc = "settling", !.key = k, !.amount = charged[k]]
  <2>2. j \in Jobs /\ j.pc = "settling" /\ j.key = k
    BY KeyFacts, IdleFits DEF Fits, Jobs, Pcs, KeyPcs
  <2>3. Fits(j)
    BY <2>2 DEF Fits, PausePcs
  <2>4. job' = [job EXCEPT ![p] = j]
    BY <2>1
  <2> HIDE DEF j
  <2> QED
    BY <1>0, <2>3, <2>4, JobBecomes
<1>5. CASE ReconcileAbsent(p)
  <2>1. PICK k \in Keys : job' = [job EXCEPT ![p] = [Idle EXCEPT !.pc = "absent", !.key = k]]
    BY <1>5 DEF ReconcileAbsent
  <2> DEFINE j == [Idle EXCEPT !.pc = "absent", !.key = k]
  <2>2. j \in Jobs /\ j.pc = "absent" /\ j.key = k
    BY IdleFits DEF Fits, Jobs, Pcs, KeyPcs
  <2>3. Fits(j)
    BY <2>2 DEF Fits, PausePcs
  <2>4. job' = [job EXCEPT ![p] = j]
    BY <2>1
  <2> HIDE DEF j
  <2> QED
    BY <1>0, <2>3, <2>4, JobBecomes
<1>6. CASE AutoPause(p)
  <2>1. PICK g \in grants, targets \in SUBSET Targets :
          job' = [job EXCEPT ![p] = [Idle EXCEPT !.pc = "halting", !.grant = g, !.targets = targets]]
    <3>1. PICK g \in grants :
            LET known == {res[k].request.campaign : k \in {q \in Of(g) : res[q].status # "released"}} IN
              job' = [job EXCEPT ![p] = [Idle EXCEPT !.pc = "halting", !.grant = g,
                                           !.targets = IF known = {} THEN {None} ELSE known]]
      BY <1>6 DEF AutoPause
    <3> DEFINE known == {res[k].request.campaign : k \in {q \in Of(g) : res[q].status # "released"}}
               targets == IF known = {} THEN {None} ELSE known
    <3>2. known \subseteq Targets
      BY KeyFacts DEF Of, Reserved
    <3>3. targets \in SUBSET Targets
      BY <3>2 DEF Targets
    <3> QED
      BY <3>1, <3>3
  <2> DEFINE j == [Idle EXCEPT !.pc = "halting", !.grant = g, !.targets = targets]
  <2>2. j \in Jobs /\ j.pc = "halting" /\ j.grant = g
    BY IdleFits DEF Fits, Jobs, Pcs, Typed
  <2>3. Fits(j)
    BY <2>2 DEF Fits, PausePcs, KeyPcs
  <2>4. job' = [job EXCEPT ![p] = j]
    BY <2>1
  <2> HIDE DEF j
  <2> QED
    BY <1>0, <2>3, <2>4, JobBecomes
<1>7. CASE ProcessPause(p)
  <2>1. PICK g \in grants, t \in Campaigns :
          job' = [job EXCEPT ![p] = [Idle EXCEPT !.pc = "planned", !.grant = g, !.targets = {t}]]
    BY <1>7 DEF ProcessPause
  <2> DEFINE j == [Idle EXCEPT !.pc = "planned", !.grant = g, !.targets = {t}]
  <2>2. j \in Jobs /\ j.pc = "planned" /\ j.grant = g /\ j.targets = {t}
    BY IdleFits DEF Fits, Jobs, Pcs, PausePcs, Targets, Typed
  <2>3. Fits(j)
    BY <2>2 DEF Fits, KeyPcs
  <2>4. job' = [job EXCEPT ![p] = j]
    BY <2>1
  <2> HIDE DEF j
  <2> QED
    BY <1>0, <2>3, <2>4, JobBecomes
<1>8. CASE ReadPause(p)
  <2>1. PICK state \in PauseStates : job' = [job EXCEPT ![p].pc = "persisting", ![p].state = state]
    <3>1. PICK seen \in {"matched", "missing", "conflict", "blocked", "unknown"} :
            job' = [job EXCEPT ![p].pc = "persisting", ![p].state = ReadAs(seen, @)]
      BY <1>8 DEF ReadPause
    <3>2. ReadAs(seen, job[p].state) \in PauseStates
      BY JobFacts DEF ReadAs, PauseStates
    <3>3. job' = [job EXCEPT ![p].pc = "persisting", ![p].state = ReadAs(seen, job[p].state)]
      BY <3>1
    <3> QED
      BY <3>2, <3>3
  <2>2. /\ job[p] \in Jobs /\ job[p].amount \in Nat /\ job[p].done \in BOOLEAN /\ job[p].pc = "reading"
    BY <1>8, JobFacts DEF ReadPause
  <2>3. job' = [job EXCEPT ![p] = Gone(job[p], "persisting", job[p].amount, state)]
    BY <2>1, <2>2 DEF Typed, Jobs, Gone
  <2> QED
    BY <1>0, <2>2, <2>3, JobGoes DEF Pcs, PausePcs
<1>9. CASE Crash(p)
  BY <1>0, <1>9, JobEnds DEF Crash
<1> QED
  BY <1>2, <1>3, <1>4, <1>5, <1>6, <1>7, <1>8, <1>9 DEF Moves

(* What the other steps leave of the jobs.                                  *)
LEMMA ReserveFacts ==
  ASSUME Typed, NEW p \in Procs, Reserve(p)
  PROVE  /\ job' \in [Procs -> Jobs] /\ \A q \in Procs : Fits(job[q])'
         /\ \A q \in Procs : q # p => job'[q] = job[q]
         /\ res' \in [Keys -> Slots] /\ \A k \in Keys : Filled(k)'
         /\ \E k \in Keys :
              /\ res[k].status = "absent" /\ res'[k].status = "held"
              /\ \A i \in Keys : i # k => res'[i] = res[i]
              /\ job'[p].pc = "running" /\ job'[p].key = k /\ job'[p].done = FALSE
<1>0. UNCHANGED grants
  BY DEF Reserve
<1>1. PICK k \in Keys : \E r \in RequestsOf[k] :
        /\ r.grant \in grants /\ Verdict(k, r) = "created"
        /\ res' = [res EXCEPT ![k] = [status |-> "held", request |-> r, settled |-> 0]]
        /\ job' = [job EXCEPT ![p] = [Idle EXCEPT !.pc = "running", !.key = k, !.ofRun = TRUE]]
  BY DEF Reserve
<1>10. PICK r \in RequestsOf[k] :
        /\ r.grant \in grants /\ Verdict(k, r) = "created"
        /\ res' = [res EXCEPT ![k] = [status |-> "held", request |-> r, settled |-> 0]]
        /\ job' = [job EXCEPT ![p] = [Idle EXCEPT !.pc = "running", !.key = k, !.ofRun = TRUE]]
  BY <1>1
<1> DEFINE row == [status |-> "held", request |-> r, settled |-> 0]
           j == [Idle EXCEPT !.pc = "running", !.key = k, !.ofRun = TRUE]
<1>2. res[k].status = "absent"
  BY <1>10 DEF Verdict
<1>3. /\ row \in Slots /\ row.status = "held" /\ row.request = r /\ row.status # "absent"
  BY <1>10, SpendAssumption DEF Slots, Statuses
<1>4. res' = [res EXCEPT ![k] = row]
  BY <1>10
<1>5. j \in Jobs /\ j.pc = "running" /\ j.key = k /\ j.done = FALSE
  BY IdleFits DEF Fits, Idle, Jobs, Pcs, KeyPcs
<1>6. Fits(j)
  BY <1>5 DEF Fits, PausePcs
<1>7. job' = [job EXCEPT ![p] = j]
  BY <1>10
<1> HIDE DEF row, j
<1>8. /\ res' \in [Keys -> Slots] /\ \A i \in Keys : Filled(i)'
      /\ res'[k] = row /\ \A i \in Keys : i # k => res'[i] = res[i]
  BY <1>0, <1>10, <1>3, <1>4, ResBecomes
<1>9. /\ job' \in [Procs -> Jobs] /\ \A q \in Procs : Fits(job[q])'
      /\ job'[p] = j /\ \A q \in Procs : q # p => job'[q] = job[q]
  BY <1>0, <1>6, <1>7, JobBecomes
<1> QED
  BY <1>2, <1>3, <1>5, <1>8, <1>9

(* Money spent is noted by the process that waits for it.                   *)
LEMMA SpendingFacts ==
  ASSUME Typed, NEW p \in Procs, ProviderSpends(p)
  PROVE  /\ job' \in [Procs -> Jobs] /\ \A q \in Procs : Fits(job[q])'
         /\ \A q \in Procs : q # p => job'[q] = job[q]
         /\ job'[p].pc = "running" /\ job'[p].key = job[p].key /\ job'[p].done = TRUE
<1> DEFINE j == [job[p] EXCEPT !.done = TRUE]
<1>1. /\ job[p] \in Jobs /\ Fits(job[p]) /\ job[p].pc = "running" /\ UNCHANGED grants
  BY JobFacts DEF ProviderSpends, ledger
<1>2. /\ j \in Jobs /\ j.pc = "running" /\ j.key = job[p].key /\ j.done = TRUE
  BY <1>1 DEF Jobs
<1>3. Fits(j)
  BY <1>1, <1>2 DEF Fits, KeyPcs, PausePcs
<1>4. job' = [job EXCEPT ![p] = j]
  BY DEF ProviderSpends
<1> HIDE DEF j
<1> QED
  BY <1>1, <1>2, <1>3, <1>4, JobBecomes

(* A reservation that is released or marked pending by the process at it.   *)
Restates(p, before, after) ==
  IF res[job[p].key].status = before THEN Status(job[p].key, after) ELSE UNCHANGED res

(* It changes that reservation alone, and only its status.                  *)
LEMMA RestatesWell ==
  ASSUME Typed, UNCHANGED grants, NEW p \in Procs, job[p].pc \in KeyPcs,
         NEW before \in Statuses \ {"absent"}, NEW after \in Statuses \ {"absent"},
         Restates(p, before, after)
  PROVE  /\ res' \in [Keys -> Slots] /\ \A k \in Keys : Filled(k)'
         /\ \A k \in Keys : k # job[p].key => res'[k] = res[k]
         /\ \/ UNCHANGED res
            \/ /\ res[job[p].key].status = before /\ res'[job[p].key].status = after
               /\ res'[job[p].key].settled = res[job[p].key].settled
               /\ res'[job[p].key].request = res[job[p].key].request
<1>1. job[p].key \in Keys
  BY JobFacts
<1>2. CASE UNCHANGED res
  BY <1>2, Same
<1>3. CASE res[job[p].key].status = before /\ Status(job[p].key, after)
  BY <1>1, <1>3, StatusMoves
<1> QED
  BY <1>2, <1>3 DEF Restates

(* After a transaction that threw, a run marks its reservation.             *)
LEMMA ThrowsFacts ==
  ASSUME Typed, NEW p \in Procs, SettleThrows(p)
  PROVE  /\ job' \in [Procs -> Jobs] /\ \A q \in Procs : Fits(job[q])'
         /\ \A q \in Procs : q # p => job'[q] = job[q]
         /\ job'[p].pc # "idle" => job'[p].pc = "marking" /\ job'[p].key = job[p].key
<1>1. /\ job[p] \in Jobs /\ job[p].amount \in Nat /\ job[p].state \in PauseStates
      /\ job[p].done \in BOOLEAN /\ job[p].pc = "settling" /\ UNCHANGED grants
  BY JobFacts, SettlesWell DEF SettleThrows
<1>2. CASE Ends(p)
  BY <1>1, <1>2, JobEnds
<1>3. CASE Goes(p, "marking")
  <2>1. job' = [job EXCEPT ![p] = Gone(job[p], "marking", job[p].amount, job[p].state)]
    BY <1>1, <1>3 DEF Goes, Typed, Jobs, Gone
  <2>2. "marking" \in Pcs /\ "marking" \in KeyPcs /\ job[p].pc \in KeyPcs
    BY <1>1 DEF Pcs, KeyPcs
  <2> QED
    BY <1>1, <2>1, <2>2, JobGoes
<1> QED
  BY <1>2, <1>3 DEF SettleThrows

(* The claim of a pause's one attempt.                                      *)
LEMMA ClaimFacts ==
  ASSUME Typed, NEW p \in Procs, Claim(p)
  PROVE  /\ job' \in [Procs -> Jobs] /\ \A q \in Procs : Fits(job[q])'
         /\ \A q \in Procs : q # p => job'[q] = job[q]
         /\ job'[p].pc # "persisting" /\ job'[p].pc \notin KeyPcs
         /\ pauses' \in [Grants -> [Targets -> PauseRows]]
         /\ asked' \in [Grants -> [Targets -> Nat]]
         /\ \A g \in Grants, t \in Targets :
              /\ pauses'[g][t].incidents = pauses[g][t].incidents
              /\ pauses'[g][t].state = "verified" => pauses[g][t].state = "verified"
              /\ \/ pauses'[g][t].tried = pauses[g][t].tried /\ asked'[g][t] = asked[g][t]
                 \/ /\ ~pauses[g][t].tried /\ pauses'[g][t].tried
                    /\ asked'[g][t] = asked[g][t] + 1
<1> DEFINE g == job[p].grant
           t == Target(p)
<1>1. /\ g \in Grants /\ t \in Targets /\ Pause(p) \in PauseRows /\ Pause(p) = pauses[g][t]
      /\ Pause(p).state \in PauseStates
      /\ job[p] \in Jobs /\ job[p].amount \in Nat /\ job[p].state \in PauseStates
      /\ job[p].done \in BOOLEAN /\ job[p].pc = "planned" /\ UNCHANGED grants
      /\ asked[g][t] \in Nat
  <2>1. job[p].pc = "planned" /\ job[p].pc \in PausePcs /\ UNCHANGED grants
    BY DEF Claim, PausePcs
  <2>2. g \in Grants /\ t \in Targets
    BY <2>1, PauseFacts
  <2> QED
    BY <2>1, <2>2, JobFacts, PauseFacts DEF Pause, Typed
<1>2. CASE Ends(p) /\ UNCHANGED <<pauses, asked>>
  BY <1>1, <1>2, JobEnds DEF Typed, KeyPcs
<1>3. CASE /\ job' = [job EXCEPT ![p].pc = "reading", ![p].state = Pause(p).state]
           /\ UNCHANGED <<pauses, asked>>
  <2> DEFINE state == Pause(p).state
  <2>1. job' = [job EXCEPT ![p] = Gone(job[p], "reading", job[p].amount, state)]
    BY <1>1, <1>3 DEF Typed, Jobs, Gone
  <2>2. /\ "reading" \in Pcs /\ "reading" \in PausePcs /\ job[p].pc \in PausePcs
        /\ state \in PauseStates
    BY <1>1 DEF Pcs, PausePcs
  <2> HIDE DEF state
  <2>3. /\ job' \in [Procs -> Jobs] /\ \A q \in Procs : Fits(job[q])'
        /\ \A q \in Procs : q # p => job'[q] = job[q]
        /\ job'[p].pc = "reading"
    BY <1>1, <2>1, <2>2, JobGoes
  <2> QED
    BY <1>3, <2>3 DEF Typed, KeyPcs
<1>4. CASE /\ Claimable(Pause(p))
           /\ pauses' = [pauses EXCEPT ![g][t] = [@ EXCEPT !.state = "attempting", !.tried = TRUE]]
           /\ asked' = [asked EXCEPT ![g][t] = @ + 1]
           /\ Goes(p, "applying")
  <2> DEFINE row == [pauses[g][t] EXCEPT !.state = "attempting", !.tried = TRUE]
  <2>1. job' = [job EXCEPT ![p] = Gone(job[p], "applying", job[p].amount, job[p].state)]
    BY <1>1, <1>4 DEF Goes, Typed, Jobs, Gone
  <2>2. "applying" \in Pcs /\ "applying" \in PausePcs /\ job[p].pc \in PausePcs
    BY <1>1 DEF Pcs, PausePcs
  <2>3. /\ job' \in [Procs -> Jobs] /\ \A q \in Procs : Fits(job[q])'
        /\ \A q \in Procs : q # p => job'[q] = job[q]
        /\ job'[p].pc = "applying"
    BY <1>1, <2>1, <2>2, JobGoes
  <2>4. /\ row \in PauseRows /\ row.tried /\ row.state = "attempting"
        /\ row.incidents = pauses[g][t].incidents
    BY <1>1 DEF PauseRows, PauseStates
  <2>5. pauses' = [pauses EXCEPT ![g][t] = row] /\ ~pauses[g][t].tried
    BY <1>1, <1>4 DEF Claimable
  <2>6. /\ asked' \in [Grants -> [Targets -> Nat]] /\ asked'[g][t] = asked[g][t] + 1
        /\ \A h \in Grants, u \in Targets : <<h, u>> # <<g, t>> => asked'[h][u] = asked[h][u]
    BY <1>1, <1>4 DEF Typed
  <2> HIDE DEF row, g, t
  <2>7. /\ pauses' \in [Grants -> [Targets -> PauseRows]] /\ pauses'[g][t] = row
        /\ \A h \in Grants, u \in Targets : <<h, u>> # <<g, t>> => pauses'[h][u] = pauses[h][u]
    BY ZenonT(60), <1>1, <2>4, <2>5, PauseBecomes
  <2>8. ASSUME NEW h \in Grants, NEW u \in Targets
        PROVE  /\ pauses'[h][u].incidents = pauses[h][u].incidents
               /\ pauses'[h][u].state = "verified" => pauses[h][u].state = "verified"
               /\ \/ pauses'[h][u].tried = pauses[h][u].tried /\ asked'[h][u] = asked[h][u]
                  \/ /\ ~pauses[h][u].tried /\ pauses'[h][u].tried
                     /\ asked'[h][u] = asked[h][u] + 1
    <3>1. CASE <<h, u>> = <<g, t>>
      BY <2>4, <2>5, <2>6, <2>7, <3>1
    <3>2. CASE <<h, u>> # <<g, t>>
      BY <2>6, <2>7, <3>2
    <3> QED
      BY <3>1, <3>2
  <2> QED
    BY <2>3, <2>6, <2>7, <2>8 DEF KeyPcs
<1> QED
  BY <1>2, <1>3, <1>4 DEF Claim

(* An answer of the pause adapter, which is never a verification.           *)
LEMMA AnswerFacts ==
  ASSUME Typed, NEW p \in Procs, ApplyAnswers(p) \/ PauseUnready(p)
  PROVE  /\ job' \in [Procs -> Jobs] /\ \A q \in Procs : Fits(job[q])'
         /\ \A q \in Procs : q # p => job'[q] = job[q]
         /\ job'[p].pc # "persisting" /\ job'[p].pc \notin KeyPcs
         /\ \E state \in PauseStates \ {"verified"} : Persists(p, state)
<1>1. /\ job[p] \in Jobs /\ job[p].amount \in Nat /\ job[p].done \in BOOLEAN
      /\ job[p].pc \in PausePcs /\ UNCHANGED grants
  BY JobFacts DEF ApplyAnswers, PauseUnready, PausePcs
<1>2. CASE PauseUnready(p)
  BY <1>1, <1>2, JobEnds DEF PauseUnready, PauseStates, KeyPcs
<1>3. CASE ApplyAnswers(p)
  <2>1. PICK s \in {"accepted", "unknown", "blocked", "failed"} :
          Persists(p, s) /\ job' = [job EXCEPT ![p].pc = "reading", ![p].state = s]
    BY <1>3 DEF ApplyAnswers
  <2>2. job' = [job EXCEPT ![p] = Gone(job[p], "reading", job[p].amount, s)]
    BY <1>1, <2>1 DEF Typed, Jobs, Gone
  <2>3. "reading" \in Pcs /\ "reading" \in PausePcs /\ s \in PauseStates \ {"verified"}
    BY DEF Pcs, PausePcs, PauseStates
  <2>4. /\ job' \in [Procs -> Jobs] /\ \A q \in Procs : Fits(job[q])'
        /\ \A q \in Procs : q # p => job'[q] = job[q]
        /\ job'[p].pc = "reading"
    BY <1>1, <2>2, <2>3, JobGoes
  <2> QED
    BY <2>1, <2>3, <2>4 DEF KeyPcs
<1> QED
  BY <1>2, <1>3

(* A key that somebody works on, or whose late request is out, is reserved. *)
LEMMA KeyInUse ==
  ASSUME Typed, Accounted
  PROVE  /\ \A p \in Procs : job[p].pc \in KeyPcs =>
              job[p].key \in Keys /\ res[job[p].key].status # "absent"
         /\ \A k \in late : k \in Keys /\ res[k].status # "absent"
<1>1. ASSUME NEW p \in Procs, job[p].pc \in KeyPcs
      PROVE  job[p].key \in Keys /\ res[job[p].key].status # "absent"
  BY <1>1, JobFacts DEF Accounted, KeyHolds
<1>2. ASSUME NEW k \in late PROVE k \in Keys /\ res[k].status # "absent"
  BY <1>2 DEF Typed, Accounted, KeyHolds
<1> QED
  BY <1>1, <1>2

(* The types through every step of a process.                               *)
LEMMA ProcessTyped ==
  ASSUME Typed, Accounted, NEW p \in Procs, Step(p)
  PROVE  Typed'
<1>0. /\ grants \subseteq Grants /\ halted \subseteq grants /\ charged \in [Keys -> Nat]
      /\ res \in [Keys -> Slots]
      /\ pauses \in [Grants -> [Targets -> PauseRows]] /\ late \subseteq Keys
      /\ asked \in [Grants -> [Targets -> Nat]] /\ paused \subseteq Grants \X Campaigns
  BY DEF Typed
<1>1. CASE Reserve(p)
  <2>1. UNCHANGED <<grants, halted, pauses, charged, late, asked, paused>>
    BY <1>1 DEF Reserve, world
  <2>2. /\ job' \in [Procs -> Jobs] /\ \A q \in Procs : Fits(job[q])'
        /\ res' \in [Keys -> Slots] /\ \A k \in Keys : Filled(k)'
    BY <1>1, ReserveFacts
  <2> QED
    BY <1>0, <2>1, <2>2, TypedAgain
<1>2. CASE ProviderSpends(p)
  <2>1. UNCHANGED <<grants, halted, res, pauses, late, asked, paused>>
    BY <1>2 DEF ProviderSpends, ledger
  <2>2. job' \in [Procs -> Jobs] /\ \A q \in Procs : Fits(job[q])'
    BY <1>2, SpendingFacts
  <2>3. \A k \in Keys : Filled(k)'
    BY <2>1, Same
  <2>4. charged' \in [Keys -> Nat]
    BY <1>2, KeyInUse, SpendsSome DEF ProviderSpends, KeyPcs
  <2> QED
    BY <1>0, <2>1, <2>2, <2>3, <2>4, TypedAgain
<1>3. CASE Moves(p)
  <2>1. UNCHANGED <<grants, halted, res, pauses, charged, asked, paused>> /\ late' \subseteq Keys
    BY <1>3, MovesKeep DEF ledger
  <2>2. job' \in [Procs -> Jobs] /\ \A q \in Procs : Fits(job[q])'
    BY <1>3, MovesTyped
  <2>3. \A k \in Keys : Filled(k)'
    BY <2>1, Same
  <2> QED
    BY <1>0, <2>1, <2>2, <2>3, TypedAgain
<1>4. CASE Release(p) \/ MarkPending(p) \/ ReleaseAbsent(p)
  <2>1. /\ UNCHANGED <<grants, halted, pauses, charged, late, asked, paused>>
        /\ job[p].pc \in KeyPcs /\ Ends(p)
    BY <1>4 DEF Release, MarkPending, ReleaseAbsent, world, KeyPcs
  <2>2. job' \in [Procs -> Jobs] /\ \A q \in Procs : Fits(job[q])'
    BY <2>1, JobEnds
  <2>3. PICK before \in Statuses \ {"absent"}, after \in Statuses \ {"absent"} :
          Restates(p, before, after)
    BY <1>4 DEF Release, MarkPending, ReleaseAbsent, UnknownStatus, Restates, Statuses
  <2>4. res' \in [Keys -> Slots] /\ \A k \in Keys : Filled(k)'
    BY <2>1, <2>3, RestatesWell
  <2> QED
    BY <1>0, <2>1, <2>2, <2>4, TypedAgain
<1>5. CASE Settle(p) \/ SettleThrows(p)
  <2>1. /\ UNCHANGED <<charged, late, asked, paused>>
        /\ job[p].pc = "settling" /\ (Settles(p) \/ UNCHANGED ledger)
    BY <1>5 DEF Settle, SettleThrows, world
  <2>2. /\ UNCHANGED grants /\ halted' \subseteq grants
        /\ res' \in [Keys -> Slots] /\ \A k \in Keys : Filled(k)'
        /\ pauses' \in [Grants -> [Targets -> PauseRows]]
    BY <2>1, SettlesWell
  <2>3. job' \in [Procs -> Jobs] /\ \A q \in Procs : Fits(job[q])'
    BY <1>5, <2>2, JobEnds, ThrowsFacts DEF Settle
  <2> QED
    BY <1>0, <2>1, <2>2, <2>3, TypedAgain
<1>6. CASE HaltAndQueue(p)
  <2>1. /\ UNCHANGED <<grants, res, charged, late, asked, paused>> /\ Ends(p)
        /\ halted' = halted \cup {job[p].grant} /\ job[p].pc = "halting"
    BY <1>6 DEF HaltAndQueue, world
  <2>2. pauses' \in [Grants -> [Targets -> PauseRows]]
    BY <1>6, QueuesWell
  <2>3. job' \in [Procs -> Jobs] /\ \A q \in Procs : Fits(job[q])'
    BY <2>1, JobEnds
  <2>4. halted' \subseteq grants'
    BY <1>0, <2>1, JobFacts
  <2>5. \A k \in Keys : Filled(k)'
    BY <2>1, Same
  <2> QED
    BY <1>0, <2>1, <2>2, <2>3, <2>4, <2>5, TypedAgain
<1>7. CASE Claim(p)
  <2>1. UNCHANGED <<grants, halted, res, charged, late, paused>>
    BY <1>7 DEF Claim
  <2>2. /\ job' \in [Procs -> Jobs] /\ \A q \in Procs : Fits(job[q])'
        /\ pauses' \in [Grants -> [Targets -> PauseRows]]
        /\ asked' \in [Grants -> [Targets -> Nat]]
    BY <1>7, ClaimFacts
  <2>3. \A k \in Keys : Filled(k)'
    BY <2>1, Same
  <2> QED
    BY <1>0, <2>1, <2>2, <2>3, TypedAgain
<1>8. CASE ApplyAnswers(p) \/ PauseUnready(p) \/ PersistRead(p)
  <2>1. /\ UNCHANGED <<grants, halted, res, charged, late, asked, paused>>
        /\ job[p].pc \in PausePcs
    BY <1>8 DEF ApplyAnswers, PauseUnready, PersistRead, world, PausePcs
  <2>2. \E state \in PauseStates : Persists(p, state)
    BY <1>8, AnswerFacts, JobFacts DEF PersistRead
  <2>3. pauses' \in [Grants -> [Targets -> PauseRows]]
    BY <2>1, <2>2, PersistsWell
  <2>4. job' \in [Procs -> Jobs] /\ \A q \in Procs : Fits(job[q])'
    BY <1>8, <2>1, AnswerFacts, JobEnds DEF PersistRead
  <2>5. \A k \in Keys : Filled(k)'
    BY <2>1, Same
  <2> QED
    BY <1>0, <2>1, <2>3, <2>4, <2>5, TypedAgain
<1> QED
  BY <1>1, <1>2, <1>3, <1>4, <1>5, <1>6, <1>7, <1>8 DEF Step, Moves

(* A new approval leaves everything that was there in its place.            *)
LEMMA GrantTyped ==
  ASSUME Typed, NEW g \in Grants, RegisterGrant(g)
  PROVE  Typed'
<1>1. grants \subseteq grants' /\ grants' \subseteq Grants
  BY DEF RegisterGrant, Typed
<1>2. UNCHANGED <<halted, res, pauses, job, charged, late, asked, paused>>
  BY DEF RegisterGrant, world
<1>3. \A k \in Keys : Filled(k)'
  BY <1>1, <1>2 DEF Typed, Filled
<1>4. \A p \in Procs : Fits(job[p])'
  BY <1>1, <1>2 DEF Typed, Fits
<1>5. halted' \subseteq grants'
  BY <1>1, <1>2 DEF Typed
<1>6. /\ res' \in [Keys -> Slots] /\ pauses' \in [Grants -> [Targets -> PauseRows]]
      /\ job' \in [Procs -> Jobs] /\ charged' \in [Keys -> Nat] /\ late' \subseteq Keys
      /\ asked' \in [Grants -> [Targets -> Nat]] /\ paused' \subseteq Grants \X Campaigns
  BY <1>2 DEF Typed
<1> QED
  BY <1>1, <1>3, <1>4, <1>5, <1>6 DEF Typed

(* The types through every step.                                            *)
LEMMA TypedStep ==
  ASSUME Typed, Accounted, [Next]_vars
  PROVE  Typed'
<1>1. CASE UNCHANGED vars
  <2>1. /\ UNCHANGED <<grants, halted, res, pauses, job, charged, late, asked, paused>>
    BY <1>1 DEF vars, ledger, world
  <2> QED
    BY <2>1, Same DEF Typed
<1>2. CASE \E p \in Procs : Step(p)
  BY <1>2, ProcessTyped
<1>3. CASE \E g \in Grants : RegisterGrant(g)
  BY <1>3, GrantTyped
<1>4. CASE \E g \in Grants : Halt(g)
  <2>1. PICK g \in Grants : Halt(g)
    BY <1>4
  <2>2. /\ UNCHANGED <<grants, res, pauses, job, charged, late, asked, paused>>
        /\ halted' = halted \cup {g} /\ g \in grants
    BY <2>1 DEF Halt, world
  <2> QED
    BY <2>2, Same DEF Typed
<1>5. CASE \E k \in Keys : LateSpending(k)
  <2>1. PICK k \in Keys : LateSpending(k)
    BY <1>5
  <2>2. /\ UNCHANGED <<grants, halted, res, pauses, job, asked, paused>>
        /\ late' \subseteq late /\ k \in late /\ Spends(k)
    BY <2>1 DEF LateSpending, ledger
  <2>3. charged' \in [Keys -> Nat]
    BY <2>2, KeyInUse, SpendsSome
  <2> QED
    BY <2>2, <2>3, Same DEF Typed
<1>6. CASE \E g \in Grants, t \in Campaigns : ProviderPauses(g, t)
  <2>1. PICK g \in Grants, t \in Campaigns : ProviderPauses(g, t)
    BY <1>6
  <2>2. /\ UNCHANGED <<grants, halted, res, pauses, job, charged, late, asked>>
        /\ paused' = paused \cup {<<g, t>>}
    BY <2>1 DEF ProviderPauses, ledger
  <2> QED
    BY <2>2, Same DEF Typed
<1> QED
  BY <1>1, <1>2, <1>3, <1>4, <1>5, <1>6 DEF Next
-----------------------------------------------------------------------------
(* The money.                                                               *)

(* A step that touches the keys in K alone, and processes only to set them  *)
(* on these keys or to take them off: the rest of the account stands.       *)
LEMMA AccountKept ==
  ASSUME Typed, Accounted, \A p \in Procs : Knows(p), Typed',
         NEW K \in SUBSET Keys,
         \A k \in Keys \ K : /\ res'[k] = res[k] /\ charged'[k] = charged[k]
                             /\ k \in late' => k \in late,
         \A p \in Procs : \/ job'[p] = job[p]
                          \/ job'[p].pc \in KeyPcs => job'[p].key \in K,
         \A k \in K : KeyHolds(k)',
         \A p \in Procs : job'[p].pc \in KeyPcs /\ job'[p].key \in K => Knows(p)'
  PROVE  Accounted' /\ \A p \in Procs : Knows(p)'
<1>1. ASSUME NEW k \in Keys \ K, NEW p \in Procs, job'[p].pc \in KeyPcs, job'[p].key = k
      PROVE  job'[p] = job[p]
  BY <1>1
<1>2. ASSUME NEW k \in Keys \ K, NobodyRuns(k) PROVE NobodyRuns(k)'
  BY <1>1, <1>2 DEF NobodyRuns, Runs, KeyPcs
<1>3. ASSUME NEW k \in Keys \ K PROVE KeyHolds(k)'
  <2>1. KeyHolds(k) /\ res'[k] = res[k] /\ charged'[k] = charged[k] /\ (k \in late' => k \in late)
    BY DEF Accounted
  <2>2. /\ (res[k].status = "absent" => /\ charged[k] = 0 /\ k \notin late
                                        /\ \A p \in Procs : job[p].pc \in KeyPcs => job[p].key # k)'
    BY <1>1, <2>1 DEF KeyHolds
  <2>3. (\A p, q \in Procs : Runs(p, k) /\ Runs(q, k) => p = q)'
    <3> SUFFICES ASSUME NEW p \in Procs, NEW q \in Procs, Runs(p, k)', Runs(q, k)' PROVE p = q
      OBVIOUS
    <3>1. Runs(p, k) /\ Runs(q, k)
      BY <1>1 DEF Runs, KeyPcs
    <3> QED
      BY <2>1, <3>1 DEF KeyHolds
  <2>4. /\ (res[k].status = "released" => charged[k] = 0 /\ k \notin late /\ NobodyRuns(k))'
        /\ (res[k].status = "settled" => charged[k] = res[k].settled /\ charged[k] > 0)'
        /\ (k \in late => charged[k] = 0 /\ NobodyRuns(k))'
    BY <1>2, <2>1 DEF KeyHolds
  <2> QED
    BY <2>2, <2>3, <2>4 DEF KeyHolds
<1>4. ASSUME NEW p \in Procs PROVE Knows(p)'
  <2>1. CASE job'[p].pc \notin KeyPcs
    BY <2>1 DEF Knows, KeyPcs
  <2>2. CASE job'[p].pc \in KeyPcs /\ job'[p].key \in K
    BY <2>2
  <2>3. CASE job'[p].pc \in KeyPcs /\ job'[p].key \notin K
    <3> DEFINE k == job[p].key
    <3>1. job'[p] = job[p] /\ k \in Keys \ K
      BY <2>3, JobFacts
    <3>2. /\ charged'[k] = charged[k] /\ (k \in late' => k \in late)
          /\ NobodyRuns(k) => NobodyRuns(k)'
      BY <1>2, <3>1
    <3> QED
      BY <3>1, <3>2 DEF Knows
  <2> QED
    BY <2>1, <2>2, <2>3
<1> QED
  BY <1>3, <1>4 DEF Accounted

(* The same for one key.                                                    *)
LEMMA AccountOfOne ==
  ASSUME Typed, Accounted, \A p \in Procs : Knows(p), Typed', NEW k \in Keys,
         \A i \in Keys : i # k => /\ res'[i] = res[i] /\ charged'[i] = charged[i]
                                  /\ i \in late' => i \in late,
         \A p \in Procs : \/ job'[p] = job[p]
                          \/ job'[p].pc \in KeyPcs => job'[p].key = k,
         KeyHolds(k)',
         \A p \in Procs : job'[p].pc \in KeyPcs /\ job'[p].key = k => Knows(p)'
  PROVE  Accounted' /\ \A p \in Procs : Knows(p)'
<1> DEFINE K == {k}
<1>1. K \in SUBSET Keys /\ \A i : i \in K <=> i = k
  OBVIOUS
<1>2. \A i \in Keys \ K : /\ res'[i] = res[i] /\ charged'[i] = charged[i]
                          /\ i \in late' => i \in late
  OBVIOUS
<1>3. \A i \in K : KeyHolds(i)'
  OBVIOUS
<1> HIDE DEF K
<1>4. /\ \A p \in Procs : \/ job'[p] = job[p]
                          \/ job'[p].pc \in KeyPcs => job'[p].key \in K
      /\ \A p \in Procs : job'[p].pc \in KeyPcs /\ job'[p].key \in K => Knows(p)'
  BY <1>1
<1> QED
  BY <1>1, <1>2, <1>3, <1>4, AccountKept

(* A step that touches no key and sets nobody to work on one.               *)
LEMMA AccountOfNone ==
  ASSUME Typed, Accounted, \A p \in Procs : Knows(p), Typed',
         UNCHANGED <<res, charged>>, late' \subseteq late,
         \A p \in Procs : job'[p] = job[p] \/ job'[p].pc \notin KeyPcs
  PROVE  Accounted' /\ \A p \in Procs : Knows(p)'
<1> DEFINE K == {}
<1>1. K \in SUBSET Keys /\ \A i : i \notin K
  OBVIOUS
<1> HIDE DEF K
<1>2. \A k \in Keys \ K : /\ res'[k] = res[k] /\ charged'[k] = charged[k]
                          /\ k \in late' => k \in late
  OBVIOUS
<1>3. \A p \in Procs : \/ job'[p] = job[p]
                       \/ job'[p].pc \in KeyPcs => job'[p].key \in K
  OBVIOUS
<1>4. /\ \A k \in K : KeyHolds(k)'
      /\ \A p \in Procs : job'[p].pc \in KeyPcs /\ job'[p].key \in K => Knows(p)'
  BY <1>1
<1> QED
  BY <1>1, <1>2, <1>3, <1>4, AccountKept

(* Who runs a key when one process moves.                                   *)
LEMMA StillNobody ==
  ASSUME NEW p \in Procs, \A q \in Procs : q # p => job'[q] = job[q], NEW k
  PROVE  /\ NobodyRuns(k) /\ (job'[p].pc = "running" => job'[p].key # k) => NobodyRuns(k)'
         /\ Runs(p, k) /\ (\A q, r \in Procs : Runs(q, k) /\ Runs(r, k) => q = r)
              /\ job'[p].pc # "running" => NobodyRuns(k)'
         /\ job'[p].pc # "running" /\ (\A q, r \in Procs : Runs(q, k) /\ Runs(r, k) => q = r)
              => (\A q, r \in Procs : Runs(q, k) /\ Runs(r, k) => q = r)'
  BY DEF NobodyRuns, Runs

(* A reservation begins with nothing spent and nobody else at its key.      *)
LEMMA ReserveAccounted ==
  ASSUME Typed, Accounted, \A q \in Procs : Knows(q), Typed', NEW p \in Procs, Reserve(p)
  PROVE  Accounted' /\ \A q \in Procs : Knows(q)'
<1>0. UNCHANGED <<charged, late>> /\ \A q \in Procs : q # p => job'[q] = job[q]
  BY ReserveFacts DEF Reserve, world
<1>1. PICK k \in Keys :
        /\ res[k].status = "absent" /\ res'[k].status = "held"
        /\ \A i \in Keys : i # k => res'[i] = res[i]
        /\ job'[p].pc = "running" /\ job'[p].key = k /\ job'[p].done = FALSE
  BY ReserveFacts
<1>2. /\ charged[k] = 0 /\ k \notin late
      /\ \A q \in Procs : job[q].pc \in KeyPcs => job[q].key # k
  BY <1>1 DEF Accounted, KeyHolds
<1>3. KeyHolds(k)'
  BY <1>0, <1>1, <1>2 DEF KeyHolds, Runs, KeyPcs
<1>4. Knows(p)'
  BY <1>0, <1>1, <1>2 DEF Knows
<1>5. \A q \in Procs : job'[q].pc \in KeyPcs /\ job'[q].key = k => Knows(q)'
  BY <1>0, <1>2, <1>4
<1> QED
  BY <1>0, <1>1, <1>3, <1>5, AccountOfOne

(* Money is spent while the key's own run waits for it, the first time.     *)
LEMMA SpendingAccounted ==
  ASSUME Typed, Accounted, \A q \in Procs : Knows(q), Typed', NEW p \in Procs, ProviderSpends(p)
  PROVE  Accounted' /\ \A q \in Procs : Knows(q)'
<1>0. PICK k \in Keys : k = job[p].key
  BY JobFacts DEF ProviderSpends, KeyPcs
<1>1. /\ UNCHANGED <<res, late>> /\ \A q \in Procs : q # p => job'[q] = job[q]
      /\ job'[p].pc = "running" /\ job'[p].key = k /\ job'[p].done = TRUE
      /\ job[p].pc = "running" /\ ~job[p].done
  BY <1>0, SpendingFacts DEF ProviderSpends, ledger
<1>2. res[k].status # "absent" /\ Runs(p, k) /\ KeyHolds(k) /\ charged[k] = 0
  BY <1>0, <1>1, KeyInUse DEF KeyPcs, Runs, Accounted, Knows
<1>3. charged'[k] > 0 /\ \A i \in Keys : i # k => charged'[i] = charged[i]
  BY <1>0, <1>2, SpendsSome DEF ProviderSpends
<1>4. /\ ~NobodyRuns(k) /\ k \notin late /\ res[k].status \notin {"absent", "released", "settled"}
      /\ \A q, r \in Procs : Runs(q, k) /\ Runs(r, k) => q = r
  BY <1>2 DEF KeyHolds, NobodyRuns
<1>5. KeyHolds(k)'
  BY <1>0, <1>1, <1>2, <1>4 DEF KeyHolds, Runs
<1>6. ASSUME NEW q \in Procs, job'[q].pc \in KeyPcs, job'[q].key = k PROVE Knows(q)'
  <2>1. CASE q = p
    BY <1>1, <1>3, <2>1 DEF Knows
  <2>2. CASE q # p
    <3>1. job'[q] = job[q] /\ Knows(q)
      BY <1>1, <2>2
    <3>2. job[q].pc # "running"
      BY <1>2, <1>4, <1>6, <2>2, <3>1 DEF Runs
    <3>3. job[q].pc \notin {"settling", "releasing", "absent"}
      BY <1>2, <1>4, <1>6, <3>1 DEF Knows
    <3> QED
      BY <3>1, <3>2, <3>3 DEF Knows
  <2> QED
    BY <2>1, <2>2
<1> QED
  BY <1>1, <1>3, <1>5, <1>6, AccountOfOne

(* A late request is carried out: nobody counted on its absence.            *)
LEMMA LateAccounted ==
  ASSUME Typed, Accounted, \A q \in Procs : Knows(q), Typed', NEW k \in Keys, LateSpending(k)
  PROVE  Accounted' /\ \A q \in Procs : Knows(q)'
<1>1. /\ UNCHANGED <<res, job>> /\ k \in late /\ late' = late \ {k}
  BY DEF LateSpending, ledger
<1>2. KeyHolds(k) /\ res[k].status # "absent"
  BY <1>1, KeyInUse DEF Accounted
<1>3. charged'[k] > 0 /\ \A i \in Keys : i # k => charged'[i] = charged[i]
  BY <1>2, SpendsSome DEF LateSpending
<1>4. /\ NobodyRuns(k) /\ charged[k] = 0 /\ res[k].status \notin {"absent", "released", "settled"}
  BY <1>1, <1>2 DEF KeyHolds
<1>5. KeyHolds(k)'
  BY <1>1, <1>2, <1>4 DEF KeyHolds, Runs
<1>6. ASSUME NEW q \in Procs, job'[q].pc \in KeyPcs, job'[q].key = k PROVE Knows(q)'
  <2>1. Knows(q) /\ job'[q] = job[q]
    BY <1>1
  <2>2. job[q].pc \notin {"running", "settling", "releasing", "absent"}
    BY <1>1, <1>4, <1>6, <2>1 DEF Knows, NobodyRuns, Runs
  <2> QED
    BY <2>1, <2>2 DEF Knows
<1> QED
  BY <1>1, <1>3, <1>5, <1>6, AccountOfOne

(* A run that is left unanswered: what it had not spent yet may still be.   *)
LEMMA LeftAccounted ==
  ASSUME Typed, Accounted, \A q \in Procs : Knows(q), Typed', NEW p \in Procs,
         UNCHANGED <<res, charged>>, late' = late \cup Abandoned(p),
         \A q \in Procs : q # p => job'[q] = job[q],
         \/ job'[p].pc = "idle"
         \/ job[p].pc = "running" /\ job'[p].pc = "marking" /\ job'[p].key = job[p].key
  PROVE  Accounted' /\ \A q \in Procs : Knows(q)'
<1>1. CASE Abandoned(p) = {}
  <2>1. CASE job'[p].pc = "idle"
    BY <1>1, <2>1, AccountOfNone DEF KeyPcs
  <2>2. CASE job[p].pc = "running" /\ job'[p].pc = "marking" /\ job'[p].key = job[p].key
    <3>1. PICK k \in Keys : k = job[p].key
      BY <2>2, JobFacts DEF KeyPcs
    <3>2. KeyHolds(k)
      BY DEF Accounted
    <3>3. KeyHolds(k)'
      BY <1>1, <2>2, <3>1, <3>2 DEF KeyHolds, NobodyRuns, Runs, KeyPcs
    <3>4. ASSUME NEW q \in Procs, job'[q].pc \in KeyPcs, job'[q].key = k PROVE Knows(q)'
      <4>1. CASE q = p
        BY <2>2, <4>1 DEF Knows
      <4>2. CASE q # p
        BY <1>1, <2>2, <4>2 DEF Knows, NobodyRuns, Runs
      <4> QED
        BY <4>1, <4>2
    <3> QED
      BY <1>1, <2>2, <3>1, <3>3, <3>4, AccountOfOne
  <2> QED
    BY <2>1, <2>2
<1>2. CASE Abandoned(p) # {}
  <2>1. job[p].pc = "running" /\ ~job[p].done /\ late' = late \cup {job[p].key}
    BY <1>2 DEF Abandoned
  <2>2. PICK k \in Keys : k = job[p].key
    BY <2>1, JobFacts DEF KeyPcs
  <2>3. KeyHolds(k) /\ charged[k] = 0 /\ Runs(p, k) /\ res[k].status # "absent"
    BY <2>1, <2>2, KeyInUse DEF Accounted, Knows, Runs, KeyPcs
  <2>4. res[k].status \notin {"absent", "released", "settled"}
    BY <2>3 DEF KeyHolds, NobodyRuns
  <2>5. job'[p].pc # "running"
    OBVIOUS
  <2>6. \A q \in Procs : ~Runs(q, k)'
    BY <2>3, <2>5 DEF KeyHolds, Runs
  <2>7. KeyHolds(k)'
    BY <2>3, <2>4, <2>6 DEF KeyHolds, NobodyRuns
  <2>8. ASSUME NEW q \in Procs, job'[q].pc \in KeyPcs, job'[q].key = k PROVE Knows(q)'
    <3>1. CASE q = p
      BY <2>8, <3>1 DEF Knows, KeyPcs
    <3>2. CASE q # p
      <4>1. job'[q] = job[q] /\ Knows(q)
        BY <3>2
      <4>2. job[q].pc \notin {"running", "settling", "releasing", "absent"}
        BY <2>3, <2>8, <3>2, <4>1 DEF Knows, KeyHolds, NobodyRuns, Runs
      <4> QED
        BY <4>1, <4>2 DEF Knows
    <3> QED
      BY <3>1, <3>2
  <2>9. \A i \in Keys : i # k => (i \in late' => i \in late)
    BY <2>1, <2>2
  <2>10. job'[p].pc \in KeyPcs => job'[p].key = k
    BY <2>2 DEF KeyPcs
  <2> QED
    BY <2>7, <2>8, <2>9, <2>10, AccountOfOne
<1> QED
  BY <1>1, <1>2

(* A process whose knowledge of its key is all that is new.                 *)
LEMMA KnowledgeAccounted ==
  ASSUME Typed, Accounted, \A q \in Procs : Knows(q), Typed', NEW p \in Procs, NEW k \in Keys,
         UNCHANGED <<res, charged>>, late' \subseteq late,
         \A i \in Keys : i # k => (i \in late' => i \in late),
         \A q \in Procs : q # p => job'[q] = job[q],
         job'[p].pc # "running", job'[p].pc \in KeyPcs => job'[p].key = k,
         res[k].status # "absent", Knows(p)'
  PROVE  Accounted' /\ \A q \in Procs : Knows(q)'
<1>1. KeyHolds(k)
  BY DEF Accounted
<1>2. NobodyRuns(k) => NobodyRuns(k)'
  BY DEF NobodyRuns, Runs
<1>3. \A q, r \in Procs : Runs(q, k)' /\ Runs(r, k)' => q = r
  BY <1>1 DEF KeyHolds, Runs
<1>4. KeyHolds(k)'
  BY <1>1, <1>2, <1>3 DEF KeyHolds
<1>5. ASSUME NEW q \in Procs, job'[q].pc \in KeyPcs, job'[q].key = k PROVE Knows(q)'
  <2>1. CASE q = p
    BY <2>1
  <2>2. CASE q # p
    BY <1>2, <1>5, <2>2 DEF Knows
  <2> QED
    BY <2>1, <2>2
<1> QED
  BY <1>4, <1>5, AccountOfOne

(* A reservation that gets another status by a process that then rests.     *)
LEMMA RestatedAccounted ==
  ASSUME Typed, Accounted, \A q \in Procs : Knows(q), Typed', NEW p \in Procs, NEW k \in Keys,
         UNCHANGED <<charged, late>>, \A i \in Keys : i # k => res'[i] = res[i],
         \A q \in Procs : q # p => job'[q] = job[q],
         job'[p].pc \notin KeyPcs \/ (job'[p].pc = "marking" /\ job'[p].key = k),
         res[k].status # "absent",
         \/ res'[k] = res[k]
         \/ res'[k].status = "pending"
         \/ res'[k].status = "released" /\ charged[k] = 0 /\ k \notin late /\ NobodyRuns(k)
         \/ res'[k].status = "settled" /\ charged[k] > 0 /\ res'[k].settled = charged[k]
  PROVE  Accounted' /\ \A q \in Procs : Knows(q)'
<1>1. KeyHolds(k)
  BY DEF Accounted
<1>2. NobodyRuns(k) => NobodyRuns(k)'
  BY DEF NobodyRuns, Runs, KeyPcs
<1>3. \A q, r \in Procs : Runs(q, k)' /\ Runs(r, k)' => q = r
  BY <1>1 DEF KeyHolds, Runs, KeyPcs
<1>4. KeyHolds(k)'
  <2>1. CASE res'[k] = res[k]
    BY <1>1, <1>2, <1>3, <2>1 DEF KeyHolds
  <2>2. CASE res'[k].status = "pending"
    BY <1>1, <1>2, <1>3, <2>2 DEF KeyHolds
  <2>3. CASE res'[k].status = "released" /\ charged[k] = 0 /\ k \notin late /\ NobodyRuns(k)
    BY <1>1, <1>2, <1>3, <2>3 DEF KeyHolds
  <2>4. CASE res'[k].status = "settled" /\ charged[k] > 0 /\ res'[k].settled = charged[k]
    BY <1>1, <1>2, <1>3, <2>4 DEF KeyHolds
  <2> QED
    BY <2>1, <2>2, <2>3, <2>4
<1>5. ASSUME NEW q \in Procs, job'[q].pc \in KeyPcs, job'[q].key = k PROVE Knows(q)'
  <2>1. CASE q = p
    BY <1>5, <2>1 DEF Knows
  <2>2. CASE q # p
    BY <1>2, <1>5, <2>2 DEF Knows
  <2> QED
    BY <2>1, <2>2
<1> QED
  BY <1>4, <1>5, AccountOfOne

(* The steps that only move a process on.                                   *)
LEMMA MovesAccounted ==
  ASSUME Typed, Accounted, \A q \in Procs : Knows(q), Typed', NEW p \in Procs, Moves(p)
  PROVE  Accounted' /\ \A q \in Procs : Knows(q)'
<1>0. /\ UNCHANGED <<res, charged>> /\ \A q \in Procs : q # p => job'[q] = job[q]
      /\ job'[p] \in Jobs /\ job[p] \in Jobs
  BY MovesKeep, MovesTyped DEF ledger, Typed
<1>1. CASE RunReturns(p)
  <2>1. PICK k \in Keys : k = job[p].key
    BY <1>1, JobFacts DEF RunReturns, KeyPcs
  <2>2. /\ job[p].pc = "running" /\ job[p].done /\ late' = late
        /\ res[k].status # "absent" /\ charged[k] > 0
    BY <1>1, <2>1, KeyInUse DEF RunReturns, KeyPcs, Knows, world
  <2>3. \/ job'[p].pc = "idle"
        \/ job'[p].pc = "settling" /\ job'[p].key = k /\ job'[p].amount = charged[k]
    BY <1>1, <2>1 DEF RunReturns, Ends, Idle, Typed, Jobs
  <2>4. Knows(p)'
    BY <1>0, <2>2, <2>3 DEF Knows
  <2> QED
    BY <1>0, <2>2, <2>3, <2>4, KnowledgeAccounted DEF KeyPcs
<1>2. CASE RunRefused(p)
  <2>1. PICK k \in Keys : k = job[p].key
    BY <1>2, JobFacts DEF RunRefused, KeyPcs
  <2>2. /\ job[p].pc = "running" /\ late' = late /\ Runs(p, k) /\ KeyHolds(k)
        /\ res[k].status # "absent" /\ charged[k] = 0
    BY <1>2, <2>1, KeyInUse DEF RunRefused, KeyPcs, Knows, world, Runs, Accounted
  <2>3. job'[p].pc = "releasing" /\ job'[p].key = k
    BY <1>2, <2>1 DEF RunRefused, Goes, Typed, Jobs
  <2>4. k \notin late /\ NobodyRuns(k)'
    BY <1>0, <2>2, <2>3 DEF KeyHolds, NobodyRuns, Runs
  <2>5. Knows(p)'
    BY <1>0, <2>2, <2>3, <2>4 DEF Knows
  <2> QED
    BY <1>0, <2>2, <2>3, <2>5, KnowledgeAccounted
<1>3. CASE RunUnknown(p)
  <2>1. /\ job[p].pc = "running" /\ late' = late \cup Abandoned(p)
        /\ job'[p].pc = "marking" /\ job'[p].key = job[p].key
    BY <1>3 DEF RunUnknown, Goes, Typed, Jobs
  <2> QED
    BY <1>0, <2>1, LeftAccounted
<1>4. CASE Crash(p)
  BY <1>0, <1>4, LeftAccounted DEF Crash, Ends, Idle, Typed
<1>5. CASE ReadBack(p)
  <2>1. PICK k \in Keys :
          /\ res[k].status # "absent" /\ charged[k] > 0
          /\ job' = [job EXCEPT ![p] = [Idle EXCEPT !.pc = "settling", !.key = k, !.amount = charged[k]]]
    BY <1>5 DEF ReadBack, Reserved
  <2>2. /\ job'[p].pc = "settling" /\ job'[p].key = k /\ job'[p].amount = charged[k]
        /\ late' = late
    BY <1>5, <2>1 DEF ReadBack, world, Typed, Idle
  <2>3. Knows(p)'
    BY <1>0, <2>1, <2>2 DEF Knows
  <2> QED
    BY <1>0, <2>1, <2>2, <2>3, KnowledgeAccounted
<1>6. CASE ReconcileAbsent(p)
  <2>1. PICK k \in Keys :
          /\ res[k].status = "pending" /\ ProvedAbsent(k)
          /\ job' = [job EXCEPT ![p] = [Idle EXCEPT !.pc = "absent", !.key = k]]
    BY <1>6 DEF ReconcileAbsent
  <2>2. /\ job'[p].pc = "absent" /\ job'[p].key = k /\ late' = late \ {k}
        /\ charged[k] = 0 /\ NobodyRuns(k)
    BY <2>1 DEF ProvedAbsent, Typed, Idle, NobodyRuns, Runs
  <2>3. NobodyRuns(k)'
    BY <1>0, <2>2 DEF NobodyRuns, Runs
  <2>4. Knows(p)'
    BY <1>0, <2>2, <2>3 DEF Knows
  <2> QED
    BY <1>0, <2>1, <2>2, <2>4, KnowledgeAccounted
<1>7. CASE AutoPause(p) \/ ProcessPause(p) \/ ReadPause(p)
  <2>1. late' = late
    BY <1>7 DEF AutoPause, ProcessPause, ReadPause, world
  <2>2. CASE AutoPause(p)
    <3>1. PICK g \in grants :
            LET known == {res[k].request.campaign : k \in {q \in Of(g) : res[q].status # "released"}} IN
              job' = [job EXCEPT ![p] = [Idle EXCEPT !.pc = "halting", !.grant = g,
                                           !.targets = IF known = {} THEN {None} ELSE known]]
      BY <2>2 DEF AutoPause
    <3> DEFINE known == {res[k].request.campaign : k \in {q \in Of(g) : res[q].status # "released"}}
               targets == IF known = {} THEN {None} ELSE known
    <3>2. job' = [job EXCEPT ![p] = [Idle EXCEPT !.pc = "halting", !.grant = g, !.targets = targets]]
      BY <3>1
    <3> HIDE DEF targets
    <3>3. job'[p].pc = "halting"
      BY <3>2 DEF Typed, Idle
    <3> QED
      BY <1>0, <2>1, <3>3, AccountOfNone DEF KeyPcs
  <2>3. CASE ProcessPause(p)
    <3>1. job'[p].pc = "planned"
      BY <2>3 DEF ProcessPause, Typed, Idle
    <3> QED
      BY <1>0, <2>1, <3>1, AccountOfNone DEF KeyPcs
  <2>4. CASE ReadPause(p)
    <3>1. job'[p].pc = "persisting"
      BY <2>4 DEF ReadPause, Typed, Jobs
    <3> QED
      BY <1>0, <2>1, <3>1, AccountOfNone DEF KeyPcs
  <2> QED
    BY <1>7, <2>2, <2>3, <2>4
<1> QED
  BY <1>1, <1>2, <1>3, <1>4, <1>5, <1>6, <1>7 DEF Moves

(* A reservation that is given back had not been spent; one that is settled *)
(* is settled at what was spent.                                            *)
LEMMA StatusAccounted ==
  ASSUME Typed, Accounted, \A q \in Procs : Knows(q), Typed', NEW p \in Procs,
         Release(p) \/ MarkPending(p) \/ ReleaseAbsent(p) \/ Settle(p) \/ SettleThrows(p)
  PROVE  Accounted' /\ \A q \in Procs : Knows(q)'
<1>1. /\ job[p].pc \in {"releasing", "marking", "absent", "settling"} /\ UNCHANGED <<charged, late>>
  BY DEF Release, MarkPending, ReleaseAbsent, Settle, SettleThrows, world
<1>2. PICK k \in Keys : k = job[p].key
  BY <1>1, JobFacts DEF KeyPcs
<1>3. res[k].status # "absent" /\ Knows(p) /\ job[p].pc \in KeyPcs
  BY <1>1, <1>2, KeyInUse DEF KeyPcs
<1>4. CASE Release(p) \/ MarkPending(p) \/ ReleaseAbsent(p)
  <2>1. UNCHANGED grants /\ Ends(p)
    BY <1>4 DEF Release, MarkPending, ReleaseAbsent
  <2>2. /\ \A q \in Procs : q # p => job'[q] = job[q]
        /\ job'[p].pc = "idle"
    BY <2>1, JobEnds
  <2>3. PICK before \in {"held", "pending"}, after \in {"pending", "released"} :
          /\ Restates(p, before, after)
          /\ after = "released" => job[p].pc \in {"releasing", "absent"}
    BY <1>4 DEF Release, MarkPending, ReleaseAbsent, UnknownStatus, Restates
  <2>4. before \in Statuses \ {"absent"} /\ after \in Statuses \ {"absent"}
    BY DEF Statuses
  <2>5. /\ \A i \in Keys : i # k => res'[i] = res[i]
        /\ res'[k] = res[k] \/ res'[k].status = after
    BY <1>2, <1>3, <2>1, <2>3, <2>4, RestatesWell
  <2>6. after = "released" => charged[k] = 0 /\ k \notin late /\ NobodyRuns(k)
    BY <1>2, <1>3, <2>3 DEF Knows
  <2> QED
    BY <1>1, <1>3, <2>2, <2>5, <2>6, RestatedAccounted DEF KeyPcs
<1>5. CASE Settle(p) \/ SettleThrows(p)
  <2>1. job[p].pc = "settling" /\ (Settles(p) \/ UNCHANGED ledger)
    BY <1>5 DEF Settle, SettleThrows
  <2>2. /\ UNCHANGED grants /\ \A i \in Keys : i # k => res'[i] = res[i]
        /\ \/ res'[k] = res[k]
           \/ res'[k].status = "settled" /\ res'[k].settled = job[p].amount
    BY <1>2, <2>1, SettlesWell
  <2>3. charged[k] > 0 /\ job[p].amount = charged[k]
    BY <1>2, <1>3, <2>1 DEF Knows
  <2>4. /\ \A q \in Procs : q # p => job'[q] = job[q]
        /\ job'[p].pc = "idle" \/ (job'[p].pc = "marking" /\ job'[p].key = k)
    BY <1>2, <1>5, <2>2, JobEnds, ThrowsFacts DEF Settle
  <2>5. job'[p].pc \notin KeyPcs \/ (job'[p].pc = "marking" /\ job'[p].key = k)
    BY <2>4 DEF KeyPcs
  <2> QED
    BY <1>1, <1>3, <2>2, <2>3, <2>4, <2>5, RestatedAccounted
<1> QED
  BY <1>4, <1>5

(* The account through every step.                                          *)
LEMMA AccountStep ==
  ASSUME Typed, Accounted, \A q \in Procs : Knows(q), [Next]_vars
  PROVE  Accounted' /\ \A q \in Procs : Knows(q)'
<1>0. Typed'
  BY TypedStep
<1>1. CASE \E p \in Procs : Step(p)
  <2>1. PICK p \in Procs : Step(p)
    BY <1>1
  <2>2. CASE HaltAndQueue(p) \/ PauseUnready(p) \/ Claim(p) \/ ApplyAnswers(p) \/ PersistRead(p)
    <3>1. UNCHANGED <<grants, res, charged, late>>
      BY <2>2 DEF HaltAndQueue, PauseUnready, Claim, ApplyAnswers, PersistRead, world
    <3>2. /\ \A q \in Procs : q # p => job'[q] = job[q]
          /\ job'[p].pc \notin KeyPcs
      <4>1. CASE HaltAndQueue(p) \/ PersistRead(p)
        BY <3>1, <4>1, JobEnds DEF HaltAndQueue, PersistRead, KeyPcs
      <4>2. CASE Claim(p)
        BY <4>2, ClaimFacts
      <4>3. CASE PauseUnready(p) \/ ApplyAnswers(p)
        BY <4>3, AnswerFacts
      <4> QED
        BY <2>2, <4>1, <4>2, <4>3
    <3> QED
      BY <1>0, <3>1, <3>2, AccountOfNone
  <2>3. CASE Moves(p)
    BY <1>0, <2>3, MovesAccounted
  <2>4. CASE Release(p) \/ MarkPending(p) \/ ReleaseAbsent(p) \/ Settle(p) \/ SettleThrows(p)
    BY <1>0, <2>4, StatusAccounted
  <2> QED
    BY <1>0, <2>1, <2>2, <2>3, <2>4, ReserveAccounted, SpendingAccounted DEF Step, Moves
<1>2. CASE \E k \in Keys : LateSpending(k)
  BY <1>0, <1>2, LateAccounted
<1>3. CASE \/ \E g \in Grants : RegisterGrant(g) \/ Halt(g)
           \/ \E g \in Grants, t \in Campaigns : ProviderPauses(g, t)
           \/ UNCHANGED vars
  <2>1. UNCHANGED <<res, charged, late, job>>
    BY <1>3 DEF RegisterGrant, Halt, ProviderPauses, vars, ledger, world
  <2> QED
    BY <1>0, <2>1, AccountOfNone
<1> QED
  BY <1>1, <1>2, <1>3 DEF Next
-----------------------------------------------------------------------------
(* Overspends.                                                              *)

(* A halt and an incident stay, so only a new settlement could be missed.   *)
LEMMA OverspendKept ==
  ASSUME Typed, OverspendHalts, Typed', halted \subseteq halted',
         \A g \in Grants, t \in Targets : pauses[g][t].incidents \subseteq pauses'[g][t].incidents,
         \A k \in Keys : res'[k].status = "settled" =>
           \/ res'[k] = res[k]
           \/ res'[k].settled > res'[k].request.amount =>
                /\ res'[k].request.grant \in halted'
                /\ k \in pauses'[res'[k].request.grant][res'[k].request.campaign].incidents
  PROVE  OverspendHalts'
<1> SUFFICES ASSUME NEW k \in Keys, res'[k].status # "absent", Excess(k)' > 0
             PROVE  /\ res'[k].request.grant \in halted'
                    /\ k \in pauses'[res'[k].request.grant][res'[k].request.campaign].incidents
  BY DEF OverspendHalts, Reserved
<1>1. res'[k].status = "settled" /\ res'[k].settled > res'[k].request.amount
  BY DEF Excess
<1>2. CASE res'[k] = res[k]
  <2>1. /\ res[k].status = "settled" /\ res[k].settled > res[k].request.amount
        /\ res[k].request.amount \in Nat /\ res[k].settled \in Nat
        /\ res[k].request.grant \in Grants /\ res[k].request.campaign \in Targets
    BY <1>1, <1>2, KeyFacts
  <2>2. k \in Reserved /\ Excess(k) > 0
    BY <2>1 DEF Reserved, Excess
  <2>3. /\ res[k].request.grant \in halted
        /\ k \in pauses[res[k].request.grant][res[k].request.campaign].incidents
    BY <2>2 DEF OverspendHalts
  <2> QED
    BY <1>2, <2>1, <2>3
<1>3. CASE res'[k].settled > res'[k].request.amount =>
             /\ res'[k].request.grant \in halted'
             /\ k \in pauses'[res'[k].request.grant][res'[k].request.campaign].incidents
  BY <1>1, <1>3
<1> QED
  BY <1>1, <1>2, <1>3

(* An overspend halts through every step.                                   *)
LEMMA OverspendStep ==
  ASSUME Typed, Accounted, OverspendHalts, [Next]_vars
  PROVE  OverspendHalts'
<1>0. Typed'
  BY TypedStep
<1>1. ASSUME NEW p \in Procs, Settle(p) \/ SettleThrows(p) PROVE OverspendHalts'
  <2>1. job[p].pc = "settling" /\ (Settles(p) \/ UNCHANGED ledger)
    BY <1>1 DEF Settle, SettleThrows
  <2>2. /\ halted \subseteq halted'
        /\ \A g \in Grants, t \in Targets : pauses[g][t].incidents \subseteq pauses'[g][t].incidents
        /\ \A k \in Keys : res'[k].status = "settled" =>
             \/ res'[k] = res[k]
             \/ res'[k].settled > res'[k].request.amount =>
                  /\ res'[k].request.grant \in halted'
                  /\ k \in pauses'[res'[k].request.grant][res'[k].request.campaign].incidents
    <3>1. /\ halted \subseteq halted'
          /\ \A g \in Grants, t \in Targets : pauses[g][t].incidents \subseteq pauses'[g][t].incidents
          /\ \A k \in Keys : k # job[p].key => res'[k] = res[k]
      BY <2>1, SettlesWell
    <3>2. \/ res'[job[p].key] = res[job[p].key]
          \/ /\ res'[job[p].key].settled = job[p].amount
             /\ res'[job[p].key].request = res[job[p].key].request
             /\ job[p].amount > res[job[p].key].request.amount =>
                  /\ res[job[p].key].request.grant \in halted'
                  /\ job[p].key \in pauses'[res[job[p].key].request.grant]
                                            [res[job[p].key].request.campaign].incidents
      BY <2>1, SettlesWell
    <3>3. ASSUME NEW k \in Keys
          PROVE  \/ res'[k] = res[k]
                 \/ res'[k].settled > res'[k].request.amount =>
                      /\ res'[k].request.grant \in halted'
                      /\ k \in pauses'[res'[k].request.grant][res'[k].request.campaign].incidents
      <4>1. CASE k # job[p].key
        BY <3>1, <4>1
      <4>2. CASE k = job[p].key
        BY <3>2, <4>2
      <4> QED
        BY <4>1, <4>2
    <3> QED
      BY <3>1, <3>3
  <2> QED
    BY <1>0, <2>2, OverspendKept
<1>2. ASSUME NEW p \in Procs, HaltAndQueue(p) PROVE OverspendHalts'
  <2>1. UNCHANGED res /\ halted \subseteq halted'
    BY <1>2 DEF HaltAndQueue
  <2>2. \A g \in Grants, t \in Targets : pauses[g][t].incidents \subseteq pauses'[g][t].incidents
    BY <1>2, QueuesWell
  <2> QED
    BY <1>0, <2>1, <2>2, OverspendKept
<1>3. ASSUME NEW p \in Procs, Claim(p) PROVE OverspendHalts'
  <2>1. UNCHANGED <<res, halted>>
    BY <1>3 DEF Claim
  <2>2. \A g \in Grants, t \in Targets : pauses[g][t].incidents \subseteq pauses'[g][t].incidents
    BY <1>3, ClaimFacts
  <2> QED
    BY <1>0, <2>1, <2>2, OverspendKept
<1>4. ASSUME NEW p \in Procs, PauseUnready(p) \/ ApplyAnswers(p) \/ PersistRead(p)
      PROVE  OverspendHalts'
  <2>1. UNCHANGED <<res, halted>> /\ job[p].pc \in PausePcs
    BY <1>4 DEF PauseUnready, ApplyAnswers, PersistRead, PausePcs
  <2>2. \E state \in PauseStates : Persists(p, state)
    BY <1>4, AnswerFacts, JobFacts DEF PersistRead
  <2>3. \A g \in Grants, t \in Targets : pauses[g][t].incidents \subseteq pauses'[g][t].incidents
    BY <2>1, <2>2, PersistsWell
  <2> QED
    BY <1>0, <2>1, <2>3, OverspendKept
<1>5. ASSUME NEW p \in Procs, Reserve(p) PROVE OverspendHalts'
  <2>1. UNCHANGED <<pauses, halted>>
    BY <1>5 DEF Reserve
  <2>2. \A k \in Keys : res'[k].status = "settled" => res'[k] = res[k]
    BY <1>5, ReserveFacts
  <2> QED
    BY <1>0, <2>1, <2>2, OverspendKept
<1>6. ASSUME NEW p \in Procs, Release(p) \/ MarkPending(p) \/ ReleaseAbsent(p) PROVE OverspendHalts'
  <2>1. UNCHANGED <<grants, pauses, halted>> /\ job[p].pc \in KeyPcs
    BY <1>6 DEF Release, MarkPending, ReleaseAbsent, KeyPcs
  <2>2. PICK before \in Statuses \ {"absent"}, after \in Statuses \ {"absent", "settled"} :
          Restates(p, before, after)
    BY <1>6 DEF Release, MarkPending, ReleaseAbsent, UnknownStatus, Restates, Statuses
  <2>3. \A k \in Keys : res'[k].status = "settled" => res'[k] = res[k]
    BY <2>1, <2>2, RestatesWell
  <2> QED
    BY <1>0, <2>1, <2>3, OverspendKept
<1>7. CASE \/ \E p \in Procs : Moves(p) \/ ProviderSpends(p)
           \/ \E k \in Keys : LateSpending(k)
           \/ \E g \in Grants : RegisterGrant(g) \/ Halt(g)
           \/ \E g \in Grants, t \in Campaigns : ProviderPauses(g, t)
           \/ UNCHANGED vars
  <2>1. UNCHANGED <<res, pauses>> /\ halted \subseteq halted'
    BY <1>7, MovesKeep DEF ProviderSpends, LateSpending, RegisterGrant, Halt, ProviderPauses, vars,
                           ledger
  <2> QED
    BY <1>0, <2>1, OverspendKept
<1> QED
  BY <1>1, <1>2, <1>3, <1>4, <1>5, <1>6, <1>7 DEF Next, Step, Moves
-----------------------------------------------------------------------------
(* Pauses.                                                                  *)

(* Nothing but a first claim sends a request, and a verification is written *)
(* for what the provider was seen to have done.                             *)
LEMMA PausesKept ==
  ASSUME Typed, PausesHold, Typed', paused \subseteq paused',
         \A g \in Grants, t \in Targets :
           /\ pauses'[g][t].state = "verified" => pauses[g][t].state = "verified" \/ <<g, t>> \in paused'
           /\ \/ pauses'[g][t].tried = pauses[g][t].tried /\ asked'[g][t] = asked[g][t]
              \/ /\ ~pauses[g][t].tried /\ pauses'[g][t].tried
                 /\ asked'[g][t] = asked[g][t] + 1,
         \A p \in Procs :
           \/ job'[p] = job[p]
           \/ job'[p].pc # "persisting"
           \/ job'[p].state = "verified" => <<job'[p].grant, Target(p)'>> \in paused'
  PROVE  PausesHold'
<1>1. ASSUME NEW g \in Grants, NEW t \in Targets
      PROVE  (/\ asked[g][t] <= 1 /\ (~pauses[g][t].tried => asked[g][t] = 0)
              /\ pauses[g][t].state = "verified" => <<g, t>> \in paused)'
  <2>1. /\ asked[g][t] <= 1 /\ (~pauses[g][t].tried => asked[g][t] = 0)
        /\ pauses[g][t].state = "verified" => <<g, t>> \in paused
    BY DEF PausesHold
  <2>2. CASE pauses'[g][t].tried = pauses[g][t].tried /\ asked'[g][t] = asked[g][t]
    BY <2>1, <2>2
  <2>3. CASE ~pauses[g][t].tried /\ pauses'[g][t].tried /\ asked'[g][t] = asked[g][t] + 1
    BY <2>1, <2>3
  <2> QED
    BY <2>2, <2>3
<1>2. ASSUME NEW p \in Procs, job'[p].pc = "persisting", job'[p].state = "verified"
      PROVE  <<job'[p].grant, Target(p)'>> \in paused'
  <2>1. CASE job'[p] = job[p]
    BY <1>2, <2>1 DEF PausesHold, Target
  <2> QED
    BY <1>2, <2>1
<1> QED
  BY <1>1, <1>2 DEF PausesHold

(* Only a process that read a pause has something to write about it.        *)
LEMMA MoveEnds ==
  ASSUME Typed, NEW p \in Procs, Moves(p), ~ReadPause(p)
  PROVE  job'[p].pc # "persisting"
<1>1. CASE RunReturns(p) \/ Crash(p)
  BY <1>1 DEF RunReturns, Crash, Ends, Idle, Typed, Jobs
<1>2. CASE RunRefused(p) \/ RunUnknown(p)
  BY <1>2 DEF RunRefused, RunUnknown, Goes, Typed, Jobs
<1>3. CASE ReadBack(p) \/ ReconcileAbsent(p) \/ ProcessPause(p)
  BY <1>3 DEF ReadBack, ReconcileAbsent, ProcessPause, Typed, Idle
<1>4. CASE AutoPause(p)
  <2>1. PICK g \in grants :
          LET known == {res[k].request.campaign : k \in {q \in Of(g) : res[q].status # "released"}} IN
            job' = [job EXCEPT ![p] = [Idle EXCEPT !.pc = "halting", !.grant = g,
                                         !.targets = IF known = {} THEN {None} ELSE known]]
    BY <1>4 DEF AutoPause
  <2> DEFINE known == {res[k].request.campaign : k \in {q \in Of(g) : res[q].status # "released"}}
             targets == IF known = {} THEN {None} ELSE known
  <2>2. job' = [job EXCEPT ![p] = [Idle EXCEPT !.pc = "halting", !.grant = g, !.targets = targets]]
    BY <2>1
  <2> HIDE DEF targets
  <2> QED
    BY <2>2 DEF Typed, Idle
<1> QED
  BY <1>1, <1>2, <1>3, <1>4 DEF Moves

(* The pauses through every step.                                           *)
LEMMA PausesStep ==
  ASSUME Typed, Accounted, PausesHold, [Next]_vars
  PROVE  PausesHold'
<1>0. Typed'
  BY TypedStep
<1>1. ASSUME NEW p \in Procs, Settle(p) \/ SettleThrows(p) PROVE PausesHold'
  <2>1. job[p].pc = "settling" /\ (Settles(p) \/ UNCHANGED ledger) /\ UNCHANGED <<asked, paused>>
    BY <1>1 DEF Settle, SettleThrows, world
  <2>2. /\ UNCHANGED grants
        /\ \A g \in Grants, t \in Targets :
             /\ pauses'[g][t].tried = pauses[g][t].tried
             /\ pauses'[g][t].state = "verified" => pauses[g][t].state = "verified"
    BY <2>1, SettlesWell
  <2>3. \A q \in Procs : job'[q] = job[q] \/ job'[q].pc # "persisting"
    BY <1>1, <2>2, JobEnds, ThrowsFacts DEF Settle
  <2> QED
    BY <1>0, <2>1, <2>2, <2>3, PausesKept
<1>2. ASSUME NEW p \in Procs, HaltAndQueue(p) PROVE PausesHold'
  <2>1. UNCHANGED <<grants, asked, paused>> /\ Ends(p)
    BY <1>2 DEF HaltAndQueue, world
  <2>2. \A g \in Grants, t \in Targets :
          /\ pauses'[g][t].tried = pauses[g][t].tried
          /\ pauses'[g][t].state = "verified" => pauses[g][t].state = "verified"
    BY <1>2, QueuesWell
  <2>3. \A q \in Procs : job'[q] = job[q] \/ job'[q].pc # "persisting"
    BY <2>1, JobEnds
  <2> QED
    BY <1>0, <2>1, <2>2, <2>3, PausesKept
<1>3. ASSUME NEW p \in Procs, Claim(p) PROVE PausesHold'
  <2>1. UNCHANGED paused
    BY <1>3 DEF Claim
  <2>2. /\ \A q \in Procs : job'[q] = job[q] \/ job'[q].pc # "persisting"
        /\ \A g \in Grants, t \in Targets :
             /\ pauses'[g][t].state = "verified" => pauses[g][t].state = "verified"
             /\ \/ pauses'[g][t].tried = pauses[g][t].tried /\ asked'[g][t] = asked[g][t]
                \/ /\ ~pauses[g][t].tried /\ pauses'[g][t].tried
                   /\ asked'[g][t] = asked[g][t] + 1
    BY <1>3, ClaimFacts
  <2> QED
    BY <1>0, <2>1, <2>2, PausesKept
<1>4. ASSUME NEW p \in Procs, PauseUnready(p) \/ ApplyAnswers(p) PROVE PausesHold'
  <2>1. UNCHANGED <<asked, paused>> /\ job[p].pc \in PausePcs
    BY <1>4 DEF PauseUnready, ApplyAnswers, PausePcs, world
  <2>2. PICK state \in PauseStates \ {"verified"} : Persists(p, state)
    BY <1>4, AnswerFacts
  <2>3. \A g \in Grants, t \in Targets :
          /\ pauses'[g][t].tried = pauses[g][t].tried
          /\ pauses'[g][t].state = "verified" => pauses[g][t].state = "verified"
    BY <2>1, <2>2, PersistsWell
  <2>4. \A q \in Procs : job'[q] = job[q] \/ job'[q].pc # "persisting"
    BY <1>4, AnswerFacts
  <2> QED
    BY <1>0, <2>1, <2>3, <2>4, PausesKept
<1>5. ASSUME NEW p \in Procs, PersistRead(p) PROVE PausesHold'
  <2>1. /\ UNCHANGED <<grants, asked, paused>> /\ Ends(p) /\ Persists(p, job[p].state)
        /\ job[p].pc = "persisting" /\ job[p].pc \in PausePcs /\ job[p].state \in PauseStates
    BY <1>5, JobFacts DEF PersistRead, world, PausePcs
  <2>2. job[p].state = "verified" => <<job[p].grant, Target(p)>> \in paused
    BY <2>1 DEF PausesHold
  <2>3. \A g \in Grants, t \in Targets :
          /\ pauses'[g][t].tried = pauses[g][t].tried
          /\ pauses'[g][t].state = "verified" => pauses[g][t].state = "verified" \/ <<g, t>> \in paused'
    BY ZenonT(60), <2>1, <2>2, PersistsWell
  <2>4. \A q \in Procs : job'[q] = job[q] \/ job'[q].pc # "persisting"
    BY <2>1, JobEnds
  <2> QED
    BY <1>0, <2>1, <2>3, <2>4, PausesKept
<1>6. ASSUME NEW p \in Procs, ReadPause(p) PROVE PausesHold'
  <2>1. UNCHANGED <<pauses, asked, paused>> /\ Moves(p)
    BY <1>6 DEF ReadPause, ledger, world, Moves
  <2>2. \A q \in Procs : q # p => job'[q] = job[q]
    BY <2>1, MovesTyped
  <2>3. PICK seen \in {"matched", "missing", "conflict", "blocked", "unknown"} :
          /\ seen = "matched" => <<job[p].grant, Target(p)>> \in paused
          /\ job' = [job EXCEPT ![p].pc = "persisting", ![p].state = ReadAs(seen, @)]
    BY <1>6 DEF ReadPause
  <2>4. /\ job'[p].state = ReadAs(seen, job[p].state)
        /\ job'[p].grant = job[p].grant /\ job'[p].targets = job[p].targets
    BY <2>3 DEF Typed, Jobs
  <2>5. Target(p)' = Target(p)
    BY <2>4 DEF Target
  <2>6. job'[p].state = "verified" => seen = "matched"
    BY <2>4 DEF ReadAs
  <2>7. job'[p].state = "verified" => <<job'[p].grant, Target(p)'>> \in paused'
    BY <2>1, <2>3, <2>4, <2>5, <2>6
  <2> QED
    BY <1>0, <2>1, <2>2, <2>7, PausesKept
<1>7. ASSUME NEW p \in Procs, Moves(p), ~ReadPause(p) PROVE PausesHold'
  <2>1. UNCHANGED <<pauses, asked, paused>>
    BY <1>7, MovesKeep DEF ledger
  <2>2. \A q \in Procs : q # p => job'[q] = job[q]
    BY <1>7, MovesTyped
  <2>3. job'[p].pc # "persisting"
    BY <1>7, MoveEnds
  <2> QED
    BY <1>0, <2>1, <2>2, <2>3, PausesKept
<1>8. ASSUME NEW p \in Procs, Reserve(p) \/ ProviderSpends(p) PROVE PausesHold'
  <2>1. UNCHANGED <<pauses, asked, paused>>
    BY <1>8 DEF Reserve, ProviderSpends, ledger, world
  <2>2. \A q \in Procs : job'[q] = job[q] \/ job'[q].pc # "persisting"
    BY <1>8, ReserveFacts, SpendingFacts
  <2> QED
    BY <1>0, <2>1, <2>2, PausesKept
<1>9. ASSUME NEW p \in Procs, Release(p) \/ MarkPending(p) \/ ReleaseAbsent(p) PROVE PausesHold'
  <2>1. UNCHANGED <<grants, pauses, asked, paused>> /\ Ends(p)
    BY <1>9 DEF Release, MarkPending, ReleaseAbsent, world
  <2>2. \A q \in Procs : job'[q] = job[q] \/ job'[q].pc # "persisting"
    BY <2>1, JobEnds
  <2> QED
    BY <1>0, <2>1, <2>2, PausesKept
<1>10. CASE \/ \E k \in Keys : LateSpending(k)
            \/ \E g \in Grants : RegisterGrant(g) \/ Halt(g)
            \/ \E g \in Grants, t \in Campaigns : ProviderPauses(g, t)
            \/ UNCHANGED vars
  <2>1. UNCHANGED <<pauses, asked, job>> /\ paused \subseteq paused'
    BY <1>10 DEF LateSpending, RegisterGrant, Halt, ProviderPauses, vars, ledger, world
  <2> QED
    BY <1>0, <2>1, PausesKept
<1> QED
  BY <1>1, <1>2, <1>3, <1>4, <1>5, <1>6, <1>7, <1>8, <1>9, <1>10 DEF Next, Step, Moves
-----------------------------------------------------------------------------
(* The caps.                                                                *)

(* A reservation takes what was promised until it is settled or given back, *)
(* and never more.                                                          *)
LEMMA TakenFacts ==
  ASSUME Typed, NEW k \in Reserved
  PROVE  /\ Counted(k) \in Int /\ Taken(k) \in Int /\ Taken(k) <= Counted(k)
         /\ Taken(k) <= res[k].request.amount
         /\ res[k].status \in {"held", "pending"} => Taken(k) = res[k].request.amount
         /\ res[k].status = "released" => Taken(k) = 0
<1>1. /\ res[k].status \in Statuses \ {"absent"} /\ res[k].settled \in Nat
      /\ res[k].request.amount \in Nat
  BY KeyFacts DEF Reserved
<1>2. CASE res[k].status \in {"held", "pending"}
  <2>1. Counted(k) = res[k].request.amount /\ Excess(k) = 0
    BY <1>2 DEF Counted, Excess
  <2> QED
    BY <1>1, <1>2, <2>1 DEF Taken
<1>3. CASE res[k].status = "released"
  <2>1. Counted(k) = 0 /\ Excess(k) = 0
    BY <1>3 DEF Counted, Excess
  <2> QED
    BY <1>1, <1>3, <2>1 DEF Taken
<1>4. CASE res[k].status = "settled"
  <2>1. /\ Counted(k) = res[k].settled
        /\ Excess(k) = IF res[k].settled > res[k].request.amount
                         THEN res[k].settled - res[k].request.amount ELSE 0
    BY <1>4 DEF Counted, Excess
  <2>2. CASE res[k].settled > res[k].request.amount
    BY <1>1, <1>4, <2>1, <2>2 DEF Taken
  <2>3. CASE ~(res[k].settled > res[k].request.amount)
    BY <1>1, <1>4, <2>1, <2>3 DEF Taken
  <2> QED
    BY <2>2, <2>3
<1> QED
  BY <1>1, <1>2, <1>3, <1>4 DEF Statuses

(* So in the next state.                                                    *)
LEMMA TakenNext ==
  (Typed => \A k \in Reserved : Taken(k) \in Int /\ Taken(k) <= res[k].request.amount)'
<1>1. Typed => \A k \in Reserved : Taken(k) \in Int /\ Taken(k) <= res[k].request.amount
  BY TakenFacts
<1> QED
  BY <1>1, PTL

(* What is approved is no more than what the caps are checked against.      *)
LEMMA ApprovedConsumed ==
  ASSUME Typed, NEW S \in SUBSET Reserved, IsFiniteSet(S)
  PROVE  /\ Approved(S) \in Int /\ Consumed(S) \in Int /\ Approved(S) <= Consumed(S)
<1> DEFINE f == [k \in Keys |-> Counted(k) - Excess(k)]
           e == [k \in Keys |-> Counted(k)]
<1>1. \A k \in S : f[k] \in Int /\ e[k] \in Int /\ f[k] <= e[k]
  BY TakenFacts DEF Taken, Reserved
<1>2. Approved(S) = SumFunctionOnSet(f, S) /\ Consumed(S) = SumFunctionOnSet(e, S)
  BY DEF Approved, Consumed
<1> HIDE DEF f, e
<1> QED
  BY <1>1, <1>2, SumInt, SumMonotone

(* Reservations that take no more than before take no more together.        *)
LEMMA ApprovedFalls ==
  ASSUME Typed, Typed', NEW S, IsFiniteSet(S), S \subseteq Reserved, S \subseteq Reserved',
         \A k \in S : Taken(k)' <= Taken(k)
  PROVE  /\ Approved(S)' \in Int /\ Approved(S) \in Int /\ Approved(S)' <= Approved(S)
<1> DEFINE f == [k \in Keys |-> Counted(k) - Excess(k)]
           fn == [k \in Keys |-> Counted(k)' - Excess(k)']
<1>1. \A k \in S : k \in Keys
  BY DEF Reserved
<1>2. ASSUME NEW k \in S PROVE f[k] = Taken(k) /\ fn[k] = Taken(k)'
  BY <1>1 DEF Taken
<1>3. ASSUME NEW k \in S PROVE Taken(k) \in Int /\ Taken(k)' \in Int
  BY TakenFacts, TakenNext
<1>4. SumFunctionOnSet(f, S) = Approved(S)
  BY DEF Approved
<1>5. SumFunctionOnSet(fn, S) = Approved(S)'
  BY DEF Approved
<1>6. \A k \in S : f[k] \in Int /\ fn[k] \in Int /\ fn[k] <= f[k]
  BY <1>2, <1>3
<1> HIDE DEF f, fn
<1> QED
  BY <1>4, <1>5, <1>6, SumInt, SumMonotone

(* The caps hold when no reservation is made and none takes more: what a    *)
(* grant reserved, it reserved while it was registered.                     *)
LEMMA BudgetKept ==
  ASSUME Typed, Typed', Budgeted,
         \A k \in Keys : /\ res'[k].status = "absent" <=> res[k].status = "absent"
                         /\ res'[k].request = res[k].request,
         \A k \in Reserved : Taken(k)' <= Taken(k)
  PROVE  Budgeted'
<1>1. Reserved' = Reserved
  BY DEF Reserved
<1>2. IsFiniteSet(Reserved)'
  BY <1>1 DEF Budgeted
<1>3. ASSUME NEW g \in grants', Of(g)' # {}
      PROVE  Approved(Of(g))' <= Total[g] /\ Approved(Reserved)' <= Ceiling[g]
  <2>1. Of(g)' = Of(g) /\ Of(g) \subseteq Reserved
    BY <1>1 DEF Of, Reserved
  <2>2. PICK k \in Of(g) : TRUE
    BY <1>3, <2>1
  <2>3. g \in grants /\ g \in Grants
    BY <2>2, KeyFacts DEF Of, Reserved
  <2>4. Approved(Of(g)) <= Total[g] /\ Approved(Reserved) <= Ceiling[g]
    BY <1>3, <2>1, <2>3 DEF Budgeted, WithinBudget
  <2>5. PICK S : S = Of(g)
    OBVIOUS
  <2>6. PICK R : R = Reserved
    OBVIOUS
  <2>7. IsFiniteSet(R) /\ IsFiniteSet(S)
    BY <2>1, <2>5, <2>6, FS_Subset DEF Budgeted
  <2>8. Approved(S)' \in Int /\ Approved(S) \in Int /\ Approved(S)' <= Approved(S)
    BY <1>1, <2>1, <2>5, <2>7, ApprovedFalls
  <2>9. Approved(R)' \in Int /\ Approved(R) \in Int /\ Approved(R)' <= Approved(R)
    BY <1>1, <2>6, <2>7, ApprovedFalls
  <2>10. /\ Approved(Of(g)) = Approved(S) /\ Approved(Reserved) = Approved(R)
         /\ Approved(Of(g))' = Approved(S)' /\ Approved(Reserved)' = Approved(R)'
    <3>1. Of(g)' = S /\ Reserved' = R
      BY <1>1, <2>1, <2>5, <2>6
    <3> QED
      BY <2>5, <2>6, <3>1 DEF Approved
  <2>11. Total[g] \in Int /\ Ceiling[g] \in Int
    BY <2>3, SpendAssumption
  <2> QED
    BY <2>4, <2>8, <2>9, <2>10, <2>11
<1> QED
  BY <1>2, <1>3 DEF Budgeted, WithinBudget

(* A new reservation adds its amount to what was approved.                  *)
LEMMA ApprovedGrows ==
  ASSUME Typed, Typed', NEW S, IsFiniteSet(S), S \subseteq Reserved, NEW k \in Keys, k \notin S,
         k \in Reserved', \A i \in S : res'[i] = res[i], res'[k].status = "held"
  PROVE  Approved(S \cup {k})' = Approved(S) + res'[k].request.amount /\ Approved(S) \in Int
<1> DEFINE f == [i \in Keys |-> Counted(i) - Excess(i)]
           fn == [i \in Keys |-> Counted(i)' - Excess(i)']
           T == S \cup {k}
<1>1. \A i \in T : i \in Keys
  BY DEF Reserved
<1>2. ASSUME NEW i \in S PROVE fn[i] = f[i] /\ f[i] \in Int
  <2>1. Counted(i)' = Counted(i) /\ Excess(i)' = Excess(i)
    BY <1>2 DEF Counted, Excess
  <2>2. f[i] = Taken(i) /\ fn[i] = f[i]
    BY <1>1, <2>1 DEF Taken
  <2>3. Taken(i) \in Int
    BY TakenFacts
  <2> QED
    BY <2>2, <2>3
<1>3. fn[k] = res'[k].request.amount /\ res'[k].request.amount \in Nat
  <2>1. Counted(k)' = res'[k].request.amount /\ Excess(k)' = 0
    BY DEF Counted, Excess
  <2>2. res'[k].request.amount \in Nat
    BY SpendAssumption DEF Typed, Filled, Requests
  <2> QED
    BY <2>1, <2>2
<1>4. SumFunctionOnSet(f, S) = Approved(S)
  BY DEF Approved
<1>5. SumFunctionOnSet(fn, T) = Approved(T)'
  BY DEF Approved
<1> HIDE DEF f, fn
<1>6. IsFiniteSet(T) /\ T \ {k} = S /\ \A i \in T : fn[i] \in Int
  <2>1. IsFiniteSet(T)
    BY FS_AddElement
  <2>2. \A i \in T : fn[i] \in Int
    BY <1>2, <1>3
  <2> QED
    BY <2>1, <2>2
<1>7. SumFunctionOnSet(fn, S) = SumFunctionOnSet(f, S) /\ SumFunctionOnSet(f, S) \in Int
  BY <1>2, SumAgrees, SumInt
<1>8. SumFunctionOnSet(fn, T) = fn[k] + SumFunctionOnSet(fn, S)
  BY <1>6, SumWithout
<1> QED
  BY <1>3, <1>4, <1>5, <1>7, <1>8

(* A reservation is made when every cap holds it beside what is consumed.   *)
LEMMA ReserveBudgeted ==
  ASSUME Typed, Typed', Budgeted, NEW p \in Procs, Reserve(p)
  PROVE  Budgeted'
<1>1. PICK k \in Keys : \E r \in RequestsOf[k] :
        /\ Verdict(k, r) = "created"
        /\ res' = [res EXCEPT ![k] = [status |-> "held", request |-> r, settled |-> 0]]
  BY DEF Reserve
<1>2. PICK r \in RequestsOf[k] :
        /\ Verdict(k, r) = "created"
        /\ res' = [res EXCEPT ![k] = [status |-> "held", request |-> r, settled |-> 0]]
  BY <1>1
<1>3. /\ res[k].status = "absent" /\ WithinCaps(r) /\ UNCHANGED grants
      /\ r.amount \in Nat
  BY <1>2, SpendAssumption DEF Verdict, Reserve, Requests
<1>4. /\ res'[k].status = "held" /\ res'[k].request = r
      /\ \A i \in Keys : i # k => res'[i] = res[i]
  BY <1>2 DEF Typed
<1>5. Reserved' = Reserved \cup {k} /\ k \notin Reserved
  BY <1>3, <1>4 DEF Reserved
<1>6. IsFiniteSet(Reserved) /\ IsFiniteSet(Reserved)'
  BY <1>5, FS_AddElement DEF Budgeted
<1>7. ASSUME NEW S, S \subseteq Reserved
      PROVE  /\ Approved(S \cup {k})' = Approved(S) + r.amount
             /\ Approved(S) \in Int /\ Consumed(S) \in Int /\ Approved(S) <= Consumed(S)
  <2>1. IsFiniteSet(S) /\ k \notin S
    BY <1>5, <1>6, <1>7, FS_Subset
  <2>2. \A i \in S : res'[i] = res[i]
    BY <1>4, <1>7, <2>1 DEF Reserved
  <2>3. k \in Reserved'
    BY <1>5
  <2>4. Approved(S \cup {k})' = Approved(S) + r.amount /\ Approved(S) \in Int
    BY <1>4, <1>7, <2>1, <2>2, <2>3, ApprovedGrows
  <2> QED
    BY <1>7, <2>1, <2>4, ApprovedConsumed
<1>8. PICK R : R = Reserved
  OBVIOUS
<1>9. ASSUME NEW g \in grants, Of(g)' # {}
      PROVE  Approved(Reserved)' <= Ceiling[g]
  <2>1. /\ Approved(R \cup {k})' = Approved(R) + r.amount
        /\ Approved(R) \in Int /\ Consumed(R) \in Int /\ Approved(R) <= Consumed(R)
    BY <1>7, <1>8
  <2>2. Consumed(Reserved) + r.amount <= Ceiling[g] /\ Ceiling[g] \in Nat
    BY <1>3, SpendAssumption DEF WithinCaps, Typed
  <2>3. Approved(Reserved)' = Approved(R \cup {k})' /\ Consumed(Reserved) = Consumed(R)
    BY <1>5, <1>8 DEF Approved, Consumed
  <2> QED
    BY <1>3, <2>1, <2>2, <2>3
<1>10. ASSUME NEW g \in grants, Of(g)' # {}
       PROVE  Approved(Of(g))' <= Total[g]
  <2>1. PICK S : S = Of(g)
    OBVIOUS
  <2>2. S \subseteq Reserved
    BY <2>1 DEF Of, Reserved
  <2>3. /\ Approved(S \cup {k})' = Approved(S) + r.amount
        /\ Approved(S) \in Int /\ Consumed(S) \in Int /\ Approved(S) <= Consumed(S)
    BY <1>7, <2>2
  <2>4. CASE g = r.grant
    <3>1. Of(g)' = S \cup {k}
      BY <1>4, <1>5, <2>1, <2>4 DEF Of, Reserved
    <3>2. Consumed(S) + r.amount <= Total[g] /\ Total[g] \in Nat
      BY <1>3, <2>1, <2>4, SpendAssumption DEF WithinCaps, Typed
    <3>3. Approved(Of(g))' = Approved(S \cup {k})'
      BY <3>1 DEF Approved
    <3> QED
      BY <1>3, <2>3, <3>2, <3>3
  <2>5. CASE g # r.grant
    <3>1. Of(g)' = S
      BY <1>4, <1>5, <2>1, <2>5 DEF Of, Reserved
    <3>2. Approved(S) <= Total[g] /\ Total[g] \in Nat
      BY <1>9, <1>10, <2>1, <3>1, SpendAssumption DEF Budgeted, WithinBudget, Typed
    <3>3. IsFiniteSet(S) /\ S \subseteq Reserved'
      BY <1>5, <1>6, <2>2, FS_Subset
    <3>4. \A i \in S : Taken(i)' <= Taken(i)
      <4> TAKE i \in S
      <4>1. res'[i] = res[i]
        BY <1>4, <1>5, <2>2 DEF Reserved
      <4>2. Taken(i)' = Taken(i)
        BY <4>1 DEF Taken, Counted, Excess
      <4>3. Taken(i) \in Int
        BY <2>2, TakenFacts
      <4> QED
        BY <4>2, <4>3
    <3>5. Approved(S)' \in Int /\ Approved(S)' <= Approved(S)
      BY <2>2, <3>3, <3>4, ApprovedFalls
    <3>6. Approved(Of(g))' = Approved(S)'
      BY <3>1 DEF Approved
    <3> QED
      BY <2>3, <3>2, <3>5, <3>6
  <2> QED
    BY <2>4, <2>5
<1> QED
  BY <1>3, <1>6, <1>9, <1>10 DEF Budgeted, WithinBudget

(* What a reservation takes does not grow when it is given back, marked or  *)
(* settled.                                                                 *)
LEMMA TakenFalls ==
  ASSUME Typed, Typed', NEW k \in Keys, res[k].status # "absent",
         res'[k].request = res[k].request,
         \/ res'[k] = res[k]
         \/ /\ res[k].status \in {"held", "pending"}
            /\ res'[k].status \in Statuses \ {"absent"}
  PROVE  Taken(k)' <= Taken(k)
<1>1. k \in Reserved
  BY DEF Reserved
<1>2. CASE res'[k] = res[k]
  <2>1. Taken(k)' = Taken(k)
    BY <1>2 DEF Taken, Counted, Excess
  <2> QED
    BY <1>1, <2>1, TakenFacts
<1>3. CASE /\ res[k].status \in {"held", "pending"}
           /\ res'[k].status \in Statuses \ {"absent"}
  <2>1. Taken(k) = res[k].request.amount
    BY <1>1, <1>3, TakenFacts
  <2>2. k \in Reserved'
    BY <1>3 DEF Reserved, Statuses
  <2>3. Taken(k)' <= res'[k].request.amount
    BY <2>2, TakenNext
  <2> QED
    BY <2>1, <2>3
<1> QED
  BY <1>2, <1>3

(* The caps through every step.                                             *)
LEMMA BudgetStep ==
  ASSUME Typed, Accounted, Budgeted, [Next]_vars
  PROVE  Budgeted'
<1>0. Typed'
  BY TypedStep
<1>1. ASSUME NEW p \in Procs, Reserve(p) PROVE Budgeted'
  BY <1>0, <1>1, ReserveBudgeted
<1>2. ASSUME NEW p \in Procs,
             Release(p) \/ MarkPending(p) \/ ReleaseAbsent(p) \/ Settle(p) \/ SettleThrows(p)
      PROVE  Budgeted'
  <2>1. job[p].pc \in KeyPcs
    BY <1>2 DEF Release, MarkPending, ReleaseAbsent, Settle, SettleThrows, KeyPcs
  <2>2. job[p].key \in Keys /\ res[job[p].key].status # "absent"
    BY <2>1, KeyInUse
  <2>3. /\ \A i \in Keys : i # job[p].key => res'[i] = res[i]
        /\ \/ res'[job[p].key] = res[job[p].key]
           \/ /\ res[job[p].key].status \in {"held", "pending"}
              /\ res'[job[p].key].status \in Statuses \ {"absent"}
              /\ res'[job[p].key].request = res[job[p].key].request
    <3>1. CASE Release(p) \/ MarkPending(p) \/ ReleaseAbsent(p)
      <4>1. UNCHANGED grants
        BY <3>1 DEF Release, MarkPending, ReleaseAbsent
      <4>2. PICK before \in {"held", "pending"}, after \in {"pending", "released"} :
              Restates(p, before, after)
        BY <3>1 DEF Release, MarkPending, ReleaseAbsent, UnknownStatus, Restates
      <4>3. before \in Statuses \ {"absent"} /\ after \in Statuses \ {"absent"}
        BY DEF Statuses
      <4> QED
        BY <2>1, <4>1, <4>2, <4>3, RestatesWell
    <3>2. CASE Settle(p) \/ SettleThrows(p)
      <4>1. job[p].pc = "settling" /\ (Settles(p) \/ UNCHANGED ledger)
        BY <3>2 DEF Settle, SettleThrows
      <4> QED
        BY <4>1, SettlesWell DEF Statuses
    <3> QED
      BY <1>2, <3>1, <3>2
  <2>4. \A k \in Keys : /\ res'[k].status = "absent" <=> res[k].status = "absent"
                        /\ res'[k].request = res[k].request
    BY <2>2, <2>3
  <2>5. \A k \in Reserved : Taken(k)' <= Taken(k)
    BY <1>0, <2>2, <2>3, <2>4, TakenFalls DEF Reserved
  <2> QED
    BY <1>0, <2>4, <2>5, BudgetKept
<1>3. CASE UNCHANGED res
  <2>1. \A k \in Keys : /\ res'[k].status = "absent" <=> res[k].status = "absent"
                        /\ res'[k].request = res[k].request
    BY <1>3
  <2>2. \A k \in Reserved : Taken(k)' <= Taken(k)
    BY <1>0, <1>3, TakenFalls DEF Reserved
  <2> QED
    BY <1>0, <2>1, <2>2, BudgetKept
<1>4. ASSUME NEW p \in Procs,
             \/ Moves(p) \/ ProviderSpends(p) \/ HaltAndQueue(p) \/ Claim(p)
             \/ PauseUnready(p) \/ ApplyAnswers(p) \/ PersistRead(p)
      PROVE  UNCHANGED res
  BY <1>4, MovesKeep DEF ProviderSpends, HaltAndQueue, Claim, PauseUnready, ApplyAnswers,
                         PersistRead, ledger
<1>5. ASSUME \/ \E k \in Keys : LateSpending(k)
             \/ \E g \in Grants : RegisterGrant(g) \/ Halt(g)
             \/ \E g \in Grants, t \in Campaigns : ProviderPauses(g, t)
             \/ UNCHANGED vars
      PROVE  UNCHANGED res
  BY <1>5 DEF LateSpending, RegisterGrant, Halt, ProviderPauses, vars, ledger
<1> QED
  BY <1>1, <1>2, <1>3, <1>4, <1>5 DEF Next, Step, Moves
-----------------------------------------------------------------------------
(* The theorems.                                                            *)

(* At first nothing is reserved, spent, asked for or under way.             *)
LEMMA InitHolds == Init => IInv
<1> SUFFICES ASSUME Init PROVE IInv
  OBVIOUS
<1>1. /\ \A k \in Keys : res[k] = Unreserved /\ charged[k] = 0 /\ k \notin late
      /\ \A p \in Procs : job[p] = Idle
      /\ \A g \in Grants, t \in Targets : pauses[g][t] = NoPause /\ asked[g][t] = 0
  BY DEF Init
<1>2. Typed
  <2>1. Unreserved \in Slots /\ Idle \in Jobs /\ NoPause \in PauseRows
    BY IdleFits DEF Unreserved, Slots, Statuses, NoPause, PauseRows, PauseStates, Incidents, Fits
  <2>2. res \in [Keys -> Slots] /\ pauses \in [Grants -> [Targets -> PauseRows]]
    BY <2>1 DEF Init
  <2>3. job \in [Procs -> Jobs] /\ \A p \in Procs : Fits(job[p])
    BY <1>1, <2>1, IdleFits DEF Init
  <2>4. \A k \in Keys : Filled(k)
    BY <1>1 DEF Filled, Unreserved
  <2>5. charged \in [Keys -> Nat] /\ asked \in [Grants -> [Targets -> Nat]]
    BY DEF Init
  <2> QED
    BY <2>2, <2>3, <2>4, <2>5 DEF Init, Typed
<1>3. Accounted
  BY <1>1 DEF Accounted, KeyHolds, Unreserved, Idle, KeyPcs, Runs
<1>4. \A p \in Procs : Knows(p)
  BY <1>1 DEF Knows, Idle
<1>5. OverspendHalts
  BY <1>1 DEF OverspendHalts, Reserved, Unreserved
<1>6. PausesHold
  BY <1>1 DEF PausesHold, NoPause, Idle
<1>7. Budgeted
  <2>1. Reserved = {} /\ grants = {}
    BY <1>1 DEF Init, Reserved, Unreserved
  <2> QED
    BY <2>1, FS_EmptySet DEF Budgeted, WithinBudget
<1> QED
  BY <1>2, <1>3, <1>4, <1>5, <1>6, <1>7 DEF IInv

(* Every step keeps the invariant.                                          *)
LEMMA InvStep == IInv /\ [Next]_vars => IInv'
  BY TypedStep, AccountStep, OverspendStep, PausesStep, BudgetStep DEF IInv

(* The invariant holds of the ledger.                                       *)
LEMMA LedgerHolds == Spec => []IInv
  BY InitHolds, InvStep, PTL DEF Spec

(* Whatever processes, providers and crashes do, the ledger's rows, the     *)
(* pauses and the money are of their types: spend.ts and spend-store.ts     *)
(* never record a settlement, a status or a pause they could not read.      *)
THEOREM SpendTypeCorrect == Spec => []TypeOK
<1>1. IInv => TypeOK
  <2> SUFFICES ASSUME Typed PROVE TypeOK
    BY DEF IInv
  <2>1. ASSUME NEW k \in Keys
        PROVE  /\ res[k].status \in Statuses
               /\ res[k].request \in RequestsOf[k] \/ res[k] = Unreserved
               /\ res[k].settled \in Nat /\ charged[k] \in Nat
    BY KeyFacts DEF Typed, Filled
  <2>2. ASSUME NEW g \in Grants, NEW t \in Targets
        PROVE  /\ pauses[g][t].state \in PauseStates /\ pauses[g][t].tried \in BOOLEAN
               /\ pauses[g][t].incidents \subseteq Keys \cup {None} /\ asked[g][t] \in Nat
    BY DEF Typed, PauseRows, Incidents
  <2> QED
    BY <2>1, <2>2 DEF TypeOK, Typed, Statuses, PauseStates
<1> QED
  BY <1>1, LedgerHolds, PTL

(* What a provider spent is never given back to the caps, and a settlement  *)
(* records what was really spent: releases, late spending, read-backs and   *)
(* crashes at any point, by any number of processes.                        *)
THEOREM SpendAccounted == Spec => []SpendIsAccounted
<1>1. IInv => SpendIsAccounted
  BY DEF IInv, Accounted, KeyHolds, SpendIsAccounted
<1> QED
  BY <1>1, LedgerHolds, PTL

(* A settlement above its reservation leaves the grant halted and the pause *)
(* of its campaign on record, in the transaction that settles it and ever   *)
(* after.                                                                   *)
THEOREM SpendOverspendHalts == Spec => []OverspendHalts
<1>1. IInv => OverspendHalts
  BY DEF IInv
<1> QED
  BY <1>1, LedgerHolds, PTL

(* A campaign is asked to pause once at most, and is verified only when the *)
(* provider has paused it, whoever attempts, reads back and dies.           *)
THEOREM SpendPausedOnce == Spec => []PausedOnceAndSeen
<1>1. IInv => PausedOnceAndSeen
  BY DEF IInv, PausesHold, PausedOnceAndSeen
<1> QED
  BY <1>1, LedgerHolds, PTL

(* Whatever processes reserve, settle, release and leave behind, in any     *)
(* order, what was approved never passes a grant's total or the ceiling it  *)
(* puts on its platform: only what a provider charged above a reservation   *)
(* does.                                                                    *)
THEOREM SpendWithinBudget == Spec => []WithinBudget
<1>1. IInv => WithinBudget
  BY DEF IInv, Budgeted
<1> QED
  BY <1>1, LedgerHolds, PTL
=============================================================================
