----------------------------- MODULE LoopRunProofs -----------------------------
(***************************************************************************)
(* Proofs about a production loop run for any number of calls, iterations, *)
(* actions, failures and expired leases, and any observations.             *)
(*                                                                         *)
(* A call's copy of the record may be stale at every step, for its lease   *)
(* may be gone. So the proofs rest on the journal, whose row belongs to    *)
(* one attempt at a time (Held, Asked), and on what definite answers mean  *)
(* (Heard).                                                                *)
(***************************************************************************)
EXTENDS LoopRun, WellFoundedInduction, TLAPS

-----------------------------------------------------------------------------
(* The sets the variables range over.                                       *)

RowStates == {"absent", "prepared", "unknown", "applied", "confirmed_no_effect"}
AnswersOf == {"applied", "confirmed_no_effect", "unknown"}
ReadPcs == {"reading", "read"}
ActingPcs == {"apply", "send", "sent", "told", "tell"}
RestPcs == {"idle", "reconcile", "unsure", "recover", "iterate", "close", "refused"}
Pcs == RestPcs \cup ReadPcs \cup ActingPcs

Rows == [token : Tokens, state : RowStates]
Actions == [iteration : Iterations, token : Tokens, state : ActionStates]
Runs == [status : RunStatuses, iteration : 0..Len(input), actions : Seq(Actions)]
SavedRows == [owner : Tokens, leased : BOOLEAN, run : Runs]
CallRecords == [pc : Pcs, run : Runs, envelope : {"none", "spent", "fresh"}, at : 0..Len(input),
                back : {"close", "recover"}, answer : AnswersOf]

(* The sets depend on the observations alone, which no step changes.        *)
LEMMA SameSets ==
  ASSUME UNCHANGED input
  PROVE  /\ Iterations' = Iterations /\ Rows' = Rows /\ Actions' = Actions /\ Runs' = Runs
         /\ SavedRows' = SavedRows /\ CallRecords' = CallRecords
<1>1. Iterations' = Iterations
  BY DEF Iterations
<1>2. Rows' = Rows /\ Actions' = Actions
  BY <1>1 DEF Rows, Actions
<1>3. Runs' = Runs
  BY <1>2 DEF Runs
<1> QED
  BY <1>1, <1>2, <1>3 DEF SavedRows, CallRecords
-----------------------------------------------------------------------------
(* Records of a run.  No iteration acts twice, no action is ahead of the    *)
(* run, an action has a token unless it was rejected, and what is recorded  *)
(* as applied has its effect.                                               *)

Ordered(run) ==
  /\ Len(run.actions) <= run.iteration
  /\ \A a \in DOMAIN run.actions :
       /\ run.actions[a].iteration <= run.iteration
       /\ run.actions[a].token = None <=> run.actions[a].state = "rejected"
  /\ \A a, b \in DOMAIN run.actions : run.actions[a].iteration = run.actions[b].iteration => a = b

TrueRun(run) ==
  \A a \in DOMAIN run.actions :
    run.actions[a].state = "applied" => effects[run.actions[a].iteration] > 0

Good(run) == run \in Runs /\ Ordered(run) /\ TrueRun(run)

(* The actions of a good run.                                               *)
LEMMA ActionsOf ==
  ASSUME NEW run, Good(run)
  PROVE  /\ run.actions \in Seq(Actions) /\ run.iteration \in 0..Len(input)
         /\ DOMAIN run.actions = 1..Len(run.actions) /\ Len(run.actions) \in Nat
         /\ \A a \in DOMAIN run.actions : run.actions[a] \in Actions
  BY DEF Good, Runs

(* A new status leaves a run good.                                          *)
LEMMA GoodStatus ==
  ASSUME NEW run, Good(run), NEW status \in RunStatuses
  PROVE  /\ Good(WithStatus(run, status))
         /\ WithStatus(run, status).status = status
         /\ WithStatus(run, status).iteration = run.iteration
         /\ WithStatus(run, status).actions = run.actions
<1> DEFINE new == WithStatus(run, status)
<1>1. /\ new \in Runs /\ new.status = status /\ new.iteration = run.iteration
      /\ new.actions = run.actions
  BY DEF Good, Runs, WithStatus
<1>2. Ordered(new) /\ TrueRun(new)
  BY <1>1 DEF Good, Ordered, TrueRun
<1> QED
  BY <1>1, <1>2 DEF Good

(* So does another token or state of one of its actions, when an action     *)
(* without a token is a rejected one and an applied one has its effect.     *)
Changed(run, a, token, state) ==
  [run EXCEPT !.actions =
    [run.actions EXCEPT ![a] = [run.actions[a] EXCEPT !.state = state, !.token = token]]]

(* An action of a good run that changes its token and state leaves the run  *)
(* good.                                                                    *)
LEMMA GoodAction ==
  ASSUME NEW run, Good(run), NEW a \in DOMAIN run.actions, NEW token \in Tokens,
         NEW state \in ActionStates, token = None <=> state = "rejected",
         state = "applied" => effects[run.actions[a].iteration] > 0
  PROVE  /\ Good(Changed(run, a, token, state))
         /\ Changed(run, a, token, state).status = run.status
         /\ Changed(run, a, token, state).iteration = run.iteration
         /\ a \in DOMAIN Changed(run, a, token, state).actions
         /\ Changed(run, a, token, state).actions[a].token = token
<1> DEFINE row == [run.actions[a] EXCEPT !.state = state, !.token = token]
           acts == [run.actions EXCEPT ![a] = row]
           new == [run EXCEPT !.actions = acts]
<1>0. run.actions \in Seq(Actions) /\ run.actions[a] \in Actions
  BY ActionsOf
<1>1. /\ row \in Actions /\ row.token = token /\ row.state = state
      /\ row.iteration = run.actions[a].iteration
  BY <1>0 DEF Actions
<1> HIDE DEF row
<1>2. /\ acts \in Seq(Actions) /\ DOMAIN acts = DOMAIN run.actions /\ Len(acts) = Len(run.actions)
      /\ acts[a] = row /\ \A b \in DOMAIN run.actions : b # a => acts[b] = run.actions[b]
  BY <1>0, <1>1
<1> HIDE DEF acts
<1>3. new \in Runs /\ new.status = run.status /\ new.iteration = run.iteration /\ new.actions = acts
  BY <1>2 DEF Good, Runs
<1> HIDE DEF new
<1>4. \A b \in DOMAIN run.actions : acts[b].iteration = run.actions[b].iteration
  BY <1>1, <1>2
<1>5. Ordered(new)
  BY <1>1, <1>2, <1>3, <1>4 DEF Good, Ordered
<1>6. TrueRun(new)
  BY <1>1, <1>2, <1>3, <1>4 DEF Good, TrueRun
<1>7. new = Changed(run, a, token, state)
  BY DEF new, acts, row, Changed
<1> QED
  BY <1>1, <1>2, <1>3, <1>5, <1>6, <1>7 DEF Good

(* The same as the code's updates write it: of the state alone, and of both. *)
LEMMA GoodState ==
  ASSUME NEW run, Good(run), NEW a \in DOMAIN run.actions, run.actions[a].state # "rejected",
         NEW state \in ActionStates \ {"rejected"},
         state = "applied" => effects[run.actions[a].iteration] > 0
  PROVE  /\ Good(WithState(run, a, state))
         /\ WithState(run, a, state).status = run.status
         /\ WithState(run, a, state).iteration = run.iteration
<1> DEFINE token == run.actions[a].token
<1>1. run.actions \in Seq(Actions) /\ run.actions[a] \in Actions
  BY ActionsOf
<1>2. [run.actions[a] EXCEPT !.state = state, !.token = token] = [run.actions[a] EXCEPT !.state = state]
  BY <1>1 DEF Actions
<1>3. Changed(run, a, token, state) = WithState(run, a, state)
  <2>1. WithState(run, a, state)
          = [run EXCEPT !.actions = [run.actions EXCEPT ![a] = [run.actions[a] EXCEPT !.state = state]]]
    BY DEF WithState
  <2> QED
    BY <1>2, <2>1 DEF Changed
<1>4. token \in Tokens /\ token # None
  BY <1>1 DEF Good, Ordered, Actions
<1> QED
  BY <1>3, <1>4, GoodAction

(* The same of an action's token and state together.                       *)
Reset(run, a, token, state) ==
  [run EXCEPT !.actions[a].state = state, !.actions[a].token = token]

(* So does one whose token and state are set again.                         *)
LEMMA GoodTokenState ==
  ASSUME NEW run, Good(run), NEW a \in DOMAIN run.actions, NEW token \in Tokens,
         NEW state \in ActionStates \ {"applied"}, token = None <=> state = "rejected"
  PROVE  /\ Good(Reset(run, a, token, state))
         /\ Reset(run, a, token, state).status = run.status
         /\ a \in DOMAIN Reset(run, a, token, state).actions
         /\ Reset(run, a, token, state).actions[a].token = token
<1>1. run \in Runs /\ run.actions \in Seq(Actions) /\ run.actions[a] \in Actions
  BY ActionsOf DEF Good
<1>2. Reset(run, a, token, state) = Changed(run, a, token, state)
  BY <1>1 DEF Runs, Changed, Reset
<1> QED
  BY <1>2, GoodAction

(* The next iteration, and an action of it.                                 *)
LEMMA GoodAdvance ==
  ASSUME NEW o, Good(call[o].run), Next1(o) \in Iterations, Len(input) \in Nat
  PROVE  /\ Good(Advanced(o)) /\ Advanced(o).status = call[o].run.status
         /\ Advanced(o).actions = call[o].run.actions
         /\ Advanced(o).iteration = Next1(o)
         /\ \A token \in Tokens, state \in ActionStates :
              (token = None <=> state = "rejected") /\ state # "applied" =>
                LET new == WithAction(o, token, state)
                    last == Len(call[o].run.actions) + 1
                IN  /\ Good(new) /\ new.status = call[o].run.status
                    /\ last \in DOMAIN new.actions
                    /\ new.actions[last] = [iteration |-> Next1(o), token |-> token, state |-> state]
<1> DEFINE run == call[o].run
           adv == Advanced(o)
<1>0. /\ run \in Runs /\ run.actions \in Seq(Actions) /\ run.iteration \in Nat
      /\ Next1(o) = run.iteration + 1 /\ Len(run.actions) \in Nat
      /\ Next1(o) \in 0..Len(input) /\ DOMAIN run.actions = 1..Len(run.actions)
  BY ActionsOf DEF Good, Next1, Iterations
<1>1. /\ adv \in Runs /\ adv.status = run.status /\ adv.iteration = Next1(o)
      /\ adv.actions = run.actions
  BY <1>0 DEF Advanced, Runs
<1>2. \A a \in DOMAIN run.actions : /\ run.actions[a] \in Actions
                                    /\ run.actions[a].iteration \in Nat
                                    /\ run.actions[a].iteration <= run.iteration
  <2>1. ASSUME NEW a \in DOMAIN run.actions
        PROVE  run.actions[a] \in Actions /\ run.actions[a].iteration \in Nat
    <3>1. run.actions[a] \in Actions
      BY <1>0, <2>1
    <3> QED
      BY <3>1 DEF Actions, Iterations
  <2> QED
    BY <2>1 DEF Good, Ordered
<1>3. Good(adv)
  <2>1. Ordered(adv)
    <3>1. Len(adv.actions) <= adv.iteration
      BY <1>0, <1>1 DEF Good, Ordered
    <3>2. \A a \in DOMAIN adv.actions :
            /\ adv.actions[a].iteration <= adv.iteration
            /\ adv.actions[a].token = None <=> adv.actions[a].state = "rejected"
      BY SMTT(30), <1>0, <1>1, <1>2 DEF Good, Ordered
    <3> QED
      BY <1>1, <3>1, <3>2 DEF Good, Ordered
  <2>2. TrueRun(adv)
    BY <1>1 DEF Good, TrueRun
  <2> QED
    BY <1>1, <2>1, <2>2 DEF Good
<1>4. ASSUME NEW token \in Tokens, NEW state \in ActionStates,
             token = None <=> state = "rejected", state # "applied"
      PROVE  LET new == WithAction(o, token, state)
                 last == Len(run.actions) + 1
             IN  /\ Good(new) /\ new.status = run.status
                 /\ last \in DOMAIN new.actions
                 /\ new.actions[last] = [iteration |-> Next1(o), token |-> token, state |-> state]
  <2> DEFINE new == WithAction(o, token, state)
             last == Len(run.actions) + 1
             row == [iteration |-> Next1(o), token |-> token, state |-> state]
             acts == Append(run.actions, row)
  <2>1. row \in Actions /\ row.iteration = Next1(o) /\ row.token = token /\ row.state = state
    BY DEF Actions
  <2> HIDE DEF row
  <2>2. /\ acts \in Seq(Actions) /\ Len(acts) = last /\ DOMAIN acts = 1..last /\ acts[last] = row
        /\ \A a \in DOMAIN run.actions : acts[a] = run.actions[a]
        /\ \A a \in DOMAIN acts : a = last \/ a \in DOMAIN run.actions
    <3>1. acts \in Seq(Actions) /\ Len(acts) = last /\ DOMAIN acts = 1..last /\ acts[last] = row
      BY SMTT(30), <1>0, <2>1
    <3>2. \A a \in 1..Len(run.actions) : acts[a] = run.actions[a]
      BY <1>0, <2>1
    <3>3. \A a \in 1..last : a = last \/ a \in 1..Len(run.actions)
      BY <1>0
    <3> QED
      BY <1>0, <3>1, <3>2, <3>3
  <2> HIDE DEF acts
  <2>3. new = [adv EXCEPT !.actions = acts]
    BY <1>1 DEF WithAction, acts, row
  <2>4. /\ new \in Runs /\ new.status = run.status /\ new.iteration = Next1(o) /\ new.actions = acts
    BY <1>1, <2>2, <2>3 DEF Runs
  <2> HIDE DEF new
  <2>5. Ordered(new)
    <3>1. Len(acts) <= Next1(o)
      BY <1>0, <2>2 DEF Good, Ordered
    <3>2. \A a \in DOMAIN acts : /\ acts[a].iteration <= Next1(o)
                                 /\ acts[a].token = None <=> acts[a].state = "rejected"
      <4> TAKE a \in DOMAIN acts
      <4>1. CASE a = last
        BY <1>0, <1>4, <2>1, <2>2, <4>1
      <4>2. CASE a \in DOMAIN run.actions
        <5>1. /\ acts[a] = run.actions[a] /\ run.actions[a].iteration <= run.iteration
              /\ run.actions[a].iteration \in Nat
              /\ run.actions[a].token = None <=> run.actions[a].state = "rejected"
          BY <1>2, <2>2, <4>2 DEF Good, Ordered
        <5> QED
          BY <1>0, <5>1
      <4> QED
        BY <2>2, <4>1, <4>2
    <3>3. \A a, b \in DOMAIN acts : acts[a].iteration = acts[b].iteration => a = b
      <4> TAKE a, b \in DOMAIN acts
      <4>1. \A x \in DOMAIN run.actions : acts[x] = run.actions[x] /\ acts[x].iteration # Next1(o)
        <5> TAKE x \in DOMAIN run.actions
        <5>1. /\ acts[x] = run.actions[x] /\ run.actions[x].iteration \in Nat
              /\ run.actions[x].iteration <= run.iteration
          BY <1>2, <2>2
        <5> QED
          BY <1>0, <5>1
      <4>2. acts[last].iteration = Next1(o)
        BY <2>1, <2>2
      <4>3. CASE a = last \/ b = last
        BY <2>2, <4>1, <4>2, <4>3
      <4>4. CASE a \in DOMAIN run.actions /\ b \in DOMAIN run.actions
        BY <4>1, <4>4 DEF Good, Ordered
      <4> QED
        BY <2>2, <4>3, <4>4
    <3> QED
      BY <2>4, <3>1, <3>2, <3>3 DEF Ordered
  <2>6. TrueRun(new)
    BY <1>4, <2>1, <2>2, <2>4 DEF Good, TrueRun
  <2>7. last \in DOMAIN acts
    BY <1>0, <2>2
  <2> QED
    BY <2>2, <2>4, <2>5, <2>6, <2>7 DEF Good, new, row
<1> QED
  BY <1>1, <1>3, <1>4
-----------------------------------------------------------------------------
(* First picks one of the indices it is given.                              *)

Less == {p \in Nat \X Nat : p[1] < p[2]}

(* A nonempty set of naturals has a least element, and First is it.         *)
LEMMA FirstIn == ASSUME NEW S, S \subseteq Nat, S # {} PROVE First(S) \in S
<1>1. IsWellFoundedOn(Less, Nat)
  <2>1. IsWellFoundedOn(OpToRel(<, Nat), Nat)
    BY NatLessThanWellFounded, Zenon
  <2>2. OpToRel(<, Nat) = Less
    BY DEF OpToRel, Less
  <2> QED
    BY <2>1, <2>2, Zenon
<1>2. PICK a \in S : \A b \in S : ~ (<<b, a>> \in Less)
  BY <1>1, WFMin
<1>3. \A b \in S : a <= b
  <2> TAKE b \in S
  <2>1. ~ (<<b, a>> \in Less) /\ <<b, a>> \in Nat \X Nat
    BY <1>2
  <2>2. ~(b < a)
    BY <2>1 DEF Less
  <2> QED
    BY <2>2
<1> QED
  BY <1>3 DEF First

(* So the first action that has one of some states has one of them.         *)
LEMMA FirstHaving ==
  ASSUME NEW run, Good(run), NEW states, Having(run, states) # {}
  PROVE  /\ First(Having(run, states)) \in DOMAIN run.actions
         /\ run.actions[First(Having(run, states))].state \in states
<1>1. Having(run, states) \subseteq Nat
  BY ActionsOf DEF Having
<1> QED
  BY <1>1, FirstIn DEF Having
-----------------------------------------------------------------------------
(* The inductive invariant.                                                 *)

(* A call's record: its run goes on; a read-back is about an open action,   *)
(* and an apply about an action under the owner's own token.                *)
Fit(r, o) ==
  /\ r \in CallRecords /\ Good(r.run) /\ ~Ended(r.run)
  /\ r.pc \in ReadPcs => /\ r.at \in DOMAIN r.run.actions
                         /\ r.run.actions[r.at].state \in {"prepared", "unknown"}
  /\ r.pc \in ActingPcs => r.at \in DOMAIN r.run.actions /\ r.run.actions[r.at].token = o

Formed ==
  /\ Len(input) \in Nat
  /\ saved \in SavedRows /\ Good(saved.run)
  /\ journal \in [Iterations -> Rows]
  /\ \A i \in Iterations : journal[i].state # "absent" <=> journal[i].token \in Owners
  /\ call \in [Owners -> CallRecords] /\ \A o \in Owners : Fit(call[o], o)
  /\ sent \subseteq Owners \X Iterations /\ fenced \subseteq Owners \X Iterations
  /\ effects \in [Iterations -> Nat]

(* What may still take effect is the attempt that holds an undecided row,   *)
(* whose effect is not there; what is fenced never took effect while it     *)
(* held the row; and a decided row is true.                                 *)
Held ==
  /\ sent \cap fenced = {}
  /\ \A t \in sent : /\ journal[t[2]].token = t[1] /\ journal[t[2]].state \in {"prepared", "unknown"}
                     /\ effects[t[2]] = 0
  /\ \A t \in fenced : journal[t[2]].token = t[1] => effects[t[2]] = 0
  /\ \A i \in Iterations : /\ journal[i].state \in {"absent", "confirmed_no_effect"} => effects[i] = 0
                           /\ journal[i].state = "applied" => effects[i] > 0

(* An owner about to send an attempt that is not fenced holds the row, and  *)
(* nothing was sent yet; one that has sent it waits for an attempt that is  *)
(* under way, fenced or done.                                               *)
Asked(o) ==
  /\ At(o, "send") /\ Attempt(o) \notin fenced =>
       /\ journal[Attempt(o)[2]].token = o /\ journal[Attempt(o)[2]].state \in {"prepared", "unknown"}
       /\ effects[Attempt(o)[2]] = 0 /\ Attempt(o) \notin sent
  /\ At(o, "sent") => Attempt(o) \in sent \cup fenced \/ effects[Attempt(o)[2]] > 0

(* A definite answer is true, and one of absence is about a fenced attempt. *)
Heard(o) ==
  /\ call[o].pc \in {"read", "told", "tell"} /\ call[o].answer = "applied" => effects[Attempt(o)[2]] > 0
  /\ call[o].pc \in {"read", "told"} /\ call[o].answer = "confirmed_no_effect" => Attempt(o) \in fenced

(* The owner of a run that ended has left; a completed run is satisfied.    *)
Left == Ended(saved.run) /\ saved.owner \in Owners => ~Live(saved.owner)
Finished == saved.run.status = "completed" => Satisfied(saved.run)

IInv ==
  /\ Formed /\ Held /\ (\A o \in Owners : Asked(o) /\ Heard(o)) /\ Left /\ Finished
  /\ AppliedOnce
-----------------------------------------------------------------------------
(* What a step of call o leaves of the calls and of the record.             *)

Moved(o) ==
  /\ UNCHANGED input /\ Live(o)
  /\ call' \in [Owners -> CallRecords]
  /\ Fit(call'[o], o) /\ \A p \in Owners : p # o => call'[p] = call[p]

Recorded(o) ==
  \/ UNCHANGED saved
  \/ /\ saved.owner = o /\ saved'.owner = o /\ saved' \in SavedRows /\ Good(saved'.run)
     /\ Ended(saved'.run) => call'[o].pc = "idle"
     /\ saved'.run.status = "completed" => Satisfied(saved'.run)

(* A call at rest.                                                          *)
LEMMA IdleFits ==
  ASSUME Formed, NEW o
  PROVE  Fit(Idle, o) /\ Idle.pc = "idle"
<1>1. NewRun \in Runs /\ NewRun.actions = <<>> /\ NewRun.status = "running" /\ NewRun.iteration = 0
  BY DEF Formed, NewRun, Runs, RunStatuses
<1>2. Good(NewRun)
  BY <1>1 DEF Good, Ordered, TrueRun
<1>3. /\ Idle \in CallRecords /\ Idle.run = NewRun /\ Idle.pc = "idle"
  BY <1>1 DEF Formed, Idle, CallRecords, Pcs, RestPcs, AnswersOf
<1> QED
  BY <1>1, <1>2, <1>3 DEF Fit, Ended, ReadPcs, ActingPcs

(* A call whose record becomes r.                                           *)
LEMMA Becomes ==
  ASSUME Formed, NEW o \in Owners, Live(o), NEW r, Fit(r, o), UNCHANGED input,
         call' = [call EXCEPT ![o] = r]
  PROVE  Moved(o) /\ call'[o] = r
  BY DEF Formed, Moved, Fit

(* A call that ends.                                                        *)
LEMMA EndsWell ==
  ASSUME Formed, NEW o \in Owners, Live(o), UNCHANGED input, Ends(o)
  PROVE  Moved(o) /\ call'[o].pc = "idle"
  BY IdleFits, Becomes DEF Ends

(* A call that saves its run and goes on, or finds that it lost it.         *)
LEMMA PersistsWell ==
  ASSUME Formed, NEW o \in Owners, Live(o), UNCHANGED input,
         NEW run, Good(run), ~Ended(run), NEW pc \in RestPcs, Persist(o, run, pc)
  PROVE  Moved(o) /\ Recorded(o) /\ call'[o].pc \in {pc, "idle"}
<1>1. CASE Saves(o)
  <2>1. /\ saved' = [owner |-> saved.owner, leased |-> TRUE, run |-> run]
        /\ call' = [call EXCEPT ![o] = [Idle EXCEPT !.run = run, !.pc = pc]]
        /\ saved.owner = o
    BY <1>1 DEF Persist, Saves
  <2> DEFINE r == [Idle EXCEPT !.run = run, !.pc = pc]
  <2>2. r \in CallRecords /\ r.run = run /\ r.pc = pc
    BY IdleFits DEF Fit, Good, CallRecords, Pcs
  <2>3. Fit(r, o)
    BY <2>2 DEF Fit, RestPcs, ReadPcs, ActingPcs
  <2>4. Moved(o) /\ call'[o] = r
    <3>1. call' = [call EXCEPT ![o] = r]
      BY <2>1
    <3> HIDE DEF r
    <3> QED
      BY <2>3, <3>1, Becomes
  <2>5. /\ saved' \in SavedRows /\ saved'.run = run /\ saved'.owner = o
    BY <2>1 DEF Formed, SavedRows, Good
  <2> QED
    BY <2>1, <2>2, <2>4, <2>5 DEF Recorded, Ended
<1>2. CASE ~Saves(o)
  BY <1>2, EndsWell DEF Persist, Recorded
<1> QED
  BY <1>1, <1>2

(* The same before an apply.                                                *)
LEMMA PreparesWell ==
  ASSUME Formed, NEW o \in Owners, Live(o), UNCHANGED input,
         NEW run, Good(run), ~Ended(run), NEW a \in DOMAIN run.actions, run.actions[a].token = o,
         NEW back \in {"close", "recover"}, Prepares(o, run, a, back)
  PROVE  Moved(o) /\ Recorded(o) /\ call'[o].pc \in {"apply", "idle"}
<1>1. CASE Saves(o)
  <2>1. /\ saved' = [owner |-> saved.owner, leased |-> TRUE, run |-> run]
        /\ call' = [call EXCEPT ![o] = [Idle EXCEPT !.run = run, !.pc = "apply", !.at = a,
                                                    !.back = back]]
        /\ saved.owner = o
    BY <1>1 DEF Prepares, Saves
  <2> DEFINE r == [Idle EXCEPT !.run = run, !.pc = "apply", !.at = a, !.back = back]
  <2>2. a \in 0..Len(input)
    <3>1. /\ Len(run.actions) \in Nat /\ DOMAIN run.actions = 1..Len(run.actions)
          /\ run.iteration \in 0..Len(input) /\ Len(run.actions) <= run.iteration
      BY ActionsOf DEF Good, Ordered
    <3> QED
      BY <3>1 DEF Formed
  <2>3. r \in CallRecords /\ r.run = run /\ r.pc = "apply" /\ r.at = a
    BY <2>2, IdleFits DEF Fit, Good, CallRecords, Pcs, ActingPcs
  <2>4. Fit(r, o)
    BY <2>3 DEF Fit, ReadPcs
  <2>5. Moved(o) /\ call'[o] = r
    <3>1. call' = [call EXCEPT ![o] = r]
      BY <2>1
    <3> HIDE DEF r
    <3> QED
      BY <2>4, <3>1, Becomes
  <2>6. /\ saved' \in SavedRows /\ saved'.run = run /\ saved'.owner = o
    BY <2>1 DEF Formed, SavedRows, Good
  <2> QED
    BY <2>1, <2>3, <2>5, <2>6 DEF Recorded, Ended
<1>2. CASE ~Saves(o)
  BY <1>2, EndsWell DEF Prepares, Recorded
<1> QED
  BY <1>1, <1>2

(* A call that returns its run.                                             *)
LEMMA ReturnsWell ==
  ASSUME Formed, NEW o \in Owners, Live(o), UNCHANGED input,
         NEW run, Good(run), run.status = "completed" => Satisfied(run), Returns(o, run)
  PROVE  Moved(o) /\ Recorded(o) /\ call'[o].pc = "idle"
<1>1. Moved(o) /\ call'[o].pc = "idle"
  BY EndsWell DEF Returns
<1>2. CASE Saves(o)
  <2>1. saved' = [owner |-> saved.owner, leased |-> TRUE, run |-> run] /\ saved.owner = o
    BY <1>2 DEF Returns, Saves
  <2>2. /\ saved' \in SavedRows /\ saved'.run = run /\ saved'.owner = o
    BY <2>1 DEF Formed, SavedRows, Good
  <2> QED
    BY <1>1, <2>1, <2>2 DEF Recorded
<1>3. CASE ~Saves(o)
  BY <1>1, <1>3 DEF Returns, Recorded
<1> QED
  BY <1>2, <1>3

(* A call that goes on with its run, under another pc of the same kind.     *)
LEMMA MovesOn ==
  ASSUME Formed, NEW o \in Owners, UNCHANGED input, NEW pc \in Pcs, NEW answer \in AnswersOf,
         \/ pc \in RestPcs
         \/ pc \in ReadPcs /\ call[o].pc \in ReadPcs
         \/ pc \in ActingPcs /\ call[o].pc \in ActingPcs,
         Live(o), call' = [call EXCEPT ![o] = [call[o] EXCEPT !.pc = pc, !.answer = answer]]
  PROVE  /\ Moved(o) /\ call'[o].pc = pc /\ call'[o].answer = answer
         /\ call'[o].run = call[o].run /\ call'[o].at = call[o].at
<1> DEFINE r == [call[o] EXCEPT !.pc = pc, !.answer = answer]
<1>1. Fit(call[o], o) /\ call[o] \in CallRecords
  BY DEF Formed, Fit
<1>2. /\ r \in CallRecords /\ r.pc = pc /\ r.answer = answer /\ r.run = call[o].run
      /\ r.at = call[o].at
  BY <1>1 DEF CallRecords
<1>3. Fit(r, o)
  BY <1>1, <1>2 DEF Fit, RestPcs, ReadPcs, ActingPcs
<1>4. Moved(o) /\ call'[o] = r
  BY <1>3, Becomes
<1> QED
  BY <1>2, <1>4
-----------------------------------------------------------------------------
(* The steps of a call that leave the journal and the provider alone.       *)

Quiet(o) ==
  /\ Moved(o) /\ Recorded(o) /\ UNCHANGED <<journal, sent, fenced, effects>>
  /\ call'[o].pc \notin {"send", "sent"}
  /\ call'[o].pc \in {"read", "told"} => call'[o].answer = "unknown"
  /\ call'[o].pc = "tell" /\ call'[o].answer = "applied" =>
       effects[call'[o].run.actions[call'[o].at].iteration] > 0

(* What is known of a live call before its step.                            *)
LEMMA CallFacts ==
  ASSUME Formed, NEW o \in Owners
  PROVE  /\ Fit(call[o], o) /\ call[o] \in CallRecords /\ Good(call[o].run) /\ ~Ended(call[o].run)
         /\ call[o].pc \in Pcs /\ call[o].answer \in AnswersOf /\ call[o].at \in 0..Len(input)
         /\ call[o].run.status \in RunStatuses /\ call[o].back \in {"close", "recover"}
  BY DEF Formed, Fit, Good, Runs, CallRecords

(* An attempt is an owner's, for an iteration.                              *)
LEMMA AttemptFacts ==
  ASSUME Formed, NEW o \in Owners, call[o].pc \in ReadPcs \cup ActingPcs
  PROVE  /\ call[o].at \in DOMAIN call[o].run.actions
         /\ Attempt(o) \in Owners \X Iterations /\ Attempt(o) = <<Attempt(o)[1], Attempt(o)[2]>>
         /\ Attempt(o)[2] = call[o].run.actions[call[o].at].iteration
         /\ Attempt(o)[1] = call[o].run.actions[call[o].at].token
         /\ call[o].pc \in ActingPcs => Attempt(o)[1] = o
         /\ call[o].run.actions[call[o].at].state # "rejected"
<1>1. Fit(call[o], o) /\ Good(call[o].run)
  BY CallFacts
<1> DEFINE row == call[o].run.actions[call[o].at]
<1>2. call[o].at \in DOMAIN call[o].run.actions /\ row \in Actions
  BY <1>1, ActionsOf DEF Fit
<1>3. row.token # None /\ row.state # "rejected"
  BY <1>1, <1>2, LoopAssumption DEF Fit, Good, Ordered
<1> QED
  BY <1>1, <1>2, <1>3 DEF Fit, Attempt, Actions, Tokens

(* A call that returns its run under a status other than completed.         *)
LEMMA ReturnsAs ==
  ASSUME Formed, NEW o \in Owners, Live(o), UNCHANGED <<input, journal, provider>>,
         NEW run, Good(run), NEW status \in RunStatuses,
         status = "completed" => Satisfied(run), Returns(o, WithStatus(run, status))
  PROVE  Quiet(o)
<1> DEFINE new == WithStatus(run, status)
<1>1. /\ Good(new) /\ new.status = status /\ new.iteration = run.iteration
      /\ new.actions = run.actions
  BY GoodStatus
<1>2. Satisfied(run) => Satisfied(new)
  BY <1>1 DEF Satisfied, Having
<1> HIDE DEF new
<1>3. Moved(o) /\ Recorded(o) /\ call'[o].pc = "idle"
  BY <1>1, <1>2, ReturnsWell DEF new
<1> QED
  BY <1>3 DEF Quiet, provider

(* A call that ends.                                                        *)
LEMMA EndsQuietly ==
  ASSUME Formed, NEW o \in Owners, Live(o), UNCHANGED <<stores, provider>>, Ends(o)
  PROVE  Quiet(o)
  BY EndsWell DEF Quiet, Recorded, provider, stores

(* A call that persists its run.                                            *)
LEMMA PersistsQuietly ==
  ASSUME Formed, NEW o \in Owners, Live(o), UNCHANGED <<input, journal, provider>>,
         NEW run, Good(run), ~Ended(run), NEW pc \in RestPcs, Persist(o, run, pc)
  PROVE  Quiet(o)
<1>1. Moved(o) /\ Recorded(o) /\ call'[o].pc \in {pc, "idle"}
  BY PersistsWell
<1> QED
  BY <1>1 DEF Quiet, provider, RestPcs

(* A call that persists its run before an apply.                            *)
LEMMA PreparesQuietly ==
  ASSUME Formed, NEW o \in Owners, Live(o), UNCHANGED <<input, journal, provider>>,
         NEW run, Good(run), ~Ended(run), NEW a \in DOMAIN run.actions, run.actions[a].token = o,
         NEW back \in {"close", "recover"}, Prepares(o, run, a, back)
  PROVE  Quiet(o)
<1>1. Moved(o) /\ Recorded(o) /\ call'[o].pc \in {"apply", "idle"}
  BY PreparesWell
<1> QED
  BY <1>1 DEF Quiet, provider

(* reconcilePreparedActions, but for the read-back's own answer.            *)
LEMMA QuietReconciles ==
  ASSUME IInv, NEW o \in Owners,
         \/ NothingOpen(o) \/ NoEnvelope(o) \/ NotInJournal(o) \/ JournalAnswers(o)
         \/ EnvelopeRefused(o) \/ ReadBack(o) \/ ReadBackUnsure(o) \/ StillUnknown(o)
  PROVE  Quiet(o)
<1> USE DEF IInv
<1> DEFINE run == call[o].run
<1>0. /\ Formed /\ call[o] \in CallRecords /\ Fit(call[o], o) /\ Good(run) /\ ~Ended(run)
      /\ call[o].answer \in AnswersOf
  BY CallFacts
<1>1. CASE NothingOpen(o)
  <2>1. Good(WithStatus(run, "running")) /\ ~Ended(WithStatus(run, "running"))
    BY <1>0, GoodStatus DEF RunStatuses, Ended
  <2> QED
    BY <1>1, <2>1, PersistsQuietly DEF NothingOpen, At, Live, RestPcs
<1>2. CASE NoEnvelope(o) \/ EnvelopeRefused(o) \/ StillUnknown(o)
  <2>1. Live(o) /\ UNCHANGED <<input, journal, provider>> /\ Waits(o)
    BY <1>2 DEF NoEnvelope, EnvelopeRefused, StillUnknown, Reconciling, At, Live
  <2> QED
    BY <1>0, <2>1, ReturnsAs DEF Waits, RunStatuses
<1>3. CASE NotInJournal(o)
  <2>1. Live(o) /\ UNCHANGED <<stores, provider>> /\ Ends(o)
    BY <1>3 DEF NotInJournal, Reconciling, At, Live
  <2> QED
    BY <2>1, EndsQuietly
<1>4. CASE JournalAnswers(o)
  <2> DEFINE a == OpenAt(o)
             i == OpenIteration(o)
             new == WithState(run, a, Settled(journal[i].state))
             r == [call[o] EXCEPT !.run = new]
  <2>1. a \in DOMAIN run.actions /\ run.actions[a].state # "rejected"
    BY <1>0, <1>4, FirstHaving DEF JournalAnswers, Reconciling, OpenAt, Open
  <2>2. i \in Iterations /\ i = run.actions[a].iteration
    BY <1>0, <2>1, ActionsOf DEF OpenIteration, Actions
  <2>3. /\ journal[i].state \in {"applied", "confirmed_no_effect"}
        /\ journal[i].state = "applied" => effects[i] > 0
    BY <1>4, <2>2 DEF JournalAnswers, Held
  <2>4. /\ Settled(journal[i].state) \in ActionStates \ {"rejected"}
        /\ Settled(journal[i].state) = "applied" => effects[i] > 0
    BY <2>3 DEF Settled, ActionStates
  <2> HIDE DEF i
  <2>5. Good(new) /\ new.status = run.status
    BY <1>0, <2>1, <2>2, <2>4, GoodState
  <2> HIDE DEF new
  <2>6. r \in CallRecords /\ r.run = new /\ r.pc = "reconcile" /\ Live(o)
    BY <1>0, <1>4, <2>5 DEF JournalAnswers, Reconciling, At, Live, Good, CallRecords
  <2>7. Fit(r, o)
    BY <1>0, <2>5, <2>6 DEF Fit, Ended, ReadPcs, ActingPcs
  <2>8. call' = [call EXCEPT ![o] = r] /\ UNCHANGED <<stores, provider>>
    BY <1>4 DEF JournalAnswers, new, i
  <2>9. Moved(o) /\ call'[o] = r
    <3> HIDE DEF r
    <3> QED
      BY <2>6, <2>7, <2>8, Becomes DEF stores
  <2> QED
    BY <2>6, <2>8, <2>9 DEF Quiet, Recorded, stores, provider
<1>5. CASE ReadBack(o)
  <2> DEFINE a == OpenAt(o)
             r == [call[o] EXCEPT !.pc = "reading", !.envelope = "spent", !.at = a]
  <2>1. a \in DOMAIN run.actions /\ run.actions[a].state \in {"prepared", "unknown"}
    BY <1>0, <1>5, FirstHaving DEF ReadBack, Reconciling, OpenAt, Open
  <2>2. a \in 0..Len(input)
    <3>1. /\ Len(run.actions) \in Nat /\ DOMAIN run.actions = 1..Len(run.actions)
          /\ run.iteration \in 0..Len(input) /\ Len(run.actions) <= run.iteration
      BY <1>0, ActionsOf DEF Good, Ordered
    <3> QED
      BY <2>1, <3>1 DEF Formed
  <2>3. r \in CallRecords /\ r.run = run /\ r.pc = "reading" /\ r.at = a /\ Live(o)
    BY <1>0, <1>5, <2>2 DEF ReadBack, Reconciling, At, Live, CallRecords, Pcs, ReadPcs
  <2>4. Fit(r, o)
    BY <1>0, <2>1, <2>3 DEF Fit, ActingPcs
  <2>5. call' = [call EXCEPT ![o] = r] /\ UNCHANGED <<stores, provider>>
    BY <1>5 DEF ReadBack
  <2>6. Moved(o) /\ call'[o] = r
    <3> HIDE DEF r
    <3> QED
      BY <2>3, <2>4, <2>5, Becomes DEF stores
  <2> QED
    BY <2>3, <2>5, <2>6 DEF Quiet, Recorded, stores, provider
<1>6. CASE ReadBackUnsure(o)
  <2>1. /\ call[o].pc = "reading" /\ Live(o) /\ UNCHANGED <<stores, provider>>
        /\ call' = [call EXCEPT ![o].pc = "read", ![o].answer = "unknown"]
    BY <1>6 DEF ReadBackUnsure, At, Live, Answers
  <2>2. call' = [call EXCEPT ![o] = [call[o] EXCEPT !.pc = "read", !.answer = "unknown"]]
    BY <2>1
  <2>3. Moved(o) /\ call'[o].pc = "read" /\ call'[o].answer = "unknown"
    BY <1>0, <2>1, <2>2, MovesOn DEF Pcs, ReadPcs, AnswersOf, stores
  <2> QED
    BY <2>1, <2>3 DEF Quiet, Recorded, stores, provider
<1> QED
  BY <1>1, <1>2, <1>3, <1>4, <1>5, <1>6

(* The recovery of actions known to have had no effect.                     *)
LEMMA QuietRecovers ==
  ASSUME IInv, NEW o \in Owners, Recovers(o)
  PROVE  Quiet(o)
<1> USE DEF IInv
<1> DEFINE run == call[o].run
           a == RetryAt(o)
<1>0. /\ Formed /\ Good(run) /\ ~Ended(run) /\ run.status \in RunStatuses
  BY CallFacts
<1>1. Live(o) /\ UNCHANGED <<input, journal, provider>>
  BY DEF Recovers, RetryStale, RetryRefused, Retry, Recovered, Recovering, AllRecovered, At, Live
<1>2. CASE RetryStale(o)
  BY <1>0, <1>1, <1>2, ReturnsAs DEF RetryStale, RunStatuses
<1>3. ASSUME Recovering(o) PROVE a \in DOMAIN run.actions
  BY <1>0, <1>3, FirstHaving DEF Recovering, RetryAt, Retryable
<1>4. CASE RetryRefused(o)
  <2> DEFINE new == Reset(run, a, None, "rejected")
  <2>1. Good(new)
    BY <1>0, <1>3, <1>4, GoodTokenState DEF RetryRefused, Tokens, ActionStates
  <2>2. Returns(o, WithStatus(new, "stopped"))
    BY <1>4 DEF RetryRefused, Reset
  <2> HIDE DEF new
  <2> QED
    BY <1>0, <1>1, <2>1, <2>2, ReturnsAs DEF RunStatuses
<1>5. CASE Retry(o)
  <2> DEFINE new == Reset(run, a, o, "prepared")
  <2>1. /\ Good(new) /\ new.status = run.status
        /\ a \in DOMAIN new.actions /\ new.actions[a].token = o
    <3>1. /\ o \in Tokens /\ o # None /\ "prepared" \in ActionStates \ {"applied"}
          /\ a \in DOMAIN run.actions
      BY <1>3, <1>5, LoopAssumption DEF Retry, Tokens, ActionStates
    <3> HIDE DEF a
    <3>2. o = None <=> "prepared" = "rejected"
      BY <3>1
    <3> QED
      BY <1>0, <3>1, <3>2, GoodTokenState
  <2>2. Prepares(o, new, a, "recover")
    BY <1>5 DEF Retry, Reset
  <2> HIDE DEF new
  <2>3. ~Ended(new)
    BY <1>0, <2>1 DEF Ended
  <2> QED
    BY <1>0, <1>1, <2>1, <2>2, <2>3, PreparesQuietly
<1>6. CASE Recovered(o)
  BY <1>0, <1>1, <1>6, ReturnsAs DEF Recovered, RunStatuses
<1> QED
  BY <1>2, <1>4, <1>5, <1>6 DEF Recovers

(* An apply that is refused, that finds the row taken, whose transport is   *)
(* unsure, or that is told.                                                 *)
LEMMA QuietApplies ==
  ASSUME IInv, NEW o \in Owners,
         \/ ApplyRefused(o) \/ TransportUnsure(o) \/ Outcome(o)
         \/ ClaimEffect(o) /\ UNCHANGED journal /\ call'[o].pc = "tell"
  PROVE  Quiet(o)
<1> USE DEF IInv
<1> DEFINE run == call[o].run
<1>0. /\ Formed /\ call[o] \in CallRecords /\ Fit(call[o], o) /\ Good(run) /\ ~Ended(run)
      /\ call[o].answer \in AnswersOf /\ call[o].back \in {"close", "recover"}
  BY CallFacts
<1>1. CASE ApplyRefused(o)
  <2>1. Live(o) /\ UNCHANGED <<stores, provider>> /\ Ends(o)
    BY <1>1 DEF ApplyRefused, At, Live
  <2> QED
    BY <2>1, EndsQuietly
<1>2. CASE TransportUnsure(o)
  <2>1. /\ call[o].pc = "sent" /\ Live(o) /\ UNCHANGED <<stores, provider>>
        /\ call' = [call EXCEPT ![o].pc = "told", ![o].answer = "unknown"]
    BY <1>2 DEF TransportUnsure, At, Live, Answers
  <2>2. call' = [call EXCEPT ![o] = [call[o] EXCEPT !.pc = "told", !.answer = "unknown"]]
    BY <2>1
  <2>3. Moved(o) /\ call'[o].pc = "told" /\ call'[o].answer = "unknown"
    BY <1>0, <2>1, <2>2, MovesOn DEF Pcs, ActingPcs, AnswersOf, stores
  <2> QED
    BY <2>1, <2>3 DEF Quiet, Recorded, stores, provider
<1>3. CASE Outcome(o)
  <2> DEFINE new == WithState(run, call[o].at, call[o].answer)
  <2>0. /\ call[o].pc = "tell" /\ Live(o) /\ UNCHANGED <<input, journal, provider>>
    BY <1>3 DEF Outcome, At, Live
  <2>1. /\ call[o].at \in DOMAIN run.actions /\ run.actions[call[o].at].state # "rejected"
        /\ Attempt(o)[2] = run.actions[call[o].at].iteration
    BY <2>0, AttemptFacts DEF ActingPcs
  <2>2. call[o].answer = "applied" => effects[run.actions[call[o].at].iteration] > 0
    BY <2>0, <2>1 DEF Heard
  <2>3. call[o].answer \in ActionStates \ {"rejected"}
    BY <1>0 DEF AnswersOf, ActionStates
  <2>4. Good(new) /\ new.status = run.status
    BY <1>0, <2>1, <2>2, <2>3, GoodState
  <2>5. \/ Returns(o, WithStatus(new, "waiting_for_reconciliation"))
        \/ Persist(o, new, call[o].back)
    BY <1>3 DEF Outcome
  <2> HIDE DEF new
  <2>6. CASE Returns(o, WithStatus(new, "waiting_for_reconciliation"))
    BY <1>0, <2>0, <2>4, <2>6, ReturnsAs DEF RunStatuses
  <2>7. CASE Persist(o, new, call[o].back)
    <3>1. ~Ended(new) /\ call[o].back \in RestPcs
      BY <1>0, <2>4 DEF Ended, RestPcs
    <3> QED
      BY <1>0, <2>0, <2>4, <2>7, <3>1, PersistsQuietly
  <2> QED
    BY <2>5, <2>6, <2>7
<1>4. CASE ClaimEffect(o) /\ UNCHANGED journal /\ call'[o].pc = "tell"
  <2> DEFINE i == Attempt(o)[2]
             answer == IF journal[i].state \in {"prepared", "unknown"} THEN "unknown"
                                                                       ELSE journal[i].state
  <2>0. call[o].pc = "apply" /\ Live(o) /\ UNCHANGED <<stores, provider>>
    BY <1>4 DEF ClaimEffect, At, Live, stores
  <2>1. /\ i \in Iterations /\ i = run.actions[call[o].at].iteration
    BY <2>0, AttemptFacts DEF ActingPcs
  <2>2. /\ ~Claims(i, o)
        /\ call' = [call EXCEPT ![o].pc = "tell", ![o].answer = answer]
    <3>1. CASE call' = [call EXCEPT ![o].pc = "send"]
      BY <1>0, <1>4, <3>1 DEF Formed, CallRecords
    <3> QED
      BY <1>4, <3>1 DEF ClaimEffect
  <2>3. journal[i].state \in RowStates \ {"absent"}
    BY <2>1, <2>2 DEF Formed, Rows, Claims
  <2>4. answer \in AnswersOf /\ (answer = "applied" => effects[i] > 0)
    BY <2>1, <2>3 DEF RowStates, AnswersOf, Held
  <2> HIDE DEF answer
  <2>5. call' = [call EXCEPT ![o] = [call[o] EXCEPT !.pc = "tell", !.answer = answer]]
    BY <2>2
  <2>6. /\ Moved(o) /\ call'[o].pc = "tell" /\ call'[o].answer = answer
        /\ call'[o].run = run /\ call'[o].at = call[o].at
    BY <1>0, <2>0, <2>4, <2>5, MovesOn DEF Pcs, ActingPcs, stores
  <2> QED
    BY <2>0, <2>1, <2>4, <2>6 DEF Quiet, Recorded, stores, provider
<1> QED
  BY <1>1, <1>2, <1>3, <1>4

(* The iterations.                                                          *)
LEMMA QuietIterates ==
  ASSUME IInv, NEW o \in Owners, Iterates(o) \/ Crash(o)
  PROVE  Quiet(o)
<1> USE DEF IInv
<1> DEFINE run == call[o].run
<1>0. /\ Formed /\ call[o] \in CallRecords /\ Fit(call[o], o) /\ Good(run) /\ ~Ended(run)
      /\ run.status \in RunStatuses /\ Len(input) \in Nat
  BY CallFacts DEF Formed
<1>1. Live(o) /\ UNCHANGED <<input, journal, provider>>
  BY DEF Iterates, OutOfIterations, EndsBeforeActing, NoMatch, MaximumActions, Refused, StopRefused,
         Act, Close, Crash, Iterating, Acts, AtNext, AllRecovered, At, Live, stores
<1>2. ASSUME Iterating(o)
      PROVE  /\ Good(Advanced(o)) /\ Advanced(o).status = run.status
             /\ \A token \in Tokens, state \in ActionStates :
                  (token = None <=> state = "rejected") /\ state # "applied" =>
                    /\ Good(WithAction(o, token, state))
                    /\ WithAction(o, token, state).status = run.status
                    /\ Len(run.actions) + 1 \in DOMAIN WithAction(o, token, state).actions
                    /\ WithAction(o, token, state).actions[Len(run.actions) + 1].token = token
  <2>1. Next1(o) \in Iterations
    BY <1>2 DEF Iterating
  <2>2. Good(Advanced(o)) /\ Advanced(o).status = run.status
    BY <1>0, <2>1, GoodAdvance
  <2>3. ASSUME NEW token \in Tokens, NEW state \in ActionStates,
               (token = None <=> state = "rejected") /\ state # "applied"
        PROVE  /\ Good(WithAction(o, token, state))
               /\ WithAction(o, token, state).status = run.status
               /\ Len(run.actions) + 1 \in DOMAIN WithAction(o, token, state).actions
               /\ WithAction(o, token, state).actions[Len(run.actions) + 1].token = token
    <3>1. /\ Good(WithAction(o, token, state))
          /\ WithAction(o, token, state).status = run.status
          /\ Len(run.actions) + 1 \in DOMAIN WithAction(o, token, state).actions
          /\ WithAction(o, token, state).actions[Len(run.actions) + 1]
               = [iteration |-> Next1(o), token |-> token, state |-> state]
      BY <1>0, <2>1, <2>3, GoodAdvance
    <3> QED
      BY <3>1
  <2> QED
    BY <2>2, <2>3
<1>3. CASE OutOfIterations(o)
  BY <1>0, <1>1, <1>3, ReturnsAs DEF OutOfIterations, RunStatuses
<1>4. CASE EndsBeforeActing(o)
  <2>1. PICK status \in RunStatuses :
          /\ Returns(o, WithStatus(Advanced(o), status))
          /\ status = "completed" => Satisfied(Advanced(o))
    BY <1>4 DEF EndsBeforeActing, RunStatuses
  <2> QED
    BY <1>0, <1>1, <1>2, <1>4, <2>1, ReturnsAs DEF EndsBeforeActing
<1>5. CASE NoMatch(o)
  <2> DEFINE r == [call[o] EXCEPT !.run = Advanced(o), !.pc = "close"]
  <2>1. Good(Advanced(o)) /\ ~Ended(Advanced(o))
    BY <1>0, <1>2, <1>5 DEF NoMatch, Ended
  <2>2. r \in CallRecords /\ r.run = Advanced(o) /\ r.pc = "close"
    BY <1>0, <2>1 DEF Good, CallRecords, Pcs, RestPcs
  <2>3. Fit(r, o)
    BY <2>1, <2>2 DEF Fit, ReadPcs, ActingPcs
  <2>4. call' = [call EXCEPT ![o] = r] /\ UNCHANGED <<stores, provider>>
    BY <1>5 DEF NoMatch
  <2>5. Moved(o) /\ call'[o] = r
    <3> HIDE DEF r
    <3> QED
      BY <1>0, <1>1, <2>3, <2>4, Becomes
  <2> QED
    BY <2>2, <2>4, <2>5 DEF Quiet, Recorded, stores, provider
<1>6. CASE MaximumActions(o)
  BY <1>0, <1>1, <1>2, <1>6, ReturnsAs DEF MaximumActions, Acts, RunStatuses
<1>7. CASE Refused(o)
  <2>1. Good(WithAction(o, None, "rejected")) /\ WithAction(o, None, "rejected").status = run.status
    BY <1>2, <1>7 DEF Refused, Acts, Tokens, ActionStates
  <2>2. ~Ended(WithAction(o, None, "rejected"))
    BY <1>0, <2>1 DEF Ended
  <2> QED
    BY <1>0, <1>1, <1>7, <2>1, <2>2, PersistsQuietly DEF Refused, RestPcs
<1>8. CASE StopRefused(o)
  BY <1>0, <1>1, <1>8, ReturnsAs DEF StopRefused, RunStatuses
<1>9. CASE Act(o)
  <2> DEFINE new == WithAction(o, o, "prepared")
  <2>1. /\ Good(new) /\ new.status = run.status /\ Len(run.actions) + 1 \in DOMAIN new.actions
        /\ new.actions[Len(run.actions) + 1].token = o
    BY <1>2, <1>9, LoopAssumption DEF Act, Acts, Tokens, ActionStates
  <2>2. ~Ended(new) /\ Prepares(o, new, Len(run.actions) + 1, "close")
    BY <1>0, <1>9, <2>1 DEF Ended, Act
  <2> HIDE DEF new
  <2> QED
    BY <1>0, <1>1, <2>1, <2>2, PreparesQuietly
<1>10. CASE Close(o)
  <2>1. CASE Satisfied(run) /\ Returns(o, WithStatus(run, "completed"))
    BY <1>0, <1>1, <2>1, ReturnsAs DEF RunStatuses
  <2>2. CASE Persist(o, run, "iterate")
    BY <1>0, <1>1, <2>2, PersistsQuietly DEF RestPcs
  <2> QED
    BY <1>10, <2>1, <2>2 DEF Close
<1>11. CASE Crash(o)
  BY <1>0, <1>1, <1>11, EndsQuietly DEF Crash
<1> QED
  BY <1>3, <1>4, <1>5, <1>6, <1>7, <1>8, <1>9, <1>10, <1>11 DEF Iterates
-----------------------------------------------------------------------------
(* From a step's effect on its call and the record to the invariant.        *)

(* A good run stays good when no effect is undone.                          *)
LEMMA StaysGood ==
  ASSUME UNCHANGED input, \A i \in Iterations : effects[i] > 0 => effects'[i] > 0,
         NEW run, Good(run)
  PROVE  /\ run \in Runs' /\ Ordered(run)
         /\ \A a \in DOMAIN run.actions :
              run.actions[a].state = "applied" => effects'[run.actions[a].iteration] > 0
<1>1. \A a \in DOMAIN run.actions : run.actions[a].iteration \in Iterations
  BY ActionsOf DEF Actions
<1> QED
  BY <1>1, SameSets DEF Good, TrueRun

(* The types after a step that changes one call at most.                    *)
LEMMA StaysFormed ==
  ASSUME IInv, UNCHANGED input, \A i \in Iterations : effects[i] > 0 => effects'[i] > 0,
         saved' \in SavedRows, Good(saved'.run),
         call' \in [Owners -> CallRecords], \A o \in Owners : Fit(call'[o], o),
         journal' \in [Iterations -> Rows],
         \A i \in Iterations : journal'[i].state # "absent" <=> journal'[i].token \in Owners,
         sent' \subseteq Owners \X Iterations, fenced' \subseteq Owners \X Iterations,
         effects' \in [Iterations -> Nat]
  PROVE  Formed'
<1>1. Len(input') \in Nat
  BY DEF IInv, Formed
<1>2. Good(saved.run)'
  BY StaysGood DEF Good, TrueRun
<1>3. \A o \in Owners : Fit(call[o], o)'
  <2> TAKE o \in Owners
  <2>1. Fit(call'[o], o) /\ Good(call'[o].run)
    BY DEF Fit
  <2>2. Good(call[o].run)'
    BY <2>1, StaysGood DEF Good, TrueRun
  <2> QED
    BY <2>1, <2>2, SameSets DEF Fit, Ended
<1> QED
  BY <1>1, <1>2, <1>3, SameSets DEF Formed

(* What a call's step needs to show beyond its own move.                    *)
LEMMA CallFrame ==
  ASSUME IInv, NEW o \in Owners, Moved(o), Recorded(o), UNCHANGED effects,
         journal' \in [Iterations -> Rows],
         \A i \in Iterations : journal'[i].state # "absent" <=> journal'[i].token \in Owners,
         sent' \subseteq Owners \X Iterations, fenced' \subseteq Owners \X Iterations
  PROVE  /\ Formed' /\ Left' /\ Finished' /\ AppliedOnce'
         /\ \A p \in Owners : p # o =>
              /\ call'[p] = call[p] /\ Attempt(p)' = Attempt(p)
              /\ \A pc \in Pcs : At(p, pc)' = At(p, pc)
<1>0. /\ Formed /\ UNCHANGED input /\ Live(o) /\ call' \in [Owners -> CallRecords]
      /\ Fit(call'[o], o) /\ \A p \in Owners : p # o => call'[p] = call[p]
  BY DEF IInv, Moved
<1>1. saved' \in SavedRows /\ Good(saved'.run)
  BY <1>0 DEF Recorded, Formed
<1>2. \A p \in Owners : Fit(call'[p], p)
  BY <1>0 DEF Formed
<1>3. Formed'
  BY <1>0, <1>1, <1>2, StaysFormed DEF IInv, Formed
<1>4. Left'
  <2>1. CASE UNCHANGED saved
    BY <1>0, <2>1 DEF IInv, Left, Live, At, Ended
  <2>2. CASE saved'.owner = o /\ (Ended(saved'.run) => call'[o].pc = "idle")
    BY <2>2 DEF Left, Live, At, Ended
  <2> QED
    BY <2>1, <2>2 DEF Recorded
<1>5. Finished'
  BY <1>0 DEF IInv, Recorded, Finished, Satisfied, Having
<1>6. AppliedOnce'
  BY <1>0 DEF IInv, AppliedOnce, Iterations
<1> QED
  BY <1>0, <1>3, <1>4, <1>5, <1>6 DEF Attempt, At

(* A quiet step keeps the invariant.                                        *)
LEMMA QuietStep ==
  ASSUME IInv, NEW o \in Owners, Quiet(o)
  PROVE  IInv'
<1>0. /\ Moved(o) /\ Recorded(o) /\ UNCHANGED <<input, journal, sent, fenced, effects>>
      /\ Formed
  BY DEF IInv, Quiet, Moved
<1>1. /\ Formed' /\ Left' /\ Finished' /\ AppliedOnce'
      /\ \A p \in Owners : p # o => /\ call'[p] = call[p] /\ Attempt(p)' = Attempt(p)
                                    /\ \A pc \in Pcs : At(p, pc)' = At(p, pc)
  BY <1>0, CallFrame DEF Formed
<1>2. Held'
  BY <1>0 DEF IInv, Held, Iterations
<1>3. ASSUME NEW p \in Owners PROVE Asked(p)' /\ Heard(p)'
  <2>1. CASE p = o
    BY <2>1 DEF Quiet, Asked, Heard, At, Attempt
  <2>2. CASE p # o
    <3>1. Asked(p) /\ Heard(p) /\ Attempt(p)' = Attempt(p) /\ call'[p] = call[p]
      BY <1>1, <2>2 DEF IInv
    <3> QED
      BY <1>0, <3>1 DEF Asked, Heard, At
  <2> QED
    BY <2>1, <2>2
<1> QED
  BY <1>1, <1>2, <1>3 DEF IInv
-----------------------------------------------------------------------------
(* The steps of a call that change the journal or the provider.             *)

(* A call that goes on under another pc alone.                              *)
LEMMA PcMoves ==
  ASSUME Formed, NEW o \in Owners, Live(o), UNCHANGED input, NEW pc \in Pcs,
         \/ pc \in RestPcs
         \/ pc \in ReadPcs /\ call[o].pc \in ReadPcs
         \/ pc \in ActingPcs /\ call[o].pc \in ActingPcs,
         call' = [call EXCEPT ![o].pc = pc]
  PROVE  /\ Moved(o) /\ call'[o].pc = pc /\ call'[o].answer = call[o].answer
         /\ call'[o].run = call[o].run /\ call'[o].at = call[o].at
<1>1. call[o] \in CallRecords /\ call[o].answer \in AnswersOf
  BY CallFacts
<1>2. [call[o] EXCEPT !.pc = pc] = [call[o] EXCEPT !.pc = pc, !.answer = call[o].answer]
  BY <1>1 DEF CallRecords
<1>3. call' = [call EXCEPT ![o] = [call[o] EXCEPT !.pc = pc, !.answer = call[o].answer]]
  BY <1>2
<1> QED
  BY ZenonT(60), <1>1, <1>3, MovesOn

(* #claim gives the row to the attempt: nothing of the iteration is under   *)
(* way and its effect is not there.                                         *)
LEMMA ClaimedEffect ==
  ASSUME IInv, NEW o \in Owners, ClaimEffect(o), Claims(Attempt(o)[2], o),
         call' = [call EXCEPT ![o].pc = "send"],
         journal' = [journal EXCEPT ![Attempt(o)[2]] = [token |-> o, state |-> "prepared"]]
  PROVE  IInv'
<1> DEFINE i == Attempt(o)[2]
<1>0. /\ Formed /\ call[o].pc = "apply" /\ Live(o)
      /\ UNCHANGED <<input, saved, sent, fenced, effects>>
  BY DEF IInv, ClaimEffect, At, Live, provider
<1>1. /\ i \in Iterations /\ Attempt(o) = <<o, i>>
  BY <1>0, AttemptFacts DEF ActingPcs
<1>2. /\ Moved(o) /\ call'[o].pc = "send" /\ call'[o].run = call[o].run /\ call'[o].at = call[o].at
  BY <1>0, PcMoves DEF Pcs, ActingPcs
<1>3. /\ journal' \in [Iterations -> Rows] /\ journal'[i].token = o /\ journal'[i].state = "prepared"
      /\ \A j \in Iterations : j # i => journal'[j] = journal[j]
  BY <1>0, <1>1 DEF Formed, Rows, RowStates, Tokens
<1>4. /\ Formed' /\ Left' /\ Finished' /\ AppliedOnce'
      /\ \A p \in Owners : p # o => /\ call'[p] = call[p] /\ Attempt(p)' = Attempt(p)
                                    /\ \A pc \in Pcs : At(p, pc)' = At(p, pc)
  <2>1. \A j \in Iterations : journal'[j].state # "absent" <=> journal'[j].token \in Owners
    BY <1>0, <1>3 DEF Formed
  <2> QED
    BY <1>0, <1>2, <1>3, <2>1, CallFrame DEF Formed, Recorded
<1>5. journal[i].state \in {"absent", "confirmed_no_effect"} /\ effects[i] = 0
  BY <1>1 DEF Claims, IInv, Held
<1>6. \A t \in sent : t[2] # i /\ t[2] \in Iterations
  BY <1>0, <1>5 DEF IInv, Held, Formed
<1>7. \A t \in fenced : t[2] \in Iterations
  BY <1>0 DEF Formed
<1>8. Held'
  BY <1>0, <1>3, <1>5, <1>6, <1>7 DEF IInv, Held, Iterations
<1>9. ASSUME NEW p \in Owners PROVE Asked(p)' /\ Heard(p)'
  <2>1. CASE p = o
    <3>1. Attempt(o)' = <<o, i>> /\ call'[o].pc = "send"
      BY <1>1, <1>2 DEF Attempt
    <3> QED
      BY <2>1, <3>1, <1>0, <1>3, <1>5, <1>6 DEF Asked, Heard, At
  <2>2. CASE p # o
    <3>1. Asked(p) /\ Heard(p) /\ Attempt(p)' = Attempt(p) /\ call'[p] = call[p]
      BY <1>4, <2>2 DEF IInv
    <3>2. Heard(p)'
      BY <1>0, <3>1 DEF Heard
    <3>3. At(p, "send") => Attempt(p)[2] \in Iterations
      BY <1>0, AttemptFacts DEF At, ActingPcs
    <3>4. Asked(p)'
      BY <1>0, <1>3, <1>5, <3>1, <3>3 DEF Asked, At
    <3> QED
      BY <3>2, <3>4
  <2> QED
    BY <2>1, <2>2
<1>10. journal' \in [Iterations -> Rows]
  BY <1>3
<1> QED
  BY <1>4, <1>8, <1>9 DEF IInv

(* The attempt goes to the provider.                                        *)
LEMMA SendStep ==
  ASSUME IInv, NEW o \in Owners, Send(o)
  PROVE  IInv'
<1> DEFINE i == Attempt(o)[2]
<1>0. /\ Formed /\ call[o].pc = "send" /\ Live(o)
      /\ UNCHANGED <<input, saved, journal, fenced, effects>>
      /\ sent' = sent \cup ({Attempt(o)} \ fenced)
  BY DEF IInv, Send, At, Live, stores
<1>1. /\ i \in Iterations /\ Attempt(o) = <<o, i>> /\ Attempt(o) \in Owners \X Iterations
  BY <1>0, AttemptFacts DEF ActingPcs
<1>2. /\ Moved(o) /\ call'[o].pc = "sent" /\ call'[o].run = call[o].run /\ call'[o].at = call[o].at
  BY <1>0, PcMoves DEF Send, Pcs, ActingPcs
<1>3. /\ Formed' /\ Left' /\ Finished' /\ AppliedOnce'
      /\ \A p \in Owners : p # o => /\ call'[p] = call[p] /\ Attempt(p)' = Attempt(p)
                                    /\ \A pc \in Pcs : At(p, pc)' = At(p, pc)
  <2>1. sent' \subseteq Owners \X Iterations
    BY <1>0, <1>1 DEF Formed
  <2> QED
    BY <1>0, <1>2, <2>1, CallFrame DEF Formed, Recorded
<1>4. Attempt(o) \notin fenced => /\ journal[i].token = o
                                  /\ journal[i].state \in {"prepared", "unknown"} /\ effects[i] = 0
  BY <1>0 DEF IInv, Asked, At
<1>5. Held'
  <2>1. sent' \cap fenced' = {}
    BY <1>0 DEF IInv, Held
  <2>2. ASSUME NEW t \in sent'
        PROVE  /\ journal[t[2]].token = t[1] /\ journal[t[2]].state \in {"prepared", "unknown"}
               /\ effects[t[2]] = 0
    <3>1. CASE t \in sent
      BY <3>1 DEF IInv, Held
    <3>2. CASE t = Attempt(o) /\ Attempt(o) \notin fenced
      <4>1. t[1] = o /\ t[2] = i
        BY <1>1, <3>2
      <4> QED
        BY <1>4, <3>2, <4>1
    <3> QED
      BY <1>0, <3>1, <3>2
  <2> QED
    BY <1>0, <2>1, <2>2 DEF IInv, Held, Iterations
<1>6. ASSUME NEW p \in Owners PROVE Asked(p)' /\ Heard(p)'
  <2>1. CASE p = o
    <3>1. Attempt(o)' = Attempt(o)
      BY <1>2 DEF Attempt
    <3> QED
      BY <2>1, <3>1, <1>0, <1>2 DEF Asked, Heard, At
  <2>2. CASE p # o
    <3>1. Asked(p) /\ Heard(p) /\ Attempt(p)' = Attempt(p) /\ call'[p] = call[p]
      BY <1>3, <2>2 DEF IInv
    <3>2. Heard(p)'
      BY <1>0, <3>1 DEF Heard
    <3>3. At(p, "send") => Attempt(p) # Attempt(o)
      <4>1. At(p, "send") => Attempt(p)[1] = p
        BY <1>0, AttemptFacts DEF At, ActingPcs
      <4>2. Attempt(o)[1] = o
        BY <1>1
      <4> QED
        BY <2>2, <4>1, <4>2
    <3>4. Asked(p)'
      BY <1>0, <3>1, <3>3 DEF Asked, At
    <3> QED
      BY <3>2, <3>4
  <2> QED
    BY <2>1, <2>2
<1> QED
  BY <1>3, <1>5, <1>6 DEF IInv

(* The provider's definite answers, to the transport's call and to a        *)
(* read-back: the effect is there, or it is not and the attempt is fenced.  *)
LEMMA AnswerStep ==
  ASSUME IInv, NEW o \in Owners, TransportAnswers(o) \/ ReadBackSees(o)
  PROVE  IInv'
<1> DEFINE A == Attempt(o)
           i == A[2]
           told == IF call[o].pc = "reading" THEN "read" ELSE "told"
<1>0. /\ Formed /\ call[o].pc \in {"sent", "reading"} /\ Live(o)
      /\ UNCHANGED <<input, saved, journal, effects>>
  BY DEF IInv, TransportAnswers, ReadBackSees, At, Live, stores
<1>1. /\ i \in Iterations /\ A = <<A[1], i>> /\ A \in Owners \X Iterations
      /\ call[o].pc = "sent" => A[1] = o
  BY <1>0, AttemptFacts DEF ActingPcs, ReadPcs
<1>2. \/ Answers(o, "applied") /\ UNCHANGED <<sent, fenced>> /\ effects[i] > 0
      \/ /\ Answers(o, "confirmed_no_effect")
         /\ sent' = sent \ {A} /\ fenced' = fenced \cup {A}
         /\ journal[i].token = A[1] => effects[i] = 0
  <2>1. CASE ReadBackSees(o)
    BY <2>1 DEF ReadBackSees
  <2>2. CASE TransportAnswers(o)
    <3>1. A \notin sent \cup fenced => effects[i] > 0
      BY <2>2 DEF TransportAnswers, IInv, Asked
    <3>2. A \in sent \cup fenced /\ journal[i].token = A[1] => effects[i] = 0
      BY DEF IInv, Held
    <3> QED
      BY <2>2, <3>1, <3>2 DEF TransportAnswers
  <2> QED
    BY <2>1, <2>2
<1>3. ASSUME NEW answer \in {"applied", "confirmed_no_effect"}, Answers(o, answer)
      PROVE  /\ Moved(o) /\ call'[o].pc = told /\ call'[o].answer = answer
             /\ call'[o].run = call[o].run /\ call'[o].at = call[o].at
  <2>1. call' = [call EXCEPT ![o] = [call[o] EXCEPT !.pc = told, !.answer = answer]]
    BY <1>3 DEF Answers
  <2>2. /\ told \in Pcs /\ answer \in AnswersOf
        /\ \/ told \in ReadPcs /\ call[o].pc \in ReadPcs
           \/ told \in ActingPcs /\ call[o].pc \in ActingPcs
    BY <1>0 DEF Pcs, ReadPcs, ActingPcs, AnswersOf
  <2> HIDE DEF told
  <2> QED
    BY <1>0, <2>1, <2>2, MovesOn
<1>4. /\ Moved(o) /\ call'[o].pc \in {"read", "told"} /\ Attempt(o)' = A
      /\ \/ call'[o].answer = "applied" /\ effects[i] > 0
         \/ call'[o].answer = "confirmed_no_effect" /\ A \in fenced'
  BY <1>2, <1>3 DEF Attempt
<1>5. sent' \subseteq sent /\ fenced \subseteq fenced' /\ fenced' \subseteq fenced \cup {A}
      /\ sent \subseteq sent' \cup fenced'
  BY <1>2
<1>6. /\ Formed' /\ Left' /\ Finished' /\ AppliedOnce'
      /\ \A p \in Owners : p # o => /\ call'[p] = call[p] /\ Attempt(p)' = Attempt(p)
                                    /\ \A pc \in Pcs : At(p, pc)' = At(p, pc)
  <2>1. sent' \subseteq Owners \X Iterations /\ fenced' \subseteq Owners \X Iterations
    BY <1>0, <1>1, <1>5 DEF Formed
  <2> QED
    BY <1>0, <1>4, <2>1, CallFrame DEF Formed, Recorded
<1>7. Held'
  <2>1. sent' \cap fenced' = {}
    BY <1>2 DEF IInv, Held
  <2>2. ASSUME NEW t \in fenced', journal[t[2]].token = t[1] PROVE effects[t[2]] = 0
    BY <1>2, <2>2 DEF IInv, Held
  <2> QED
    BY <1>0, <1>5, <2>1, <2>2 DEF IInv, Held, Iterations
<1>8. ASSUME NEW p \in Owners PROVE Asked(p)' /\ Heard(p)'
  <2>1. CASE p = o
    BY <2>1, <1>0, <1>4 DEF Asked, Heard, At
  <2>2. CASE p # o
    <3>1. Asked(p) /\ Heard(p) /\ Attempt(p)' = Attempt(p) /\ call'[p] = call[p]
      BY <1>6, <2>2 DEF IInv
    <3> QED
      BY <1>0, <1>5, <3>1 DEF Asked, Heard, At
  <2> QED
    BY <2>1, <2>2
<1> QED
  BY <1>6, <1>7, <1>8 DEF IInv

(* An answer that enters the journal is true of the row it settles, and     *)
(* nothing of a settled row is under way.                                   *)
LEMMA Records ==
  ASSUME IInv, NEW o \in Owners, call[o].pc \in {"read", "told"},
         journal[Attempt(o)[2]].token = Attempt(o)[1],
         journal[Attempt(o)[2]].state # "absent",
         Moved(o), UNCHANGED <<saved, sent, fenced, effects>>,
         journal' = [journal EXCEPT ![Attempt(o)[2]].state = Completed(Attempt(o)[2], call[o].answer)],
         call'[o].pc \in RestPcs \cup {"tell"},
         call'[o].pc = "tell" =>
           Attempt(o)' = Attempt(o) /\ call'[o].answer = journal'[Attempt(o)[2]].state
  PROVE  IInv'
<1> DEFINE A == Attempt(o)
           i == A[2]
<1>0. Formed /\ UNCHANGED input /\ call[o].answer \in AnswersOf
  BY CallFacts DEF IInv, Moved
<1>1. /\ i \in Iterations /\ A = <<A[1], i>> /\ A \in Owners \X Iterations
  BY <1>0, AttemptFacts DEF ActingPcs, ReadPcs
<1>2. /\ journal' \in [Iterations -> Rows] /\ journal'[i].token = A[1]
      /\ journal'[i].state = Completed(i, call[o].answer)
      /\ \A j \in Iterations : journal'[j].token = journal[j].token
      /\ \A j \in Iterations : j # i => journal'[j] = journal[j]
  <2>1. Completed(i, call[o].answer) \in RowStates
    BY <1>0, <1>1 DEF Completed, Formed, Rows, RowStates, AnswersOf
  <2> QED
    BY <1>0, <1>1, <2>1 DEF Formed, Rows
<1>3. /\ journal'[i].state \in {"applied", "confirmed_no_effect", "unknown"}
      /\ journal'[i].state = "unknown" => journal[i].state \in {"prepared", "unknown"}
      /\ journal'[i].state = "applied" => effects[i] > 0
      /\ journal'[i].state = "confirmed_no_effect" =>
           /\ effects[i] = 0
           /\ journal[i].state = "confirmed_no_effect" \/ A \in fenced
  <2>1. CASE Decided(i)
    BY <1>0, <1>1, <1>2, <2>1 DEF Completed, Decided, IInv, Held
  <2>2. CASE ~Decided(i)
    <3>1. journal'[i].state = call[o].answer
      BY <1>2, <2>2 DEF Completed
    <3>2. journal[i].state \in {"prepared", "unknown"}
      BY <1>0, <1>1, <2>2 DEF Decided, Formed, Rows, RowStates
    <3>3. /\ call[o].answer = "applied" => effects[i] > 0
          /\ call[o].answer = "confirmed_no_effect" => A \in fenced
      BY DEF IInv, Heard
    <3>4. A \in fenced => effects[i] = 0
      BY DEF IInv, Held
    <3> QED
      BY <1>0, <3>1, <3>2, <3>3, <3>4 DEF AnswersOf
  <2> QED
    BY <2>1, <2>2
<1>4. /\ Formed' /\ Left' /\ Finished' /\ AppliedOnce'
      /\ \A p \in Owners : p # o => /\ call'[p] = call[p] /\ Attempt(p)' = Attempt(p)
                                    /\ \A pc \in Pcs : At(p, pc)' = At(p, pc)
  <2>1. ASSUME NEW j \in Iterations
        PROVE  journal'[j].state # "absent" <=> journal'[j].token \in Owners
    <3>1. CASE j = i
      <4>1. A[1] \in Owners
        BY <1>1
      <4>2. journal'[j].state # "absent" /\ journal'[j].token \in Owners
        BY <1>2, <1>3, <3>1, <4>1
      <4> QED
        BY <4>2
    <3>2. CASE j # i
      <4>1. journal[j].state # "absent" <=> journal[j].token \in Owners
        BY <1>0 DEF Formed
      <4>2. journal'[j] = journal[j]
        BY <1>2, <3>2
      <4> QED
        BY <4>1, <4>2
    <3> QED
      BY <3>1, <3>2
  <2> QED
    BY <1>0, <1>2, <2>1, CallFrame DEF Formed, Recorded
<1>5. \A t \in sent : t[2] \in Iterations /\ t = <<t[1], t[2]>>
  BY <1>0 DEF Formed
<1>6. Held'
  <2>1. ASSUME NEW t \in sent
        PROVE  /\ journal'[t[2]].token = t[1] /\ journal'[t[2]].state \in {"prepared", "unknown"}
               /\ effects[t[2]] = 0
    <3>0. /\ t[2] \in Iterations /\ t = <<t[1], t[2]>>
          /\ journal[t[2]].token = t[1] /\ journal[t[2]].state \in {"prepared", "unknown"}
          /\ effects[t[2]] = 0 /\ effects[t[2]] \in Nat /\ t \notin fenced
      BY <1>0, <1>5, <2>1 DEF IInv, Held, Formed
    <3>1. CASE t[2] # i
      BY <1>2, <3>0, <3>1
    <3>2. CASE t[2] = i
      <4>1. t = A
        BY <1>1, <3>0, <3>2
      <4>2. journal'[i].state = "unknown"
        BY <1>3, <3>0, <3>2, <4>1
      <4> QED
        BY <1>2, <3>0, <3>2, <4>1, <4>2
    <3> QED
      BY <3>1, <3>2
  <2>2. \A t \in fenced : t[2] \in Iterations
    BY <1>0 DEF Formed
  <2>3. \A j \in Iterations : /\ journal'[j].state \in {"absent", "confirmed_no_effect"} => effects[j] = 0
                              /\ journal'[j].state = "applied" => effects[j] > 0
    BY <1>2, <1>3 DEF IInv, Held
  <2> QED
    BY <1>0, <1>2, <2>1, <2>2, <2>3 DEF IInv, Held, Iterations
<1>7. ASSUME NEW p \in Owners PROVE Asked(p)' /\ Heard(p)'
  <2>1. CASE p = o
    BY <2>1, <1>0, <1>3 DEF Asked, Heard, At, RestPcs
  <2>2. CASE p # o
    <3>1. Asked(p) /\ Heard(p) /\ Attempt(p)' = Attempt(p) /\ call'[p] = call[p]
      BY <1>4, <2>2 DEF IInv
    <3>2. Heard(p)'
      BY <1>0, <3>1 DEF Heard
    <3>3. ASSUME At(p, "send"), Attempt(p) \notin fenced
          PROVE  /\ journal'[Attempt(p)[2]].token = p
                 /\ journal'[Attempt(p)[2]].state \in {"prepared", "unknown"}
                 /\ effects[Attempt(p)[2]] = 0 /\ Attempt(p) \notin sent
      <4>0. /\ Attempt(p)[2] \in Iterations /\ Attempt(p) = <<Attempt(p)[1], Attempt(p)[2]>>
            /\ Attempt(p)[1] = p
        BY <1>0, <3>3, AttemptFacts DEF At, ActingPcs
      <4>1. /\ journal[Attempt(p)[2]].token = p
            /\ journal[Attempt(p)[2]].state \in {"prepared", "unknown"}
            /\ effects[Attempt(p)[2]] = 0 /\ Attempt(p) \notin sent
        BY <3>1, <3>3 DEF Asked
      <4>2. CASE Attempt(p)[2] # i
        BY <1>2, <4>0, <4>1, <4>2
      <4>3. CASE Attempt(p)[2] = i
        <5>1. Attempt(p) = A
          BY <1>1, <4>0, <4>1, <4>3
        <5>2. journal'[i].state = "unknown"
          BY <1>3, <3>3, <4>1, <4>3, <5>1
        <5> QED
          BY <1>2, <4>1, <4>3, <5>2
      <4> QED
        BY <4>2, <4>3
    <3>4. Asked(p)'
      BY <1>0, <3>1, <3>3 DEF Asked, At
    <3> QED
      BY <3>2, <3>4
  <2> QED
    BY <2>1, <2>2
<1> QED
  BY <1>4, <1>6, <1>7 DEF IInv

(* The journal takes the answer of a transport, or #complete throws.        *)
LEMMA OutcomeStep ==
  ASSUME IInv, NEW o \in Owners, RecordOutcome(o)
  PROVE  IInv'
<1> DEFINE i == Attempt(o)[2]
           state == Completed(i, call[o].answer)
<1>0. /\ Formed /\ call[o].pc = "told" /\ Live(o) /\ call[o].answer \in AnswersOf
      /\ UNCHANGED <<input, saved, sent, fenced, effects>>
  BY CallFacts DEF IInv, RecordOutcome, At, Live, provider
<1>1. i \in Iterations /\ Attempt(o)[1] = o
  BY <1>0, AttemptFacts DEF ActingPcs
<1>2. CASE Ends(o) /\ UNCHANGED journal
  <2>1. Quiet(o)
    BY <1>0, <1>2, EndsQuietly DEF stores, provider
  <2> QED
    BY <2>1, QuietStep
<1>3. CASE /\ Completes(i, o, call[o].answer)
           /\ journal' = [journal EXCEPT ![i].state = state]
           /\ call' = [call EXCEPT ![o].pc = "tell", ![o].answer = journal'[i].state]
  <2>1. journal[i].token = o
    BY <1>3 DEF Completes
  <2>2. journal[i].state # "absent"
    BY <1>0, <1>1, <2>1 DEF Formed
  <2>3. state \in AnswersOf
    BY <1>0, <1>1, <2>2 DEF Completed, Decided, Formed, Rows, RowStates, AnswersOf
  <2> HIDE DEF state
  <2>4. journal'[i].state = state
    BY <1>0, <1>1, <1>3 DEF Formed, Rows
  <2>5. call' = [call EXCEPT ![o] = [call[o] EXCEPT !.pc = "tell", !.answer = state]]
    BY <1>3, <2>4
  <2>6. /\ Moved(o) /\ call'[o].pc = "tell" /\ call'[o].answer = state
        /\ call'[o].run = call[o].run /\ call'[o].at = call[o].at
    BY <1>0, <2>3, <2>5, MovesOn DEF Pcs, ActingPcs
  <2>7. Attempt(o)' = Attempt(o)
    BY <2>6 DEF Attempt
  <2>8. journal' = [journal EXCEPT ![i].state = Completed(i, call[o].answer)]
    BY <1>3 DEF state
  <2> QED
    BY <1>0, <1>1, <2>1, <2>2, <2>4, <2>6, <2>7, <2>8, Records
<1> QED
  BY <1>2, <1>3 DEF RecordOutcome

(* The journal takes the answer of a read-back, or #complete throws.        *)
LEMMA ReadBackStep ==
  ASSUME IInv, NEW o \in Owners, RecordReadBack(o)
  PROVE  IInv'
<1> DEFINE A == Attempt(o)
           i == A[2]
           run == call[o].run
           state == Completed(i, call[o].answer)
<1>0. /\ Formed /\ call[o].pc = "read" /\ Live(o) /\ call[o].answer \in AnswersOf
      /\ call[o] \in CallRecords /\ Good(run) /\ ~Ended(run)
      /\ UNCHANGED <<input, saved, sent, fenced, effects>>
  BY CallFacts DEF IInv, RecordReadBack, At, Live, provider
<1>1. /\ i \in Iterations /\ A[1] \in Owners /\ i = run.actions[call[o].at].iteration
      /\ call[o].at \in DOMAIN run.actions /\ run.actions[call[o].at].state # "rejected"
  BY <1>0, AttemptFacts DEF ReadPcs
<1>2. CASE Ends(o) /\ UNCHANGED journal
  <2>1. Quiet(o)
    BY <1>0, <1>2, EndsQuietly DEF stores, provider
  <2> QED
    BY <2>1, QuietStep
<1>3. CASE /\ Completes(i, A[1], call[o].answer)
           /\ journal' = [journal EXCEPT ![i].state = state]
           /\ call' = [call EXCEPT ![o].run = WithState(run, call[o].at, Settled(journal'[i].state)),
                                   ![o].pc = IF journal'[i].state = "unknown" THEN "unsure"
                                                                             ELSE "reconcile"]
  <2>1. journal[i].token = A[1]
    BY <1>3 DEF Completes
  <2>2. journal[i].state # "absent"
    BY <1>0, <1>1, <2>1 DEF Formed
  <2>3. state \in AnswersOf
    BY <1>0, <1>1, <2>2 DEF Completed, Decided, Formed, Rows, RowStates, AnswersOf
  <2>4. state = "applied" => effects[i] > 0
    BY <1>0, <1>1 DEF Completed, Decided, IInv, Held, Heard
  <2>8. journal' = [journal EXCEPT ![i].state = Completed(i, call[o].answer)]
    BY <1>3 DEF state
  <2> HIDE DEF state
  <2>5. journal'[i].state = state
    BY <1>0, <1>1, <1>3 DEF Formed, Rows
  <2>6. /\ Settled(state) \in ActionStates \ {"rejected"}
        /\ Settled(state) = "applied" => effects[i] > 0
    BY <2>3, <2>4 DEF Settled, AnswersOf, ActionStates
  <2> DEFINE new == WithState(run, call[o].at, Settled(state))
             pc == IF state = "unknown" THEN "unsure" ELSE "reconcile"
             r == [call[o] EXCEPT !.run = new, !.pc = pc]
  <2>7. Good(new) /\ new.status = run.status
    BY <1>0, <1>1, <2>6, GoodState
  <2>9. call' = [call EXCEPT ![o] = r]
    <3>1. call' = [call EXCEPT ![o].run = new, ![o].pc = pc]
      BY <1>3, <2>5
    <3> HIDE DEF new, pc
    <3> QED
      BY <1>0, <3>1 DEF Formed
  <2> HIDE DEF new
  <2>10. pc \in RestPcs
    BY DEF RestPcs
  <2> HIDE DEF pc
  <2>11. r \in CallRecords /\ r.run = new /\ r.pc = pc
    BY <1>0, <2>7, <2>10 DEF Good, CallRecords, Pcs
  <2>12. Fit(r, o)
    BY <1>0, <2>7, <2>10, <2>11 DEF Fit, Ended, RestPcs, ReadPcs, ActingPcs
  <2> HIDE DEF r
  <2>13. Moved(o) /\ call'[o] = r
    BY <1>0, <2>9, <2>12, Becomes
  <2>14. call'[o].pc \in RestPcs /\ call'[o].pc # "tell"
    BY <2>10, <2>11, <2>13 DEF RestPcs
  <2> QED
    BY <1>0, <2>1, <2>2, <2>8, <2>13, <2>14, Records
<1> QED
  BY <1>2, <1>3 DEF RecordReadBack
-----------------------------------------------------------------------------
(* The steps of no call, and the claim of the run.                          *)

(* A claim takes a token that no attempt in flight, no row and no read-back *)
(* refers to: what other calls know of fenced attempts stays true.          *)
LEMMA ClaimStep ==
  ASSUME IInv, NEW o \in Owners, NEW envelope \in {"none", "spent", "fresh"}, Claim(o, envelope)
  PROVE  IInv'
<1> DEFINE r == [Idle EXCEPT !.pc = "reconcile", !.run = saved.run, !.envelope = envelope]
<1>0. /\ Formed /\ UNCHANGED <<input, journal, sent, effects>> /\ ~Ended(saved.run)
      /\ saved' = [saved EXCEPT !.owner = o, !.leased = TRUE]
      /\ call' = [call EXCEPT ![o] = r]
      /\ fenced' = {attempt \in fenced : attempt[1] # o}
  BY DEF IInv, Claim, Claimable
<1>1. o \in Unused
  BY DEF Claim, Begins
<1>2. /\ r \in CallRecords /\ r.run = saved.run /\ r.pc = "reconcile"
  BY <1>0, IdleFits DEF Fit, Formed, SavedRows, CallRecords, Pcs, RestPcs
<1>3. Fit(r, o)
  BY <1>0, <1>2 DEF Fit, Formed, ReadPcs, ActingPcs
<1> HIDE DEF r
<1>4. /\ saved' \in SavedRows /\ saved'.run = saved.run
  BY <1>0 DEF Formed, SavedRows, Tokens
<1>5. /\ call' \in [Owners -> CallRecords] /\ call'[o] = r
      /\ \A p \in Owners : p # o => call'[p] = call[p]
  BY <1>0, <1>2 DEF Formed
<1>6. \A p \in Owners : Fit(call'[p], p)
  BY <1>0, <1>3, <1>5 DEF Formed
<1>7. Formed'
  <2>1. Good(saved'.run) /\ fenced' \subseteq Owners \X Iterations
    BY <1>0, <1>4 DEF Formed
  <2> QED
    BY <1>0, <1>4, <1>5, <1>6, <2>1, StaysFormed DEF Formed
<1>8. Left' /\ Finished' /\ AppliedOnce'
  BY <1>0, <1>4 DEF Left, Finished, IInv, AppliedOnce, Ended, Iterations
<1>9. Held'
  BY <1>0 DEF IInv, Held, Iterations
<1>10. ASSUME NEW p \in Owners PROVE Asked(p)' /\ Heard(p)'
  <2>1. CASE p = o
    BY <2>1, <1>2, <1>5 DEF Asked, Heard, At
  <2>2. CASE p # o
    <3>1. Asked(p) /\ Heard(p) /\ call'[p] = call[p] /\ Attempt(p)' = Attempt(p)
      BY <1>5, <2>2 DEF IInv, Attempt
    <3>2. call[p].pc \in ReadPcs \cup ActingPcs => Attempt(p)[1] # o
      <4>1. call[p].pc \in ReadPcs \cup ActingPcs =>
              /\ call[p].at \in DOMAIN call[p].run.actions
              /\ Attempt(p)[1] = call[p].run.actions[call[p].at].token
        BY <1>0, AttemptFacts
      <4>2. o \notin {call[p].run.actions[a].token : a \in DOMAIN call[p].run.actions}
        BY <1>1 DEF Unused, InUse
      <4> QED
        BY <4>1, <4>2
    <3>3. call[p].pc \in ReadPcs \cup ActingPcs => (Attempt(p) \in fenced <=> Attempt(p) \in fenced')
      BY <1>0, <3>2
    <3> QED
      BY <1>0, <3>1, <3>3 DEF Asked, Heard, At, ReadPcs, ActingPcs
  <2> QED
    BY <2>1, <2>2
<1> QED
  BY <1>7, <1>8, <1>9, <1>10 DEF IInv

(* An attempt under way takes effect, at most once for its iteration.       *)
LEMMA EffectStep ==
  ASSUME IInv, NEW t \in sent, TakesEffect(t)
  PROVE  IInv'
<1> DEFINE i == t[2]
<1>0. /\ Formed /\ UNCHANGED <<input, saved, journal, call, fenced>>
      /\ sent' = sent \ {t} /\ effects' = [effects EXCEPT ![i] = @ + 1]
  BY DEF IInv, TakesEffect, stores
<1>1. /\ i \in Iterations /\ t = <<t[1], i>> /\ t[1] \in Owners
      /\ journal[i].token = t[1] /\ journal[i].state \in {"prepared", "unknown"} /\ effects[i] = 0
      /\ t \notin fenced
  BY <1>0 DEF IInv, Formed, Held
<1>2. /\ effects' \in [Iterations -> Nat] /\ effects'[i] = 1
      /\ \A j \in Iterations : j # i => effects'[j] = effects[j]
      /\ \A j \in Iterations : effects[j] > 0 => effects'[j] > 0
  BY <1>0, <1>1 DEF Formed
<1>3. Formed'
  <2>1. sent' \subseteq Owners \X Iterations
    BY <1>0 DEF Formed
  <2> QED
    BY <1>0, <1>2, <2>1, StaysFormed DEF Formed
<1>4. Left' /\ Finished' /\ AppliedOnce'
  BY <1>0, <1>2 DEF IInv, Left, Live, At, Finished, Satisfied, Having, AppliedOnce, Iterations
<1>5. Held'
  <2>1. \A u \in sent' : u[2] \in Iterations /\ u = <<u[1], u[2]>> /\ u \in sent /\ u # t
    BY <1>0 DEF Formed
  <2>2. \A u \in sent' : u[2] # i
    BY <1>1, <2>1 DEF IInv, Held
  <2>3. \A u \in fenced : u[2] \in Iterations /\ u = <<u[1], u[2]>>
    BY <1>0 DEF Formed
  <2>4. \A u \in fenced : journal[u[2]].token = u[1] => u[2] # i
    BY <1>1, <2>3
  <2>5. \A j \in Iterations : /\ journal[j].state \in {"absent", "confirmed_no_effect"} => effects'[j] = 0
                              /\ journal[j].state = "applied" => effects'[j] > 0
    BY <1>1, <1>2 DEF IInv, Held
  <2>6. sent' \cap fenced = {}
    BY <1>0 DEF IInv, Held
  <2>7. \A u \in sent' : /\ journal[u[2]].token = u[1] /\ journal[u[2]].state \in {"prepared", "unknown"}
                         /\ effects'[u[2]] = 0
    BY <1>2, <2>1, <2>2 DEF IInv, Held
  <2>8. \A u \in fenced : journal[u[2]].token = u[1] => effects'[u[2]] = 0
    BY <1>2, <2>3, <2>4 DEF IInv, Held
  <2> QED
    BY <1>0, <2>5, <2>6, <2>7, <2>8 DEF Held, Iterations
<1>6. ASSUME NEW p \in Owners PROVE Asked(p)' /\ Heard(p)'
  <2>0. /\ Asked(p) /\ Heard(p) /\ call'[p] = call[p] /\ Attempt(p)' = Attempt(p)
        /\ call[p].pc \in ReadPcs \cup ActingPcs => Attempt(p) \in Owners \X Iterations
    BY <1>0, AttemptFacts DEF IInv, Attempt
  <2>1. Heard(p)'
    BY <1>0, <1>2, <2>0 DEF Heard, ReadPcs, ActingPcs
  <2>2. At(p, "sent") => Attempt(p) \in sent' \cup fenced \/ effects'[Attempt(p)[2]] > 0
    BY <1>0, <1>2, <2>0 DEF Asked, At, ActingPcs
  <2>3. ASSUME At(p, "send"), Attempt(p) \notin fenced
        PROVE  Attempt(p)[2] # i /\ Attempt(p)[2] \in Iterations
    <3>1. /\ Attempt(p) = <<p, Attempt(p)[2]>> /\ Attempt(p)[2] \in Iterations
      BY <1>0, <2>3, AttemptFacts DEF At, ActingPcs
    <3>2. journal[Attempt(p)[2]].token = p /\ Attempt(p) \notin sent
      BY <2>0, <2>3 DEF Asked
    <3> QED
      BY <1>1, <3>1, <3>2
  <2>4. Asked(p)'
    BY <1>0, <1>2, <2>0, <2>2, <2>3 DEF Asked, At
  <2> QED
    BY <2>1, <2>4
<1> QED
  BY <1>3, <1>4, <1>5, <1>6 DEF IInv

(* What calls have asked and heard when neither they nor the provider move. *)
LEMMA CallsKept ==
  ASSUME IInv, UNCHANGED <<input, journal, call, sent, fenced, effects>>
  PROVE  Held' /\ \A o \in Owners : Asked(o)' /\ Heard(o)'
<1>1. Held'
  BY DEF IInv, Held, Iterations
<1>2. ASSUME NEW o \in Owners PROVE Asked(o)' /\ Heard(o)'
  <2>1. Asked(o) /\ Heard(o) /\ Attempt(o)' = Attempt(o)
    BY DEF IInv, Attempt
  <2> QED
    BY <2>1 DEF Asked, Heard, At
<1> QED
  BY <1>1, <1>2

(* The steps of a lease: the record keeps its run and its owner.            *)
LEMMA LeaseStep ==
  ASSUME IInv, UNCHANGED <<input, journal, call, provider>>,
         saved' = [saved EXCEPT !.leased = FALSE]
  PROVE  IInv' /\ saved'.run = saved.run
<1>0. Formed /\ UNCHANGED <<input, journal, call, sent, fenced, effects>>
  BY DEF IInv, provider
<1>1. saved' \in SavedRows /\ saved'.run = saved.run /\ saved'.owner = saved.owner
  BY <1>0 DEF Formed, SavedRows
<1>2. Formed'
  <2>1. Good(saved'.run)
    BY <1>0, <1>1 DEF Formed
  <2> QED
    BY <1>0, <1>1, <2>1, StaysFormed DEF Formed
<1>3. Held' /\ \A o \in Owners : Asked(o)' /\ Heard(o)'
  BY <1>0, CallsKept
<1>4. Left' /\ Finished' /\ AppliedOnce'
  BY <1>0, <1>1 DEF IInv, Left, Live, At, Ended, Finished, Satisfied, Having, AppliedOnce, Iterations
<1> QED
  BY <1>1, <1>2, <1>3, <1>4 DEF IInv

(* The passage of time and the end of an authorization touch none of it.    *)
LEMMA ClockStep ==
  ASSUME IInv, UNCHANGED <<stores, call, provider>>
  PROVE  IInv' /\ saved'.run = saved.run
<1>0. Formed /\ UNCHANGED <<input, saved, journal, call, sent, fenced, effects>>
  BY DEF IInv, stores, provider
<1>1. Formed'
  BY <1>0, StaysFormed DEF Formed
<1>2. Held' /\ \A o \in Owners : Asked(o)' /\ Heard(o)'
  BY <1>0, CallsKept
<1>3. Left' /\ Finished' /\ AppliedOnce'
  BY <1>0 DEF IInv, Left, Live, At, Ended, Finished, Satisfied, Having, AppliedOnce, Iterations
<1> QED
  BY <1>0, <1>1, <1>2, <1>3 DEF IInv

(* A quiet step changes the record of a run only as its owner, and an ended *)
(* run's owner has left.                                                    *)
LEMMA QuietKeepsEnded ==
  ASSUME IInv, NEW o \in Owners, Quiet(o), Ended(saved.run)
  PROVE  saved'.run = saved.run
  BY DEF IInv, Quiet, Moved, Recorded, Left

(* A step of a call is quiet, or keeps the invariant and the record.        *)
LEMMA CallStep ==
  ASSUME IInv, NEW o \in Owners,
         Reconciles(o) \/ Recovers(o) \/ Applies(o) \/ Iterates(o) \/ Crash(o)
  PROVE  IInv' /\ (Ended(saved.run) => saved'.run = saved.run)
<1>1. Quiet(o) \/ (IInv' /\ UNCHANGED saved)
  <2>1. CASE Reconciles(o)
    <3>1. CASE ReadBackSees(o)
      BY <3>1, AnswerStep DEF ReadBackSees, stores
    <3>2. CASE RecordReadBack(o)
      BY <3>2, ReadBackStep DEF RecordReadBack
    <3> QED
      BY <2>1, <3>1, <3>2, QuietReconciles DEF Reconciles
  <2>2. CASE Applies(o)
    <3>1. CASE TransportAnswers(o)
      BY <3>1, AnswerStep DEF TransportAnswers, stores
    <3>2. CASE RecordOutcome(o)
      BY <3>2, OutcomeStep DEF RecordOutcome
    <3>3. CASE Send(o)
      BY <3>3, SendStep DEF Send, stores
    <3>4. CASE ClaimEffect(o)
      <4>1. CASE /\ Claims(Attempt(o)[2], o)
                 /\ journal' = [journal EXCEPT ![Attempt(o)[2]] = [token |-> o, state |-> "prepared"]]
                 /\ call' = [call EXCEPT ![o].pc = "send"]
        BY <3>4, <4>1, ClaimedEffect DEF ClaimEffect
      <4>2. CASE /\ UNCHANGED journal
                 /\ \E answer : call' = [call EXCEPT ![o].pc = "tell", ![o].answer = answer]
        <5>1. call \in [Owners -> CallRecords]
          BY DEF IInv, Formed
        <5>2. call'[o].pc = "tell"
          BY <4>2, <5>1 DEF CallRecords
        <5> QED
          BY <3>4, <4>2, <5>2, QuietApplies
      <4> QED
        BY <3>4, <4>1, <4>2 DEF ClaimEffect
    <3> QED
      BY <2>2, <3>1, <3>2, <3>3, <3>4, QuietApplies DEF Applies
  <2> QED
    BY <2>1, <2>2, QuietRecovers, QuietIterates
<1>2. CASE Quiet(o)
  BY <1>2, QuietStep, QuietKeepsEnded
<1> QED
  BY <1>1, <1>2

(* The run as it is created.                                                *)
LEMMA IInit == Init => IInv
<1> SUFFICES ASSUME Init PROVE IInv
  OBVIOUS
<1>1. input \in Inputs /\ input \in Seq(SUBSET {"breached", "matched", "complete"})
  BY LoopAssumption DEF Init
<1>2. Len(input) \in Nat
  BY <1>1
<1>3. /\ NewRun \in Runs /\ NewRun.actions = <<>> /\ NewRun.status = "running" /\ NewRun.iteration = 0
  BY <1>2 DEF NewRun, Runs, RunStatuses
<1>4. Good(NewRun) /\ ~Ended(NewRun)
  BY <1>3 DEF Good, Ordered, TrueRun, Ended
<1>5. /\ Idle \in CallRecords /\ Idle.run = NewRun /\ Idle.pc = "idle"
  BY <1>2, <1>3 DEF Idle, CallRecords, Pcs, RestPcs, AnswersOf
<1>6. \A o \in Owners : Fit(Idle, o)
  BY <1>4, <1>5 DEF Fit, ReadPcs, ActingPcs
<1>7. saved \in SavedRows /\ saved.run = NewRun
  BY <1>3 DEF Init, NotSaved, SavedRows, Tokens
<1>8. /\ journal \in [Iterations -> Rows]
      /\ \A i \in Iterations : journal[i].state = "absent" /\ journal[i].token = None
  BY DEF Init, NoRow, Rows, RowStates, Tokens
<1>9. call \in [Owners -> CallRecords] /\ \A o \in Owners : call[o] = Idle
  BY <1>5 DEF Init
<1>10. effects \in [Iterations -> Nat] /\ \A i \in Iterations : effects[i] = 0
  BY DEF Init
<1>11. Formed
  BY <1>2, <1>4, <1>6, <1>7, <1>8, <1>9, <1>10, LoopAssumption DEF Formed, Init
<1>12. Held
  BY <1>8, <1>10 DEF Held, Init
<1>13. \A o \in Owners : Asked(o) /\ Heard(o)
  BY <1>5, <1>9 DEF Asked, Heard, At
<1>14. Left /\ Finished
  BY <1>3, <1>4, <1>7 DEF Left, Finished
<1> QED
  BY <1>10, <1>11, <1>12, <1>13, <1>14 DEF IInv, AppliedOnce

(* The invariant is inductive, and no step changes the record of a run that *)
(* has ended.                                                               *)
LEMMA IStep ==
  ASSUME IInv, [Next]_vars
  PROVE  IInv' /\ (Ended(saved.run) => saved'.run = saved.run)
<1>1. ASSUME NEW o \in Owners, NEW envelope \in {"none", "spent", "fresh"}, Claim(o, envelope)
      PROVE  IInv' /\ (Ended(saved.run) => saved'.run = saved.run)
  BY <1>1, ClaimStep DEF Claim, Claimable
<1>2. ASSUME NEW o \in Owners,
             Reconciles(o) \/ Recovers(o) \/ Applies(o) \/ Iterates(o) \/ Crash(o)
      PROVE  IInv' /\ (Ended(saved.run) => saved'.run = saved.run)
  BY <1>2, CallStep
<1>3. ASSUME NEW t \in sent, TakesEffect(t)
      PROVE  IInv' /\ (Ended(saved.run) => saved'.run = saved.run)
  BY <1>3, EffectStep DEF TakesEffect, stores
<1>4. CASE Expire \/ Stall
  BY <1>4, LeaseStep DEF Expire, Stall
<1>5. CASE Age \/ Revoke \/ UNCHANGED vars
  BY <1>5, ClockStep DEF Age, Revoke, vars
<1> QED
  BY <1>1, <1>2, <1>3, <1>4, <1>5 DEF Next
-----------------------------------------------------------------------------
(* What follows.                                                            *)

(* The evidence and the envelope are there or not.                          *)
Clocked == fresh \in BOOLEAN /\ authority \in BOOLEAN

(* They are, whatever the loop does.                                        *)
LEMMA ClockedInvariant == Spec => []Clocked
<1>1. Init => Clocked
  BY DEF Init, Clocked
<1>2. ASSUME Clocked, [Next]_vars PROVE Clocked'
  <2>1. CASE Age \/ Revoke
    BY <1>2, <2>1 DEF Clocked, Age, Revoke
  <2>2. CASE UNCHANGED clock
    BY <1>2, <2>2 DEF Clocked, clock
  <2>3. ASSUME NEW o \in Owners, \E envelope \in {"none", "spent", "fresh"} : Claim(o, envelope)
        PROVE  UNCHANGED clock
    BY <2>3 DEF Claim
  <2>4. ASSUME NEW o \in Owners, Reconciles(o) \/ Recovers(o) PROVE UNCHANGED clock
    BY <2>4 DEF Reconciles, Recovers, NothingOpen, NoEnvelope, NotInJournal, JournalAnswers,
                EnvelopeRefused, ReadBack, ReadBackSees, ReadBackUnsure, RecordReadBack,
                StillUnknown, RetryStale, RetryRefused, Retry, Recovered
  <2>5. ASSUME NEW o \in Owners, Applies(o) \/ Iterates(o) \/ Crash(o) PROVE UNCHANGED clock
    BY <2>5 DEF Applies, Iterates, ApplyRefused, ClaimEffect, Send, TransportAnswers,
                TransportUnsure, RecordOutcome, Outcome, OutOfIterations, EndsBeforeActing, NoMatch,
                MaximumActions, Refused, StopRefused, Act, Close, Crash
  <2>6. CASE Expire \/ Stall \/ \E t \in sent : TakesEffect(t)
    BY <2>2, <2>6 DEF Expire, Stall, TakesEffect
  <2> QED
    BY <1>2, <2>1, <2>2, <2>3, <2>4, <2>5, <2>6 DEF Next, vars
<1> QED
  BY <1>1, <1>2, PTL DEF Spec

(* The invariant holds of the loop.                                         *)
LEMMA LoopInvariant == Spec => []IInv
  BY IInit, IStep, PTL DEF Spec

(* Every variable keeps its type; an action keeps the token of its attempt  *)
(* unless it was rejected, and no iteration of the saved record acts twice. *)
THEOREM LoopTypeCorrect == Spec => []TypeOK
<1>1. ASSUME IInv, Clocked PROVE TypeOK
  <2>0. Formed /\ Held
    BY <1>1 DEF IInv
  <2>1. \A run : Good(run) => IsRun(run)
    BY DEF Good, Runs, Actions, IsRun
  <2>2. IsRun(saved.run) /\ saved.owner \in Tokens /\ saved.leased \in BOOLEAN
    BY <2>0, <2>1 DEF Formed, SavedRows
  <2>3. \A i \in Iterations :
          /\ journal[i].token \in Tokens
          /\ journal[i].state \in {"absent", "prepared", "unknown", "applied", "confirmed_no_effect"}
          /\ journal[i].state # "absent" => journal[i].token \in Owners
    BY <2>0 DEF Formed, Rows, RowStates
  <2>4. \A o \in Owners :
          /\ IsRun(call[o].run) /\ call[o].envelope \in {"none", "spent", "fresh"}
          /\ call[o].at \in 0..Len(input)
          /\ call[o].answer \in {"applied", "confirmed_no_effect", "unknown"}
    BY <2>0, <2>1, CallFacts DEF CallRecords, AnswersOf
  <2>5. /\ \A a, b \in DOMAIN saved.run.actions :
             saved.run.actions[a].iteration = saved.run.actions[b].iteration => a = b
        /\ \A a \in DOMAIN saved.run.actions :
             saved.run.actions[a].token = None <=> saved.run.actions[a].state = "rejected"
    BY <2>0 DEF Formed, Good, Ordered
  <2>6. /\ sent \cup fenced \subseteq Owners \X Iterations /\ sent \cap fenced = {}
        /\ effects \in [Iterations -> Nat]
    BY <2>0 DEF Formed, Held
  <2> QED
    BY <1>1, <2>2, <2>3, <2>4, <2>5, <2>6 DEF TypeOK, Clocked
<1> QED
  BY <1>1, LoopInvariant, ClockedInvariant, PTL

(* SqliteLoopEffectExecutor's promise: whatever calls, leases, crashes,     *)
(* unanswered transports and repeated attempts do, no effect happens twice. *)
THEOREM LoopAppliesOnce == Spec => []AppliedOnce
<1>1. IInv => AppliedOnce
  BY DEF IInv
<1> QED
  BY <1>1, LoopInvariant, PTL

(* An applied action and an applied row have their effect, and a completed  *)
(* run its completion predicate and the effect of its matched rule.         *)
THEOREM LoopRecordIsTrue == Spec => []RecordIsTrue
<1>1. ASSUME IInv PROVE RecordIsTrue
  <2>0. Formed /\ Held /\ Finished /\ Good(saved.run)
    BY <1>1 DEF IInv, Formed
  <2>1. \A a \in Having(saved.run, {"applied"}) :
          /\ effects[saved.run.actions[a].iteration] > 0
          /\ saved.run.actions[a].iteration \in Iterations
    BY <2>0, ActionsOf DEF Having, Good, TrueRun, Actions
  <2>2. \A i \in Iterations : journal[i].state = "applied" => effects[i] > 0
    BY <2>0 DEF Held
  <2>3. saved.run.status = "completed" =>
          /\ "complete" \in input[saved.run.iteration]
          /\ "matched" \in input[saved.run.iteration] => Having(saved.run, {"applied"}) # {}
    BY <2>0 DEF Finished, Satisfied
  <2> QED
    BY <2>1, <2>2, <2>3 DEF RecordIsTrue
<1> QED
  BY <1>1, LoopInvariant, PTL

(* A run that has ended keeps its record, whatever an owner that lost it    *)
(* still tries to save.                                                     *)
THEOREM LoopEndedIsFinal == Spec => EndedIsFinal
<1>1. ASSUME IInv, [Next]_vars PROVE [Ended(saved.run) => saved'.run = saved.run]_vars
  BY <1>1, IStep
<1> QED
  BY <1>1, LoopInvariant, PTL DEF Spec, EndedIsFinal
=============================================================================
