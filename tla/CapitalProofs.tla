--------------------------- MODULE CapitalProofs ---------------------------
(***************************************************************************)
(* Theorems about CapitalLedger, for every value of its constants: types,  *)
(* no event is overspent, no dollar is credited twice, none is lost on its *)
(* way to the profiles.  No double credit needs an inductive invariant:    *)
(* what a reconciliation holds in memory is worth no more than the capital *)
(* and the profits, as long as the version it read is still the version of *)
(* the row - and no longer matters once it is not.                         *)
(* For a process that is alone and never dies, a second invariant follows  *)
(* the fills through the copy it folds them into: cash and cycle rows are  *)
(* those of the fills folded so far, at every step of the reconciliation.  *)
(***************************************************************************)
EXTENDS CapitalLedger, SumProofs, SequenceTheorems, TLAPS

(* Labels at which a process holds a copy of the state row.                *)
Holding == {"pending", "fold", "open", "save", "clear"}

(* What a copy of the state row is worth.                                  *)
CopyOK(l, rows, prof, gains) ==
    /\ l.pc \in {"pending", "clear"} => l.gain = 0
    /\ l.pc \in Holding =>
          /\ l.base <= rows[l.profile].version
          /\ l.base = rows[l.profile].version =>
                l.state.cash <= prof[l.profile].capital + gains[l.profile]
                                  + l.gain

(* The inductive invariant.                                                *)
IInv ==
    /\ TypeOK
    /\ NeverOverspent
    /\ CreditedAtMostOnce
    /\ \A p \in Procs : CopyOK(proc[p], state, profile, booked)

(* Versions do not go back, and while a version lasts the capital and the  *)
(* profits of its profile do not shrink.                                   *)
Forward ==
    \A f \in Profiles :
       /\ state[f].version <= state'[f].version
       /\ state[f].version = state'[f].version =>
             profile[f].capital + booked[f] <= profile'[f].capital + booked'[f]

(* A copy keeps its worth over a step of somebody else.                    *)
LEMMA KeepCopy ==
    ASSUME TypeOK, TypeOK', Forward, NEW l \in Locals,
           CopyOK(l, state, profile, booked)
    PROVE  CopyOK(l, state', profile', booked')
<1> DEFINE f == l.profile
<1>1. /\ f \in Profiles /\ l.base \in Nat /\ l.gain \in Int /\ l.state.cash \in Int
      /\ state[f].version \in Nat /\ state'[f].version \in Nat
      /\ profile[f].capital \in Nat /\ profile'[f].capital \in Nat
      /\ booked[f] \in Int /\ booked'[f] \in Int
  BY DEF TypeOK, Locals, StateRow
<1>2. /\ state[f].version <= state'[f].version
      /\ state[f].version = state'[f].version =>
            profile[f].capital + booked[f] <= profile'[f].capital + booked'[f]
  BY <1>1 DEF Forward
<1> QED BY <1>1, <1>2 DEF CopyOK

(* A step that leaves the processes alone.                                 *)
LEMMA OutsideStep ==
    ASSUME IInv, TypeOK', NeverOverspent', CreditedAtMostOnce', Forward,
           UNCHANGED proc
    PROVE  IInv'
<1>1. ASSUME NEW p \in Procs
      PROVE  CopyOK(proc'[p], state', profile', booked')
  <2>1. proc[p] \in Locals /\ CopyOK(proc[p], state, profile, booked)
    BY DEF IInv, TypeOK
  <2> QED BY <2>1, KeepCopy DEF IInv
<1> QED BY <1>1 DEF IInv

(* A step of one process: what is left to show is the types of the tables, *)
(* the two invariants and the worth of its own copy.                       *)
LEMMA OwnStep ==
    ASSUME IInv, TypeOK', NeverOverspent', CreditedAtMostOnce', Forward,
           NEW p \in Procs, NEW l, proc' = [proc EXCEPT ![p] = l],
           CopyOK(l, state', profile', booked')
    PROVE  IInv'
<1>1. ASSUME NEW q \in Procs
      PROVE  CopyOK(proc'[q], state', profile', booked')
  <2>1. /\ proc[q] \in Locals /\ CopyOK(proc[q], state, profile, booked)
        /\ proc \in [Procs -> Locals]
    BY DEF IInv, TypeOK
  <2>2. CASE q = p
    BY <2>1, <2>2
  <2>3. CASE q # p
    <3>1. proc'[q] = proc[q]
      BY <2>1, <2>3
    <3> QED BY <2>1, <3>1, KeepCopy DEF IInv
  <2> QED BY <2>2, <2>3
<1> QED BY <1>1 DEF IInv

(* Rewriting the rows of a sequence one by one gives a sequence.           *)
LEMMA RewrittenSeq ==
    ASSUME NEW S, NEW s \in Seq(S), NEW t,
           t = [n \in DOMAIN s |-> t[n]], \A n \in DOMAIN s : t[n] \in S
    PROVE  t \in Seq(S)
<1>1. Len(s) \in Nat /\ DOMAIN s = 1..Len(s)
  BY LenProperties
<1>2. t \in [1..Len(s) -> S]
  BY <1>1
<1> QED BY <1>1, <1>2, SeqDef

(* The columns of a state row are written independently.                   *)
LEMMA RowType ==
    ASSUME NEW r \in StateRow, NEW v \in Nat, NEW c \in Int, NEW b \in BOOLEAN
    PROVE  /\ [r EXCEPT !.cash = c, !.version = v] \in StateRow
           /\ [r EXCEPT !.version = v, !.flagged = b] \in StateRow
           /\ [r EXCEPT !.flagged = b, !.version = v] \in StateRow
           /\ [r EXCEPT !.cash = c] \in StateRow
           /\ [r EXCEPT !.open = b] \in StateRow
           /\ [r EXCEPT !.version = v] \in StateRow
BY Zenon DEF StateRow

(* Locals of a process that has nothing to do.                             *)
LEMMA IdleType ==
    ASSUME NEW f \in Profiles
    PROVE  /\ Idle(f) \in Locals /\ Idle(f).pc = "idle" /\ Idle(f).gain = 0
           /\ AnyProfile \in Profiles /\ NewState \in StateRow
<1>1. InitialCapital \in Nat /\ Profiles # {}
  BY CapitalAssumption
<1>2. AnyProfile \in Profiles
  BY <1>1 DEF AnyProfile
<1>3. NewState \in StateRow
  BY <1>1 DEF NewState, StateRow
<1> QED BY <1>2, <1>3 DEF Idle, Locals

(* At first every process is idle, or absent and otherwise the same.       *)
LEMMA IdleOrAbsent ==
    ASSUME Init
    PROVE  /\ proc \in [Procs -> Locals]
           /\ \A p \in Procs : /\ proc[p].pc \in {"idle", "absent"}
                               /\ proc[p].profile = AnyProfile
                               /\ proc[p].next = 1 /\ proc[p].last = 0
<1>1. Idle(AnyProfile) \in Locals
  BY IdleType, CapitalAssumption DEF AnyProfile
<1>2. PICK team \in Teams :
        proc = [p \in Procs |-> IF p \in team THEN Idle(AnyProfile) ELSE Absent]
  BY DEF Init
<1>3. Absent \in Locals
  BY <1>1 DEF Absent, Locals
<1>4. \A l \in {Idle(AnyProfile), Absent} :
        /\ l.pc \in {"idle", "absent"} /\ l.profile = AnyProfile
        /\ l.next = 1 /\ l.last = 0
  BY DEF Absent, Idle
<1> QED BY <1>1, <1>2, <1>3, <1>4

(* The tables start empty.                                                 *)
LEMMA InitIInv == Init => IInv
<1> SUFFICES ASSUME Init PROVE IInv
  OBVIOUS
<1>1. AnyProfile \in Profiles /\ InitialCapital \in Nat /\ NewState \in StateRow
  BY IdleType, CapitalAssumption DEF AnyProfile
<1>2. TypeOK
  BY <1>1, IdleOrAbsent DEF Init, TypeOK
<1>3. NeverOverspent
  BY DEF Init, NeverOverspent
<1>4. CreditedAtMostOnce
  BY <1>1 DEF Init, CreditedAtMostOnce, NewState
<1>5. \A p \in Procs : CopyOK(proc[p], state, profile, booked)
  BY IdleOrAbsent DEF CopyOK, Holding
<1> QED BY <1>2, <1>3, <1>4, <1>5 DEF IInv

(* A recorded event had no row, so nothing was taken from it.              *)
LEMMA RecordStep ==
    ASSUME IInv, NEW e \in Events, NEW amount \in Int, NEW settled \in BOOLEAN,
           RecordRow(e, amount, settled)
    PROVE  /\ event' \in [Events -> [amount : Int, settled : BOOLEAN]]
           /\ NeverOverspent'
<1>1. /\ event \in [Events -> [amount : Int, settled : BOOLEAN]]
      /\ allocated \in [Events -> Nat] /\ allocated' = allocated
      /\ event[e].amount = 0
      /\ event' = [event EXCEPT ![e] = [amount |-> amount, settled |-> settled]]
  BY DEF IInv, TypeOK, RecordRow
<1>2. ASSUME NEW g \in Events, allocated'[g] > 0
      PROVE  (Positive(g) /\ Free(g) >= 0)'
  <2>1. Positive(g) /\ Free(g) >= 0
    BY <1>1, <1>2 DEF IInv, NeverOverspent
  <2>2. g # e
    BY <1>1, <2>1 DEF Positive
  <2>3. event'[g] = event[g] /\ allocated'[g] = allocated[g]
    BY <1>1, <2>2
  <2> QED BY <2>1, <2>3 DEF Positive, Free
<1> QED BY <1>1, <1>2 DEF NeverOverspent

(* Money that came in touches no profile.                                  *)
LEMMA RecordDepositStep ==
    ASSUME IInv, NEW e \in Events, NEW amount \in Deposits,
           NEW settled \in BOOLEAN, RecordDeposit(e, amount, settled)
    PROVE  IInv'
<1>1. /\ RecordRow(e, amount, settled) /\ amount \in Int
      /\ UNCHANGED <<allocated, waiting, profile, state, cycles, fills, applied, booked, proc>>
  BY CapitalAssumption DEF RecordDeposit, RecordRow, books
<1>2. event' \in [Events -> [amount : Int, settled : BOOLEAN]] /\ NeverOverspent'
  BY <1>1, RecordStep
<1>3. TypeOK' /\ CreditedAtMostOnce'
  BY <1>1, <1>2 DEF IInv, TypeOK, CreditedAtMostOnce
<1>4. Forward
  BY <1>1 DEF IInv, TypeOK, Forward, StateRow
<1> QED BY <1>1, <1>2, <1>3, <1>4, OutsideStep

(* A withdrawal locks profiles and writes flags: versions move, cash stays. *)
LEMMA RecordWithdrawalStep ==
    ASSUME IInv, NEW e \in Events, NEW amount \in Withdrawals,
           NEW settled \in BOOLEAN, RecordWithdrawal(e, amount, settled)
    PROVE  IInv'
<1>1. /\ RecordRow(e, -amount, settled) /\ -amount \in Int
      /\ UNCHANGED <<allocated, waiting, cycles, fills, applied, booked, proc>>
  <2>1. amount \in Int
    BY CapitalAssumption
  <2>2. RecordRow(e, -amount, settled)
    BY DEF RecordWithdrawal
  <2> QED BY <2>1, <2>2 DEF RecordRow, books
<1>2. event' \in [Events -> [amount : Int, settled : BOOLEAN]] /\ NeverOverspent'
  BY <1>1, RecordStep
<1>3. /\ profile \in [Profiles -> [capital : Nat, locked : BOOLEAN]]
      /\ state \in [Profiles -> StateRow]
      /\ profile' = [f \in Profiles |-> [profile[f] EXCEPT !.locked = TRUE]]
      /\ state' = [f \in Profiles |->
                     IF state[f].flagged THEN state[f]
                     ELSE [state[f] EXCEPT !.flagged = TRUE, !.version = @ + 1]]
  BY DEF IInv, TypeOK, RecordWithdrawal
<1>4. ASSUME NEW f \in Profiles
      PROVE  /\ profile'[f] \in [capital : Nat, locked : BOOLEAN]
             /\ profile'[f].capital = profile[f].capital
             /\ state'[f] \in StateRow
             /\ state'[f].cash = state[f].cash
             /\ state[f].version <= state'[f].version
  <2>1. state[f] \in StateRow /\ profile[f] \in [capital : Nat, locked : BOOLEAN]
    BY <1>3
  <2>2. profile'[f] = [profile[f] EXCEPT !.locked = TRUE]
    BY <1>3
  <2>3. state'[f] = IF state[f].flagged THEN state[f]
                    ELSE [state[f] EXCEPT !.flagged = TRUE, !.version = @ + 1]
    BY <1>3
  <2>4. /\ profile'[f] \in [capital : Nat, locked : BOOLEAN]
        /\ profile'[f].capital = profile[f].capital
    BY <2>1, <2>2
  <2>5. ASSUME NEW r \in StateRow
        PROVE  LET t == IF r.flagged THEN r
                        ELSE [r EXCEPT !.flagged = TRUE, !.version = @ + 1]
               IN  t \in StateRow /\ t.cash = r.cash /\ r.version <= t.version
    <3>1. [r EXCEPT !.flagged = TRUE, !.version = @ + 1] \in StateRow
      <4>1. r.version + 1 \in Nat
        BY DEF StateRow
      <4>2. \A v \in Nat : [r EXCEPT !.flagged = TRUE, !.version = v] \in StateRow
        BY Zenon DEF StateRow
      <4> QED BY <4>1, <4>2
    <3>2. [r EXCEPT !.flagged = TRUE, !.version = @ + 1].cash = r.cash
      BY DEF StateRow
    <3>3. r.version \in Nat /\ [r EXCEPT !.flagged = TRUE, !.version = @ + 1].version = r.version + 1
      BY DEF StateRow
    <3> QED BY <3>1, <3>2, <3>3
  <2> QED BY <2>1, <2>3, <2>4, <2>5
<1>5. /\ profile' \in [Profiles -> [capital : Nat, locked : BOOLEAN]]
      /\ state' \in [Profiles -> StateRow]
  BY <1>3, <1>4
<1>6. TypeOK'
  BY <1>1, <1>2, <1>5 DEF IInv, TypeOK
<1>7. CreditedAtMostOnce'
  BY <1>1, <1>4 DEF IInv, CreditedAtMostOnce
<1>8. Forward
  BY <1>1, <1>4 DEF IInv, TypeOK, Forward
<1> QED BY <1>1, <1>2, <1>6, <1>7, <1>8, OutsideStep

(* ---- allocation ---- *)

(* A command that ends, or goes on without touching a table.               *)
LEMMA QuietStep ==
    ASSUME IInv, NEW p \in Procs, NEW l \in Locals,
           proc' = [proc EXCEPT ![p] = l], CopyOK(l, state, profile, booked),
           UNCHANGED <<event, allocated, waiting, profile, state, cycles, fills,
                       applied, booked>>
    PROVE  IInv'
<1>1. TypeOK'
  BY DEF IInv, TypeOK
<1>2. NeverOverspent' /\ CreditedAtMostOnce'
  BY DEF IInv, NeverOverspent, CreditedAtMostOnce, Positive, Free
<1>3. Forward
  BY DEF IInv, TypeOK, Forward, StateRow
<1>4. CopyOK(l, state', profile', booked')
  OBVIOUS
<1> QED BY <1>1, <1>2, <1>3, <1>4, OwnStep

(* A process that is not working holds no copy.                            *)
LEMMA EndStep ==
    ASSUME IInv, NEW p \in Procs, End(p),
           UNCHANGED <<event, allocated, waiting, profile, state, cycles, fills,
                       applied, booked>>
    PROVE  IInv'
<1> DEFINE l == Idle(AnyProfile)
<1>1. AnyProfile \in Profiles
  BY CapitalAssumption DEF AnyProfile
<1>2. l \in Locals /\ l.pc = "idle" /\ l.gain = 0
  BY <1>1, IdleType
<1>3. CopyOK(l, state, profile, booked)
  BY <1>2 DEF CopyOK, Holding
<1>4. proc' = [proc EXCEPT ![p] = l]
  BY DEF End
<1> HIDE DEF l
<1> QED BY <1>2, <1>3, <1>4, QuietStep

(* A command that passed its first check holds no copy yet.                *)
LEMMA AllocCheckStep ==
    ASSUME IInv, NEW p \in Procs, NEW f \in Profiles, NEW amount \in Requests,
           NEW timing \in Timings, AllocCheck(p, f, amount, timing)
    PROVE  IInv'
<1> DEFINE l == [Idle(f) EXCEPT !.pc = "commit", !.amount = amount,
                                !.timing = timing]
<1>1. amount \in Nat /\ timing \in {"current_cycle", "next_cycle"}
  BY CapitalAssumption
<1>2. Idle(f) \in Locals
  BY IdleType
<1>3. l \in Locals /\ l.pc = "commit"
  BY <1>1, <1>2 DEF Locals
<1>4. CopyOK(l, state, profile, booked)
  BY <1>3 DEF CopyOK, Holding
<1>5. /\ proc' = [proc EXCEPT ![p] = l]
      /\ UNCHANGED <<event, allocated, waiting, profile, state, cycles, fills,
                     applied, booked>>
  BY DEF AllocCheck, ledger, books
<1> HIDE DEF l
<1> QED BY <1>3, <1>4, <1>5, QuietStep

(* An allocation takes from an event no more than what is left of it.      *)
LEMMA SplitWithinEvents ==
    ASSUME IInv, NEW amount \in Nat, NEW take \in Split(amount),
           allocated' = [e \in Events |-> allocated[e] + take[e]],
           UNCHANGED event
    PROVE  allocated' \in [Events -> Nat] /\ NeverOverspent'
<1>1. /\ take \in [Events -> 0..amount]
      /\ \A e \in Events : take[e] > 0 => Positive(e) /\ take[e] <= Free(e)
  BY DEF Split
<1>2. /\ event \in [Events -> [amount : Int, settled : BOOLEAN]]
      /\ allocated \in [Events -> Nat]
  BY DEF IInv, TypeOK
<1>3. allocated' \in [Events -> Nat]
  BY <1>1, <1>2
<1>4. ASSUME NEW e \in Events, allocated'[e] > 0
      PROVE  (Positive(e) /\ Free(e) >= 0)'
  <2>1. /\ allocated'[e] = allocated[e] + take[e] /\ take[e] \in Nat
        /\ allocated[e] \in Nat /\ event[e].amount \in Int
    BY <1>1, <1>2
  <2>2. allocated[e] > 0 \/ take[e] > 0
    BY <1>4, <2>1
  <2>3. Positive(e) /\ take[e] <= Free(e)
    BY <1>1, <2>1, <2>2 DEF IInv, NeverOverspent, Positive, Free
  <2> QED BY <2>1, <2>3 DEF Positive, Free
<1> QED BY <1>3, <1>4 DEF NeverOverspent

(* An allocation to the current cycle moves the version, so no copy of the *)
(* row can be stored over it any more.                                     *)
LEMMA CreditCurrentStep ==
    ASSUME IInv, NEW f \in Profiles, NEW amount \in Nat,
           CreditCurrent(f, amount), UNCHANGED booked
    PROVE  /\ state' \in [Profiles -> StateRow]
           /\ profile' \in [Profiles -> [capital : Nat, locked : BOOLEAN]]
           /\ cycles' \in [Profiles -> Seq(CycleRow)]
           /\ CreditedAtMostOnce' /\ Forward
<1>1. /\ state \in [Profiles -> StateRow] /\ booked \in [Profiles -> Int]
      /\ profile \in [Profiles -> [capital : Nat, locked : BOOLEAN]]
      /\ cycles \in [Profiles -> Seq(CycleRow)]
  BY DEF IInv, TypeOK
<1> DEFINE s == [state[f] EXCEPT !.cash = @ + amount, !.version = @ + 1]
           c == [n \in DOMAIN cycles[f] |->
                   IF n = state[f].cycle
                   THEN [cycles[f][n] EXCEPT !.added = @ + amount]
                   ELSE cycles[f][n]]
<1>2. /\ s \in StateRow /\ s.version = state[f].version + 1
      /\ s.cash = state[f].cash + amount
  <2>1. /\ state[f] \in StateRow /\ state[f].version + 1 \in Nat
        /\ state[f].cash + amount \in Int
    BY <1>1 DEF StateRow
  <2>2. s \in StateRow
    BY <2>1, RowType
  <2> QED BY <2>1, <2>2 DEF StateRow
<1>3. state' = [state EXCEPT ![f] = s]
  BY <1>1 DEF CreditCurrent
<1>5. c \in Seq(CycleRow)
  <2>1. cycles[f] \in Seq(CycleRow)
    BY <1>1
  <2>2. ASSUME NEW n \in DOMAIN cycles[f] PROVE c[n] \in CycleRow
    <3>1. cycles[f][n] \in CycleRow
      BY <2>1, LenProperties
    <3> QED BY <3>1 DEF CycleRow
  <2> HIDE DEF c
  <2>3. c = [n \in DOMAIN cycles[f] |-> c[n]]
    BY DEF c
  <2> QED BY <2>1, <2>2, <2>3, RewrittenSeq
<1>6. cycles' = [cycles EXCEPT ![f] = c]
  BY DEF CreditCurrent
<1> HIDE DEF s, c
<1> DEFINE q == [profile[f] EXCEPT !.capital = @ + amount]
<1>4. profile' = [profile EXCEPT ![f] = q]
  BY <1>1 DEF CreditCurrent
<1>7. /\ q \in [capital : Nat, locked : BOOLEAN]
      /\ q.capital = profile[f].capital + amount
  <2>1. profile[f] \in [capital : Nat, locked : BOOLEAN]
    BY <1>1
  <2>2. profile[f].capital + amount \in Nat
    BY <2>1
  <2>3. \A r \in [capital : Nat, locked : BOOLEAN], v \in Nat :
           /\ [r EXCEPT !.capital = v] \in [capital : Nat, locked : BOOLEAN]
           /\ [r EXCEPT !.capital = v].capital = v
    BY Zenon
  <2> QED BY <2>1, <2>2, <2>3
<1> HIDE DEF q
<1>8. ASSUME NEW g \in Profiles
      PROVE  /\ state'[g].cash <= profile'[g].capital + booked'[g]
             /\ state[g].version <= state'[g].version
             /\ state[g].version = state'[g].version =>
                   profile[g].capital + booked[g] <= profile'[g].capital + booked'[g]
  <2>1. /\ state[g].cash <= profile[g].capital + booked[g]
        /\ state[g].cash \in Int /\ state[g].version \in Nat
        /\ profile[g].capital \in Nat /\ booked[g] \in Int /\ booked' = booked
    BY <1>1 DEF IInv, CreditedAtMostOnce, StateRow
  <2>2. CASE g = f
    BY <1>1, <1>2, <1>3, <1>4, <1>7, <2>1, <2>2
  <2>3. CASE g # f
    BY <1>1, <1>3, <1>4, <2>1, <2>3
  <2> QED BY <2>2, <2>3
<1> QED BY <1>1, <1>2, <1>3, <1>4, <1>5, <1>6, <1>7, <1>8
        DEF CreditedAtMostOnce, Forward

(* The allocation: within the events, and credited once.                   *)
LEMMA AllocCommitStep ==
    ASSUME IInv, NEW p \in Procs, AllocCommit(p)
    PROVE  IInv'
<1> DEFINE f == proc[p].profile
           amount == proc[p].amount
           l == Idle(AnyProfile)
<1>1. f \in Profiles /\ amount \in Nat
  BY DEF IInv, TypeOK, Locals
<1>2. /\ proc' = [proc EXCEPT ![p] = l]
      /\ UNCHANGED <<event, fills, applied, booked>>
  BY DEF AllocCommit, End
<1>3. l \in Locals /\ l.pc = "idle" /\ l.gain = 0
  <2>1. AnyProfile \in Profiles
    BY CapitalAssumption DEF AnyProfile
  <2> QED BY <2>1, IdleType
<1>4. CopyOK(l, state', profile', booked')
  BY <1>3 DEF CopyOK, Holding
<1>5. allocated' \in [Events -> Nat] /\ NeverOverspent'
  BY <1>1, SplitWithinEvents DEF AllocCommit
<1> HIDE DEF l, f, amount
<1>6. CASE CreditCurrent(f, amount)
  <2>1. /\ state' \in [Profiles -> StateRow]
        /\ profile' \in [Profiles -> [capital : Nat, locked : BOOLEAN]]
        /\ cycles' \in [Profiles -> Seq(CycleRow)]
        /\ CreditedAtMostOnce' /\ Forward
    BY <1>1, <1>2, <1>6, CreditCurrentStep
  <2>2. waiting' = waiting
    BY <1>6 DEF CreditCurrent
  <2>3. TypeOK'
    BY <1>2, <1>3, <1>5, <2>1, <2>2 DEF IInv, TypeOK
  <2> QED BY <1>2, <1>4, <1>5, <2>1, <2>3, OwnStep
<1>7. CASE CreditNext(f, amount)
  <2>1. /\ waiting' = [waiting EXCEPT ![f] = @ + amount]
        /\ UNCHANGED <<profile, state, cycles>>
    BY <1>7 DEF CreditNext
  <2>2. TypeOK'
    BY <1>1, <1>2, <1>3, <1>5, <2>1 DEF IInv, TypeOK
  <2>3. CreditedAtMostOnce' /\ Forward
    BY <1>2, <2>1 DEF IInv, TypeOK, CreditedAtMostOnce, Forward, StateRow
  <2> QED BY <1>2, <1>4, <1>5, <2>2, <2>3, OwnStep
<1> QED BY <1>6, <1>7 DEF AllocCommit, f, amount

(* ---- reconciliation ---- *)

(* The parts of the locals are written independently.                      *)
LEMMA LocalsType ==
    ASSUME NEW l \in Locals
    PROVE  /\ \A pc \in {"commit", "pending", "fold", "open", "save", "clear"} :
                [l EXCEPT !.pc = pc] \in Locals
           /\ \A pc \in {"pending", "clear"}, r \in StateRow, n \in Nat :
                [l EXCEPT !.pc = pc, !.state = r, !.base = n] \in Locals
           /\ \A n \in Nat, m \in Nat :
                [l EXCEPT !.pc = "fold", !.next = n, !.last = m] \in Locals
           /\ \A n \in Nat, r \in StateRow :
                [l EXCEPT !.pc = "fold", !.next = n, !.state = r] \in Locals
           /\ \A r \in StateRow : [l EXCEPT !.pc = "open", !.state = r] \in Locals
           /\ \A n \in Nat : [l EXCEPT !.next = n] \in Locals
           /\ \A n \in Nat, c \in Int, r \in StateRow :
                [l EXCEPT !.next = n, !.gain = c, !.state = r] \in Locals
BY Zenon DEF Locals

(* A fresh copy is worth what the row is worth.                            *)
LEMMA RecStateStep ==
    ASSUME IInv, NEW p \in Procs, NEW f \in Profiles, RecState(p, f)
    PROVE  IInv'
<1>1. /\ state[f] \in StateRow /\ state[f].version \in Nat
      /\ state[f].cash <= profile[f].capital + booked[f]
      /\ profile[f].capital \in Nat /\ booked[f] \in Int /\ state[f].cash \in Int
  BY DEF IInv, TypeOK, StateRow, CreditedAtMostOnce
<1>2. Idle(f) \in Locals /\ Idle(f).gain = 0 /\ Idle(f).profile = f
  BY IdleType DEF Idle
<1> DEFINE l == [Idle(f) EXCEPT !.pc = "pending", !.state = state[f],
                                !.base = state[f].version]
<1>3. l \in Locals
  BY <1>1, <1>2, LocalsType
<1>4. /\ l.pc = "pending" /\ l.profile = f /\ l.gain = 0
      /\ l.base = state[f].version /\ l.state.cash = state[f].cash
  BY <1>2 DEF Locals
<1>5. /\ proc' = [proc EXCEPT ![p] = l]
      /\ UNCHANGED <<event, allocated, waiting, profile, state, cycles, fills,
                     applied, booked>>
  BY DEF RecState, ledger, books
<1> HIDE DEF l
<1>6. CopyOK(l, state, profile, booked)
  BY <1>1, <1>4 DEF CopyOK, Holding
<1> QED BY <1>3, <1>5, <1>6, QuietStep

(* What a working process knows of itself.                                 *)
LEMMA Self ==
    ASSUME IInv, NEW p \in Procs
    PROVE  /\ proc \in [Procs -> Locals] /\ proc[p] \in Locals
           /\ proc[p].profile \in Profiles
           /\ proc[p].state \in StateRow /\ proc[p].state.cash \in Int
           /\ proc[p].state.cycle \in Nat /\ proc[p].base \in Nat
           /\ proc[p].next \in Nat /\ proc[p].last \in Nat
           /\ proc[p].gain \in Int
           /\ CopyOK(proc[p], state, profile, booked)
BY DEF IInv, TypeOK, Locals, StateRow

(* A step that changes nothing of the copy but where the process is.       *)
LEMMA MoveStep ==
    ASSUME IInv, NEW p \in Procs, NEW l \in Locals,
           proc' = [proc EXCEPT ![p] = l], proc[p].pc \in Holding,
           l.profile = proc[p].profile, l.base = proc[p].base,
           l.state.cash = proc[p].state.cash, l.gain = proc[p].gain,
           l.pc \in {"pending", "clear"} => l.gain = 0,
           UNCHANGED <<event, allocated, waiting, profile, state, cycles, fills,
                       applied, booked>>
    PROVE  IInv'
<1>1. CopyOK(l, state, profile, booked)
  BY Self DEF CopyOK
<1> QED BY <1>1, QuietStep

(* Reading the fills leaves the copy as it is.                             *)
LEMMA RecPendingStep ==
    ASSUME IInv, NEW p \in Procs, RecPending(p)
    PROVE  IInv'
<1> DEFINE f == proc[p].profile
           folding == [proc[p] EXCEPT !.pc = "fold", !.next = applied[f] + 1,
                                      !.last = Len(fills[f])]
           clearing == [proc[p] EXCEPT !.pc = "clear"]
<1>1. /\ proc[p] \in Locals /\ f \in Profiles /\ proc[p].pc = "pending"
      /\ proc[p].gain = 0
  BY Self DEF RecPending, At, CopyOK
<1>2. applied[f] + 1 \in Nat /\ Len(fills[f]) \in Nat
  <2>1. applied[f] \in Nat /\ fills[f] \in Seq(Int)
    BY <1>1 DEF IInv, TypeOK
  <2> QED BY <2>1, LenProperties
<1>3. UNCHANGED <<event, allocated, waiting, profile, state, cycles, fills,
                  applied, booked>>
  BY DEF RecPending, ledger, books
<1>4. CASE proc' = [proc EXCEPT ![p] = folding]
  <2>1. folding \in Locals
    BY <1>1, <1>2, LocalsType
  <2>2. /\ folding.profile = f /\ folding.base = proc[p].base
        /\ folding.state.cash = proc[p].state.cash
        /\ folding.gain = proc[p].gain /\ folding.pc = "fold"
    BY <1>1 DEF Locals
  <2> HIDE DEF folding
  <2> QED BY <1>1, <1>3, <1>4, <2>1, <2>2, MoveStep DEF Holding
<1>5. CASE proc' = [proc EXCEPT ![p] = clearing]
  <2>1. clearing \in Locals
    BY <1>1, LocalsType
  <2>2. /\ clearing.profile = f /\ clearing.base = proc[p].base
        /\ clearing.state.cash = proc[p].state.cash
        /\ clearing.gain = proc[p].gain
    BY <1>1 DEF Locals
  <2> HIDE DEF clearing
  <2> QED BY <1>1, <1>3, <1>5, <2>1, <2>2, MoveStep DEF Holding
<1> QED BY <1>4, <1>5, Self DEF RecPending

(* What is added to the copy is added to the capital in the same step.     *)
LEMMA FoldActivateStep ==
    ASSUME IInv, NEW p \in Procs, FoldActivate(p)
    PROVE  IInv'
<1> DEFINE f == proc[p].profile
           w == waiting[f]
           q == [profile[f] EXCEPT !.capital = @ + w]
           r == [proc[p].state EXCEPT !.cash = @ + w]
           l == [proc[p] EXCEPT !.pc = "open", !.state = r]
<1>1. /\ proc \in [Procs -> Locals] /\ proc[p] \in Locals /\ f \in Profiles
      /\ proc[p].state \in StateRow /\ proc[p].state.cash \in Int
      /\ proc[p].gain \in Int /\ proc[p].pc = "fold" /\ proc[p].base \in Nat
      /\ CopyOK(proc[p], state, profile, booked)
  BY Self DEF FoldActivate, Folding, At
<1>2. /\ profile \in [Profiles -> [capital : Nat, locked : BOOLEAN]]
      /\ state \in [Profiles -> StateRow] /\ booked \in [Profiles -> Int]
      /\ waiting \in [Profiles -> Nat] /\ w \in Nat
  BY <1>1 DEF IInv, TypeOK
<1>3. /\ waiting' = [waiting EXCEPT ![f] = 0]
      /\ UNCHANGED <<event, allocated, state, cycles, fills, applied, booked>>
  BY DEF FoldActivate, books
<1>4. profile' = [profile EXCEPT ![f] = q]
  BY <1>1, <1>2 DEF FoldActivate
<1>5. proc' = [proc EXCEPT ![p] = l]
  BY <1>1 DEF FoldActivate
<1>6. /\ q \in [capital : Nat, locked : BOOLEAN]
      /\ q.capital = profile[f].capital + w
  <2>1. profile[f] \in [capital : Nat, locked : BOOLEAN]
    BY <1>1, <1>2
  <2>2. profile[f].capital + w \in Nat
    BY <1>2, <2>1
  <2> HIDE DEF w
  <2>3. \A x \in [capital : Nat, locked : BOOLEAN], v \in Nat :
           /\ [x EXCEPT !.capital = v] \in [capital : Nat, locked : BOOLEAN]
           /\ [x EXCEPT !.capital = v].capital = v
    BY Zenon
  <2> QED BY <2>1, <2>2, <2>3
<1>7. r \in StateRow /\ r.cash = proc[p].state.cash + w
  <2>1. proc[p].state.cash + w \in Int
    BY <1>1, <1>2
  <2>2. r \in StateRow
    BY <1>1, <2>1, RowType
  <2> QED BY <1>1, <2>2 DEF StateRow
<1> HIDE DEF q, r
<1>8. /\ l \in Locals /\ l.pc = "open" /\ l.profile = f
      /\ l.base = proc[p].base /\ l.state.cash = proc[p].state.cash + w
      /\ l.gain = proc[p].gain
  <2>1. l \in Locals
    BY <1>1, <1>7, LocalsType
  <2> QED BY <1>1, <1>7, <2>1 DEF Locals
<1>9. TypeOK'
  <2>1. /\ profile' \in [Profiles -> [capital : Nat, locked : BOOLEAN]]
        /\ waiting' \in [Profiles -> Nat]
    BY <1>1, <1>2, <1>3, <1>4, <1>6
  <2>2. proc' \in [Procs -> Locals]
    BY <1>1, <1>5, <1>8
  <2> QED BY <1>3, <2>1, <2>2 DEF IInv, TypeOK
<1>10. ASSUME NEW g \in Profiles
       PROVE  /\ profile[g].capital \in Nat /\ profile'[g].capital \in Nat
              /\ profile[g].capital <= profile'[g].capital
              /\ booked[g] \in Int /\ state[g].cash \in Int
              /\ state[g].version \in Nat
  BY <1>1, <1>2, <1>4, <1>6 DEF StateRow
<1>11. NeverOverspent' /\ CreditedAtMostOnce' /\ Forward
  BY <1>3, <1>10 DEF IInv, NeverOverspent, Positive, Free,
                     CreditedAtMostOnce, Forward
<1>12. CopyOK(l, state', profile', booked')
  <2>1. profile'[f].capital = profile[f].capital + w
    BY <1>1, <1>2, <1>4, <1>6
  <2>2. state[f].version \in Nat /\ profile[f].capital \in Nat /\ booked[f] \in Int
    BY <1>1, <1>10
  <2> HIDE DEF l, w
  <2>3. /\ proc[p].base <= state[f].version
        /\ proc[p].base = state[f].version =>
             proc[p].state.cash <= profile[f].capital + booked[f] + proc[p].gain
    BY <1>1 DEF CopyOK, Holding
  <2> QED BY <1>1, <1>2, <1>3, <1>8, <2>1, <2>2, <2>3 DEF CopyOK, Holding
<1> HIDE DEF l
<1> QED BY <1>5, <1>9, <1>11, <1>12, OwnStep

(* A step that writes cycle rows and leaves the copy worth what it was.    *)
LEMMA CycleStep ==
    ASSUME IInv, NEW p \in Procs, NEW l \in Locals,
           proc' = [proc EXCEPT ![p] = l],
           cycles' \in [Profiles -> Seq(CycleRow)],
           CopyOK(l, state, profile, booked),
           UNCHANGED <<event, allocated, waiting, profile, state, fills, applied,
                       booked>>
    PROVE  IInv'
<1>1. TypeOK'
  BY DEF IInv, TypeOK
<1>2. NeverOverspent' /\ CreditedAtMostOnce'
  BY DEF IInv, NeverOverspent, CreditedAtMostOnce, Positive, Free
<1>3. Forward
  BY DEF IInv, TypeOK, Forward, StateRow
<1>4. CopyOK(l, state', profile', booked')
  OBVIOUS
<1> QED BY <1>1, <1>2, <1>3, <1>4, OwnStep

(* Opening a cycle writes a cycle row only.                                *)
LEMMA FoldOpenStep ==
    ASSUME IInv, NEW p \in Procs, FoldOpen(p)
    PROVE  IInv'
<1> DEFINE f == proc[p].profile
           new == [starting |-> proc[p].state.cash, added |-> 0,
                   closed |-> FALSE, realized |-> 0]
           r == [proc[p].state EXCEPT !.open = TRUE]
           l == [proc[p] EXCEPT !.pc = "fold", !.next = @ + 1, !.state = r]
<1>1. /\ proc \in [Procs -> Locals] /\ proc[p] \in Locals /\ f \in Profiles
      /\ proc[p].state \in StateRow /\ proc[p].state.cash \in Int
      /\ proc[p].next \in Nat /\ proc[p].pc = "open"
      /\ CopyOK(proc[p], state, profile, booked)
  BY Self DEF FoldOpen, At
<1>2. cycles' \in [Profiles -> Seq(CycleRow)]
  <2>1. cycles \in [Profiles -> Seq(CycleRow)]
    BY DEF IInv, TypeOK
  <2>2. new \in CycleRow
    BY <1>1 DEF CycleRow
  <2>3. cycles' = cycles \/ cycles' = [cycles EXCEPT ![f] = Append(@, new)]
    BY DEF FoldOpen
  <2> HIDE DEF new
  <2>4. Append(cycles[f], new) \in Seq(CycleRow)
    BY <1>1, <2>1, <2>2, AppendProperties
  <2> QED BY <1>1, <2>1, <2>3, <2>4
<1>3. r \in StateRow /\ r.cash = proc[p].state.cash
  <2>1. \A x \in StateRow : [x EXCEPT !.open = TRUE] \in StateRow
    BY Zenon DEF StateRow
  <2> QED BY <1>1, <2>1 DEF StateRow
<1>4. /\ proc' = [proc EXCEPT ![p] = l]
      /\ UNCHANGED <<event, allocated, waiting, profile, state, fills, applied,
                     booked>>
  BY <1>1 DEF FoldOpen, ledger
<1> HIDE DEF r
<1>5. /\ l \in Locals /\ l.pc = "fold" /\ l.profile = f
      /\ l.base = proc[p].base /\ l.state.cash = proc[p].state.cash
      /\ l.gain = proc[p].gain
  <2>1. proc[p].next + 1 \in Nat
    BY <1>1
  <2>2. l \in Locals
    BY <1>1, <1>3, <2>1, LocalsType
  <2> QED BY <1>1, <1>3, <2>2 DEF Locals
<1> HIDE DEF l
<1>6. CopyOK(l, state, profile, booked)
  BY <1>1, <1>5 DEF CopyOK, Holding
<1> QED BY <1>2, <1>4, <1>5, <1>6, CycleStep

(* One more buy of the same cycle moves to the next fill.                  *)
LEMMA FoldBuyStep ==
    ASSUME IInv, NEW p \in Procs, FoldBuy(p)
    PROVE  IInv'
<1> DEFINE l == [proc[p] EXCEPT !.next = @ + 1]
<1>1. /\ proc[p] \in Locals /\ proc[p].next + 1 \in Nat /\ proc[p].pc = "fold"
  BY Self DEF FoldBuy, Folding, At
<1>2. l \in Locals
  BY <1>1, LocalsType
<1>3. /\ l.profile = proc[p].profile /\ l.base = proc[p].base
      /\ l.state.cash = proc[p].state.cash /\ l.gain = proc[p].gain
      /\ l.pc = "fold"
  BY <1>1 DEF Locals
<1>4. /\ proc' = [proc EXCEPT ![p] = l]
      /\ UNCHANGED <<event, allocated, waiting, profile, state, cycles, fills,
                     applied, booked>>
  BY Self DEF FoldBuy, ledger, books
<1> HIDE DEF l
<1> QED BY <1>1, <1>2, <1>3, <1>4, MoveStep DEF Holding

(* What is added to the copy is the profit that the saved fills will book. *)
LEMMA FoldCloseStep ==
    ASSUME IInv, NEW p \in Procs, FoldClose(p),
           fills[proc[p].profile][proc[p].next] \in Int
    PROVE  IInv'
<1> DEFINE f == proc[p].profile
           gain == fills[f][proc[p].next]
           cash == proc[p].state.cash + gain
           c == [n \in DOMAIN cycles[f] |->
                   IF n = proc[p].state.cycle
                   THEN [cycles[f][n] EXCEPT
                           !.closed = TRUE,
                           !.realized = cash - cycles[f][n].starting]
                   ELSE cycles[f][n]]
           r == [proc[p].state EXCEPT !.cash = cash, !.open = FALSE,
                                      !.cycle = @ + 1]
           l == [proc[p] EXCEPT !.next = @ + 1, !.gain = @ + gain, !.state = r]
<1>1. /\ proc \in [Procs -> Locals] /\ proc[p] \in Locals /\ f \in Profiles
      /\ proc[p].state \in StateRow /\ proc[p].state.cash \in Int
      /\ proc[p].state.cycle \in Nat /\ proc[p].gain \in Int
      /\ proc[p].next \in Nat /\ proc[p].base \in Nat /\ proc[p].pc = "fold"
      /\ CopyOK(proc[p], state, profile, booked)
  BY Self DEF FoldClose, Folding, At
<1>2. gain \in Int /\ cash \in Int
  BY <1>1
<1>3. /\ proc' = [proc EXCEPT ![p] = l]
      /\ cycles' = [cycles EXCEPT ![f] = c]
      /\ UNCHANGED <<event, allocated, waiting, profile, state, fills, applied,
                     booked>>
  BY <1>1 DEF FoldClose, ledger
<1> HIDE DEF cash
<1>4. cycles' \in [Profiles -> Seq(CycleRow)]
  <2>1. cycles \in [Profiles -> Seq(CycleRow)] /\ cycles[f] \in Seq(CycleRow)
    BY <1>1 DEF IInv, TypeOK
  <2>2. ASSUME NEW n \in DOMAIN cycles[f] PROVE c[n] \in CycleRow
    <3>1. cycles[f][n] \in CycleRow
      BY <2>1, LenProperties
    <3>2. cash - cycles[f][n].starting \in Int
      BY <1>2, <3>1 DEF CycleRow
    <3>3. \A x \in CycleRow, v \in Int :
             [x EXCEPT !.closed = TRUE, !.realized = v] \in CycleRow
      BY Zenon DEF CycleRow
    <3> QED BY <3>1, <3>2, <3>3
  <2> HIDE DEF c
  <2>3. c = [n \in DOMAIN cycles[f] |-> c[n]]
    BY DEF c
  <2>4. c \in Seq(CycleRow)
    BY <2>1, <2>2, <2>3, RewrittenSeq
  <2> QED BY <1>3, <2>1, <2>4
<1>5. r \in StateRow /\ r.cash = cash
  <2>1. \A x \in StateRow, v \in Int, n \in Nat :
           [x EXCEPT !.cash = v, !.open = FALSE, !.cycle = n] \in StateRow
    BY Zenon DEF StateRow
  <2>2. proc[p].state.cycle + 1 \in Nat
    BY <1>1
  <2> QED BY <1>1, <1>2, <2>1, <2>2 DEF StateRow
<1> HIDE DEF r
<1>6. /\ l \in Locals /\ l.pc = "fold" /\ l.profile = f
      /\ l.base = proc[p].base /\ l.state.cash = proc[p].state.cash + gain
      /\ l.gain = proc[p].gain + gain
  <2>1. proc[p].next + 1 \in Nat /\ proc[p].gain + gain \in Int
    BY <1>1, <1>2
  <2>2. l \in Locals
    BY <1>1, <1>5, <2>1, LocalsType
  <2> QED BY <1>1, <1>5, <2>2 DEF Locals, cash
<1>7. CopyOK(l, state, profile, booked)
  <2>1. /\ state[f].version \in Nat /\ profile[f].capital \in Nat
        /\ booked[f] \in Int
    BY <1>1 DEF IInv, TypeOK, StateRow
  <2> HIDE DEF l, gain
  <2> QED BY <1>1, <1>2, <1>6, <2>1 DEF CopyOK, Holding
<1> HIDE DEF l
<1> QED BY <1>3, <1>4, <1>6, <1>7, CycleStep

(* Going on to the save.                                                   *)
LEMMA FoldDoneStep ==
    ASSUME IInv, NEW p \in Procs, FoldDone(p)
    PROVE  IInv'
<1> DEFINE l == [proc[p] EXCEPT !.pc = "save"]
<1>1. proc[p] \in Locals /\ proc[p].pc = "fold"
  BY Self DEF FoldDone, At
<1>2. l \in Locals
  BY <1>1, LocalsType
<1>3. /\ l.profile = proc[p].profile /\ l.base = proc[p].base
      /\ l.state.cash = proc[p].state.cash /\ l.gain = proc[p].gain
      /\ l.pc = "save"
  BY <1>1 DEF Locals
<1>4. /\ proc' = [proc EXCEPT ![p] = l]
      /\ UNCHANGED <<event, allocated, waiting, profile, state, cycles, fills,
                     applied, booked>>
  BY Self DEF FoldDone, ledger, books
<1> HIDE DEF l
<1> QED BY <1>1, <1>2, <1>3, <1>4, MoveStep DEF Holding

(* The copy is stored: its worth becomes the worth of the row.             *)
LEMMA RecSaveStep ==
    ASSUME IInv, NEW p \in Procs, RecSave(p), CanSave(p)
    PROVE  IInv'
<1> DEFINE f == proc[p].profile
           r == [proc[p].state EXCEPT !.version = proc[p].base + 1]
           l == [Idle(f) EXCEPT !.pc = "clear", !.state = r, !.base = r.version]
<1>1. /\ proc \in [Procs -> Locals] /\ proc[p] \in Locals /\ f \in Profiles
      /\ proc[p].state \in StateRow /\ proc[p].state.cash \in Int
      /\ proc[p].gain \in Int /\ proc[p].base \in Nat /\ proc[p].last \in Nat
      /\ proc[p].pc = "save" /\ CopyOK(proc[p], state, profile, booked)
  BY Self DEF RecSave, At
<1>2. /\ proc' = [proc EXCEPT ![p] = l]
      /\ state' = [state EXCEPT ![f] = r]
      /\ applied' = [applied EXCEPT ![f] = proc[p].last]
      /\ booked' = [booked EXCEPT ![f] = @ + proc[p].gain]
      /\ UNCHANGED <<event, allocated, waiting, profile, cycles, fills>>
  BY DEF RecSave, ledger
<1>3. state[f].version = proc[p].base
  BY DEF CanSave
<1>4. /\ r \in StateRow /\ r.version = proc[p].base + 1
      /\ r.cash = proc[p].state.cash
  <2>1. proc[p].base + 1 \in Nat
    BY <1>1
  <2>2. r \in StateRow
    BY <1>1, <2>1, RowType
  <2> QED BY <1>1, <2>2 DEF StateRow
<1> HIDE DEF r
<1>5. /\ l \in Locals /\ l.pc = "clear" /\ l.profile = f /\ l.gain = 0
      /\ l.base = r.version /\ l.state.cash = r.cash
  <2>1. Idle(f) \in Locals /\ Idle(f).gain = 0 /\ Idle(f).profile = f
    BY <1>1, IdleType DEF Idle
  <2>2. r.version \in Nat
    BY <1>1, <1>4
  <2>3. l \in Locals
    BY <1>4, <2>1, <2>2, LocalsType
  <2> QED BY <2>1, <2>3 DEF Locals
<1> HIDE DEF l
<1>6. /\ state \in [Profiles -> StateRow] /\ booked \in [Profiles -> Int]
      /\ profile \in [Profiles -> [capital : Nat, locked : BOOLEAN]]
      /\ applied \in [Profiles -> Nat]
  BY DEF IInv, TypeOK
<1>7. TypeOK'
  <2>1. /\ state' \in [Profiles -> StateRow] /\ booked' \in [Profiles -> Int]
        /\ applied' \in [Profiles -> Nat] /\ proc' \in [Procs -> Locals]
    BY <1>1, <1>2, <1>4, <1>5, <1>6
  <2> QED BY <1>2, <2>1 DEF IInv, TypeOK
<1>8. proc[p].state.cash <= profile[f].capital + booked[f] + proc[p].gain
  BY <1>1, <1>3 DEF CopyOK, Holding
<1>9. ASSUME NEW g \in Profiles
      PROVE  /\ state'[g].cash <= profile'[g].capital + booked'[g]
             /\ state[g].version <= state'[g].version
             /\ state[g].version = state'[g].version =>
                   profile[g].capital + booked[g] <= profile'[g].capital + booked'[g]
  <2>1. /\ state[g].cash <= profile[g].capital + booked[g]
        /\ state[g].cash \in Int /\ state[g].version \in Nat
        /\ profile[g].capital \in Nat /\ booked[g] \in Int /\ profile' = profile
    BY <1>2, <1>6 DEF IInv, CreditedAtMostOnce, StateRow
  <2>2. CASE g = f
    BY <1>1, <1>2, <1>3, <1>4, <1>6, <1>8, <2>1, <2>2
  <2>3. CASE g # f
    BY <1>1, <1>2, <1>6, <2>1, <2>3
  <2> QED BY <2>2, <2>3
<1>10. NeverOverspent' /\ CreditedAtMostOnce' /\ Forward
  BY <1>2, <1>9 DEF IInv, NeverOverspent, Positive, Free, CreditedAtMostOnce, Forward
<1>11. CopyOK(l, state', profile', booked')
  <2>1. /\ state'[f] = r /\ r.version \in Nat
        /\ r.cash <= profile'[f].capital + booked'[f]
        /\ profile'[f].capital \in Nat /\ booked'[f] \in Int
    BY <1>1, <1>2, <1>4, <1>6, <1>9
  <2> QED BY <1>5, <2>1 DEF CopyOK, Holding
<1> QED BY <1>2, <1>7, <1>10, <1>11, OwnStep

(* A write of the row that keeps its cash, by whatever command.            *)
LEMMA SameCash ==
    ASSUME IInv, NEW f \in Profiles, NEW r \in StateRow,
           r.version = state[f].version + 1,
           r.cash <= profile[f].capital + booked[f],
           state' = [state EXCEPT ![f] = r], proc' \in [Procs -> Locals],
           UNCHANGED <<event, allocated, waiting, profile, cycles, fills, applied,
                       booked>>
    PROVE  TypeOK' /\ NeverOverspent' /\ CreditedAtMostOnce' /\ Forward
<1>1. TypeOK'
  BY DEF IInv, TypeOK
<1>2. NeverOverspent'
  BY DEF IInv, NeverOverspent, Positive, Free
<1>3. state \in [Profiles -> StateRow] /\ \A g \in Profiles : state[g].version \in Nat
  BY DEF IInv, TypeOK, StateRow
<1>4. CreditedAtMostOnce'
  BY <1>3 DEF IInv, CreditedAtMostOnce
<1>5. Forward
  <2>1. SUFFICES ASSUME NEW g \in Profiles
                 PROVE  /\ state[g].version <= state'[g].version
                        /\ state[g].version = state'[g].version =>
                              profile[g].capital + booked[g]
                                <= profile'[g].capital + booked'[g]
    BY DEF Forward
  <2>2. profile[g].capital \in Nat /\ booked[g] \in Int
    BY DEF IInv, TypeOK
  <2> QED BY <1>3, <2>2
<1> QED BY <1>1, <1>2, <1>4, <1>5

(* Clearing the flag stores the copy again, under the version it has.      *)
LEMMA RecClearStep ==
    ASSUME IInv, NEW p \in Procs, RecClear(p)
    PROVE  IInv'
<1> DEFINE f == proc[p].profile
           r == [proc[p].state EXCEPT !.flagged = FALSE,
                                      !.version = proc[p].base + 1]
           l == Idle(AnyProfile)
<1>1. /\ proc \in [Procs -> Locals] /\ proc[p] \in Locals /\ f \in Profiles
      /\ proc[p].state \in StateRow /\ proc[p].base \in Nat
      /\ proc[p].pc = "clear" /\ CopyOK(proc[p], state, profile, booked)
      /\ proc[p].gain \in Int
  BY Self DEF RecClear, At
<1>2. /\ proc' = [proc EXCEPT ![p] = l]
      /\ UNCHANGED <<event, allocated, waiting, profile, cycles, fills, applied,
                     booked>>
  BY DEF RecClear, End, ledger, books
<1>3. l \in Locals /\ l.pc = "idle" /\ l.gain = 0
  <2>1. AnyProfile \in Profiles
    BY CapitalAssumption DEF AnyProfile
  <2> QED BY <2>1, IdleType
<1> HIDE DEF l
<1>4. CASE UNCHANGED state
  <2>1. End(p)
    BY DEF RecClear
  <2> QED BY <1>2, <1>4, <2>1, EndStep
<1>5. CASE CanSave(p) /\ state' = [state EXCEPT ![f] = r]
  <2>1. /\ r \in StateRow /\ r.version = state[f].version + 1
        /\ r.cash = proc[p].state.cash
    <3>1. \A x \in StateRow, n \in Nat :
             [x EXCEPT !.flagged = FALSE, !.version = n] \in StateRow
      BY Zenon DEF StateRow
    <3>2. proc[p].base + 1 \in Nat /\ state[f].version = proc[p].base
      BY <1>1, <1>5 DEF CanSave
    <3> QED BY <1>1, <3>1, <3>2 DEF StateRow
  <2>2. r.cash <= profile[f].capital + booked[f]
    <3>1. /\ proc[p].state.cash <= profile[f].capital + booked[f] + proc[p].gain
          /\ proc[p].gain = 0
      BY <1>1, <1>5 DEF CopyOK, Holding, CanSave
    <3>2. profile[f].capital \in Nat /\ booked[f] \in Int
      BY <1>1 DEF IInv, TypeOK
    <3> QED BY <2>1, <3>1, <3>2
  <2>3. proc' \in [Procs -> Locals]
    BY <1>1, <1>2, <1>3
  <2> HIDE DEF r
  <2>4. TypeOK' /\ NeverOverspent' /\ CreditedAtMostOnce' /\ Forward
    BY <1>1, <1>2, <1>5, <2>1, <2>2, <2>3, SameCash
  <2>5. CopyOK(l, state', profile', booked')
    BY <1>3 DEF CopyOK, Holding
  <2> QED BY <1>2, <2>4, <2>5, OwnStep
<1> QED BY <1>4, <1>5 DEF RecClear

(* Other commands move the version and leave the cash.                     *)
LEMMA OtherWriteStep ==
    ASSUME IInv, NEW f \in Profiles, OtherWrite(f)
    PROVE  IInv'
<1>1. PICK flag \in BOOLEAN :
         state' = [state EXCEPT ![f].version = @ + 1, ![f].flagged = flag]
  BY DEF OtherWrite
<1> DEFINE r == [state[f] EXCEPT !.version = @ + 1, !.flagged = flag]
<1>2. state \in [Profiles -> StateRow] /\ state[f] \in StateRow
  BY DEF IInv, TypeOK
<1>3. state' = [state EXCEPT ![f] = r]
  BY <1>1, <1>2
<1>4. UNCHANGED <<event, allocated, waiting, profile, cycles, fills, applied,
                  booked, proc>>
  BY DEF OtherWrite, ledger, books
<1>5. r \in StateRow /\ r.version = state[f].version + 1 /\ r.cash = state[f].cash
  <2>1. \A x \in StateRow, n \in Nat :
           [x EXCEPT !.version = n, !.flagged = flag] \in StateRow
    BY Zenon DEF StateRow
  <2>2. state[f].version + 1 \in Nat
    BY <1>2 DEF StateRow
  <2>3. r \in StateRow
    BY <1>2, <2>1, <2>2
  <2> QED BY <1>2, <2>3 DEF StateRow
<1> HIDE DEF r
<1>6. TypeOK' /\ NeverOverspent' /\ CreditedAtMostOnce' /\ Forward
  <2>1. r.cash <= profile[f].capital + booked[f]
    BY <1>5 DEF IInv, CreditedAtMostOnce
  <2>2. proc' \in [Procs -> Locals]
    BY <1>4 DEF IInv, TypeOK
  <2> QED BY <1>3, <1>4, <1>5, <2>1, <2>2, SameCash
<1> QED BY <1>4, <1>6, OutsideStep

(* The broker adds a fill; no amount changes.                              *)
LEMMA ExecuteStep ==
    ASSUME IInv, NEW f \in Profiles, NEW gain \in Gains, Execute(f, gain)
    PROVE  IInv' /\ \A g \in Profiles : Len(fills[g]) <= Len(fills'[g])
<1> DEFINE e == IF Len(fills[f]) % 2 = 0 THEN 0 ELSE gain
<1>1. e \in Int
  BY CapitalAssumption
<1>2. /\ fills' = [fills EXCEPT ![f] = Append(fills[f], e)]
      /\ UNCHANGED <<event, allocated, waiting, profile, state, cycles, applied,
                     booked, proc>>
  BY DEF Execute, ledger
<1> HIDE DEF e
<1>3. fills \in [Profiles -> Seq(Int)] /\ \A g \in Profiles : Len(fills[g]) \in Nat
  <2>1. fills \in [Profiles -> Seq(Int)]
    BY DEF IInv, TypeOK
  <2> QED BY <2>1, LenProperties
<1>4. /\ Append(fills[f], e) \in Seq(Int)
      /\ Len(Append(fills[f], e)) = Len(fills[f]) + 1
  BY <1>1, <1>3, AppendProperties
<1>5. /\ fills' \in [Profiles -> Seq(Int)]
      /\ \A g \in Profiles : Len(fills[g]) <= Len(fills'[g])
  BY <1>2, <1>3, <1>4
<1>6. TypeOK'
  BY <1>2, <1>5 DEF IInv, TypeOK
<1>7. NeverOverspent' /\ CreditedAtMostOnce'
  BY <1>2 DEF IInv, NeverOverspent, Positive, Free, CreditedAtMostOnce
<1>8. Forward
  <2>1. ASSUME NEW g \in Profiles
        PROVE  /\ state[g].version \in Nat /\ profile[g].capital \in Nat
               /\ booked[g] \in Int
    BY DEF IInv, TypeOK, StateRow
  <2> QED BY <1>2, <2>1 DEF Forward
<1> QED BY <1>2, <1>5, <1>6, <1>7, <1>8, OutsideStep

(* ---- the invariant ---- *)

(* A reconciliation folds fills that were executed.                        *)
Window == \A p \in Procs : /\ 1 <= proc[p].next
                          /\ proc[p].last <= Len(fills[proc[p].profile])

(* A step of one process that folds executed fills only.                   *)
LEMMA WindowStep ==
    ASSUME TypeOK, Window, UNCHANGED fills, NEW p \in Procs, NEW l,
           proc' = [proc EXCEPT ![p] = l],
           1 <= l.next, l.last <= Len(fills[l.profile])
    PROVE  Window'
BY DEF TypeOK, Window

(* The same from the locals before the step.                               *)
LEMMA WindowSame ==
    ASSUME TypeOK, Window, UNCHANGED fills, NEW p \in Procs, NEW l,
           proc' = [proc EXCEPT ![p] = l],
           l.profile = proc[p].profile, l.last = proc[p].last,
           l.next = proc[p].next \/ l.next = proc[p].next + 1
    PROVE  Window'
<1>1. /\ proc[p].next \in Nat /\ 1 <= proc[p].next
      /\ proc[p].last <= Len(fills[proc[p].profile])
  BY DEF TypeOK, Locals, Window
<1>2. 1 <= l.next /\ l.last <= Len(fills[l.profile])
  BY <1>1
<1> QED BY <1>2, WindowStep

(* Fills are counted.                                                      *)
LEMMA LenFills ==
    ASSUME TypeOK, NEW f \in Profiles
    PROVE  Len(fills[f]) \in Nat
<1>1. fills[f] \in Seq(Int)
  BY DEF TypeOK
<1> QED BY <1>1, LenProperties

(* A process that starts or ends has no fills to fold.                     *)
LEMMA WindowFresh ==
    ASSUME TypeOK, Window, UNCHANGED fills, NEW p \in Procs,
           NEW f \in Profiles, NEW l, proc' = [proc EXCEPT ![p] = l],
           l.profile = f, l.next = 1, l.last = 0
    PROVE  Window'
<1>1. Len(fills[f]) \in Nat
  BY LenFills
<1>2. 1 <= l.next /\ l.last <= Len(fills[l.profile])
  BY <1>1
<1> QED BY <1>2, WindowStep

(* The same for a process that ends.                                       *)
LEMMA WindowEnd ==
    ASSUME TypeOK, Window, UNCHANGED fills, NEW p \in Procs, End(p)
    PROVE  Window'
<1>1. AnyProfile \in Profiles
  BY CapitalAssumption DEF AnyProfile
<1>2. /\ Idle(AnyProfile).profile = AnyProfile
      /\ Idle(AnyProfile).next = 1 /\ Idle(AnyProfile).last = 0
  BY DEF Idle
<1> QED BY <1>1, <1>2, WindowFresh DEF End

(* Every step of a process keeps the window.                               *)
LEMMA WindowProc ==
    ASSUME TypeOK, Window, NEW p \in Procs, ProcStep(p)
    PROVE  Window'
<1>1. /\ proc \in [Procs -> Locals] /\ proc[p] \in Locals
      /\ proc[p].profile \in Profiles
  BY DEF TypeOK, Locals
<1> DEFINE f == proc[p].profile
<1>2. CASE \E g \in Profiles, amount \in Requests, timing \in Timings :
              AllocCheck(p, g, amount, timing)
  <2>1. PICK g \in Profiles, amount \in Requests, timing \in Timings :
           AllocCheck(p, g, amount, timing)
    BY <1>2
  <2> DEFINE l == [Idle(g) EXCEPT !.pc = "commit", !.amount = amount,
                                  !.timing = timing]
  <2>2. proc' = [proc EXCEPT ![p] = l] /\ UNCHANGED fills
    BY <2>1 DEF AllocCheck, books
  <2>3. l.profile = g /\ l.next = 1 /\ l.last = 0
    BY DEF Idle
  <2> HIDE DEF l
  <2> QED BY <2>2, <2>3, WindowFresh
<1>3. CASE AllocRefuse(p) \/ AllocCommit(p) \/ FoldRaises(p) \/ RecClear(p)
             \/ Crash(p)
  <2>1. End(p) /\ UNCHANGED fills
    BY <1>3 DEF AllocRefuse, AllocCommit, FoldRaises, RecClear, Crash, books
  <2> QED BY <2>1, WindowEnd
<1>4. CASE \E g \in Profiles : RecState(p, g)
  <2>1. PICK g \in Profiles : RecState(p, g)
    BY <1>4
  <2> DEFINE l == [Idle(g) EXCEPT !.pc = "pending", !.state = state[g],
                                  !.base = state[g].version]
  <2>2. proc' = [proc EXCEPT ![p] = l] /\ UNCHANGED fills
    BY <2>1 DEF RecState, books
  <2>3. l.profile = g /\ l.next = 1 /\ l.last = 0
    BY DEF Idle
  <2> HIDE DEF l
  <2> QED BY <2>2, <2>3, WindowFresh
<1>5. CASE RecPending(p)
  <2>1. UNCHANGED fills /\ applied[f] \in Nat
    BY <1>1, <1>5 DEF RecPending, books, TypeOK
  <2> DEFINE l == [proc[p] EXCEPT !.pc = "fold", !.next = applied[f] + 1,
                                  !.last = Len(fills[f])]
             c == [proc[p] EXCEPT !.pc = "clear"]
  <2>2. CASE proc' = [proc EXCEPT ![p] = l]
    <3>1. l.next = applied[f] + 1 /\ l.last = Len(fills[f]) /\ l.profile = f
      BY <1>1 DEF Locals
    <3>2. Len(fills[f]) \in Nat
      BY <1>1, LenFills
    <3> HIDE DEF l
    <3>3. 1 <= l.next /\ l.last <= Len(fills[l.profile])
      BY <2>1, <3>1, <3>2
    <3> QED BY <2>1, <2>2, <3>3, WindowStep
  <2>3. CASE proc' = [proc EXCEPT ![p] = c]
    <3>1. c.next = proc[p].next /\ c.last = proc[p].last /\ c.profile = f
      BY <1>1 DEF Locals
    <3> HIDE DEF c
    <3> QED BY <2>1, <2>3, <3>1, WindowSame
  <2> QED BY <1>1, <1>5, <2>2, <2>3 DEF RecPending
<1>6. CASE FoldActivate(p) \/ FoldOpen(p) \/ FoldBuy(p) \/ FoldClose(p)
             \/ FoldDone(p)
  <2>1. UNCHANGED fills
    BY <1>6 DEF FoldActivate, FoldOpen, FoldBuy, FoldClose, FoldDone, books
  <2> DEFINE Same(l) == /\ proc' = [proc EXCEPT ![p] = l]
                        /\ l.profile = f /\ l.last = proc[p].last
                        /\ \/ l.next = proc[p].next
                           \/ l.next = proc[p].next + 1
  <2>2. CASE FoldActivate(p)
    <3> DEFINE l == [proc[p] EXCEPT !.pc = "open",
                                    !.state.cash = @ + waiting[f]]
    <3>1. Same(l)
      BY <1>1, <2>2 DEF FoldActivate, Locals
    <3> HIDE DEF l
    <3> QED BY <2>1, <3>1, WindowSame
  <2>3. CASE FoldOpen(p)
    <3> DEFINE l == [proc[p] EXCEPT !.pc = "fold", !.next = @ + 1,
                                    !.state.open = TRUE]
    <3>1. Same(l)
      BY <1>1, <2>3 DEF FoldOpen, Locals
    <3> HIDE DEF l
    <3> QED BY <2>1, <3>1, WindowSame
  <2>4. CASE FoldBuy(p)
    <3> DEFINE l == [proc[p] EXCEPT !.next = @ + 1]
    <3>1. Same(l)
      BY <1>1, <2>4 DEF FoldBuy, Locals
    <3> HIDE DEF l
    <3> QED BY <2>1, <3>1, WindowSame
  <2>5. CASE FoldClose(p)
    <3>1. PICK r, n : proc' = [proc EXCEPT ![p].next = @ + 1, ![p].gain = n,
                                           ![p].state = r]
      BY <2>5 DEF FoldClose
    <3> DEFINE l == [proc[p] EXCEPT !.next = @ + 1, !.gain = n, !.state = r]
    <3>2. Same(l)
      BY <1>1, <3>1 DEF Locals
    <3> HIDE DEF l
    <3> QED BY <2>1, <3>2, WindowSame
  <2>6. CASE FoldDone(p)
    <3> DEFINE l == [proc[p] EXCEPT !.pc = "save"]
    <3>1. Same(l)
      BY <1>1, <2>6 DEF FoldDone, Locals
    <3> HIDE DEF l
    <3> QED BY <2>1, <3>1, WindowSame
  <2> QED BY <1>6, <2>2, <2>3, <2>4, <2>5, <2>6
<1>7. CASE RecSave(p)
  <2>1. UNCHANGED fills
    BY <1>7 DEF RecSave, books
  <2>2. CASE End(p)
    BY <2>1, <2>2, WindowEnd
  <2>3. CASE ~End(p)
    <3>1. PICK r, n : proc' = [proc EXCEPT ![p] = [Idle(f) EXCEPT
             !.pc = "clear", !.state = r, !.base = n]]
      <4>1. PICK r : proc' = [proc EXCEPT ![p] = [Idle(f) EXCEPT
               !.pc = "clear", !.state = r, !.base = r.version]]
        BY <1>7, <2>3, Zenon DEF RecSave
      <4> QED BY <4>1
    <3> DEFINE l == [Idle(f) EXCEPT !.pc = "clear", !.state = r, !.base = n]
    <3>2. l.profile = f /\ l.next = 1 /\ l.last = 0
      BY DEF Idle
    <3> HIDE DEF l
    <3> QED BY <1>1, <2>1, <3>1, <3>2, WindowFresh DEF l
  <2> QED BY <2>2, <2>3
<1> QED BY <1>2, <1>3, <1>4, <1>5, <1>6, <1>7 DEF ProcStep

(* Every step of a process preserves the invariant.                        *)
LEMMA ProcIInv ==
    ASSUME IInv, Window, NEW p \in Procs, ProcStep(p)
    PROVE  IInv'
<1>1. CASE \E f \in Profiles, amount \in Requests, timing \in Timings :
              AllocCheck(p, f, amount, timing)
  BY <1>1, AllocCheckStep
<1>2. CASE AllocRefuse(p) \/ FoldRaises(p) \/ Crash(p)
  <2>1. /\ End(p)
        /\ UNCHANGED <<event, allocated, waiting, profile, state, cycles, fills,
                       applied, booked>>
    BY <1>2 DEF AllocRefuse, FoldRaises, Crash, ledger, books
  <2> QED BY <2>1, EndStep
<1>3. CASE AllocCommit(p)
  BY <1>3, AllocCommitStep
<1>4. CASE \E f \in Profiles : RecState(p, f)
  BY <1>4, RecStateStep
<1>5. CASE RecPending(p)
  BY <1>5, RecPendingStep
<1>6. CASE FoldActivate(p)
  BY <1>6, FoldActivateStep
<1>7. CASE FoldOpen(p)
  BY <1>7, FoldOpenStep
<1>8. CASE FoldBuy(p)
  BY <1>8, FoldBuyStep
<1>9. CASE FoldClose(p)
  <2> DEFINE f == proc[p].profile
  <2>1. /\ proc[p].next \in Nat /\ proc[p].last \in Nat /\ f \in Profiles
        /\ proc[p].next <= proc[p].last /\ 1 <= proc[p].next
        /\ proc[p].last <= Len(fills[f])
    BY <1>9, Self DEF FoldClose, Folding, Window
  <2>2. fills[f] \in Seq(Int) /\ Len(fills[f]) \in Nat
    BY <2>1, LenFills DEF IInv, TypeOK
  <2>3. fills[f][proc[p].next] \in Int
    BY <2>1, <2>2, ElementOfSeq
  <2> QED BY <1>9, <2>3, FoldCloseStep
<1>10. CASE FoldDone(p)
  BY <1>10, FoldDoneStep
<1>11. CASE RecSave(p)
  <2>1. CASE CanSave(p)
    BY <1>11, <2>1, RecSaveStep
  <2>2. CASE ~CanSave(p)
    <3>1. /\ End(p)
          /\ UNCHANGED <<event, allocated, waiting, profile, state, cycles,
                         fills, applied, booked>>
      BY <1>11, <2>2 DEF RecSave, ledger
    <3> QED BY <3>1, EndStep
  <2> QED BY <2>1, <2>2
<1>12. CASE RecClear(p)
  BY <1>12, RecClearStep
<1> QED BY <1>1, <1>2, <1>3, <1>4, <1>5, <1>6, <1>7, <1>8, <1>9, <1>10, <1>11,
           <1>12 DEF ProcStep

(* Both invariants hold at first and over every step.                      *)
LEMMA InitWindow == Init => IInv /\ Window
<1> SUFFICES ASSUME Init PROVE IInv /\ Window
  OBVIOUS
<1>1. IInv
  BY InitIInv
<1>2. \A p \in Procs : /\ proc[p].profile = AnyProfile
                       /\ proc[p].next = 1 /\ proc[p].last = 0
  BY IdleOrAbsent
<1>3. AnyProfile \in Profiles /\ Len(fills[AnyProfile]) \in Nat
  BY <1>1, IdleType, LenFills, CapitalAssumption DEF IInv, AnyProfile
<1> QED BY <1>1, <1>2, <1>3 DEF Window

(* Processes that do not move and fills that only grow keep the window.    *)
LEMMA WindowOutside ==
    ASSUME TypeOK, TypeOK', Window, UNCHANGED proc,
           \A f \in Profiles : Len(fills[f]) <= Len(fills'[f])
    PROVE  Window'
<1> SUFFICES ASSUME NEW p \in Procs
             PROVE  /\ 1 <= proc[p].next
                    /\ proc[p].last <= Len(fills'[proc[p].profile])
  BY DEF Window
<1> DEFINE f == proc[p].profile
<1>1. /\ f \in Profiles /\ proc[p].last \in Nat
      /\ fills[f] \in Seq(Int) /\ fills'[f] \in Seq(Int)
  BY DEF TypeOK, Locals
<1>2. Len(fills[f]) \in Nat /\ Len(fills'[f]) \in Nat
  BY <1>1, LenProperties
<1> QED BY <1>1, <1>2 DEF Window

(* Every step preserves both; in a step of the world around, processes     *)
(* stay as they are and fills only grow.                                   *)
LEMMA NextIInv == IInv /\ Window /\ Next => IInv' /\ Window'
<1> SUFFICES ASSUME IInv, Window, Next PROVE IInv' /\ Window'
  OBVIOUS
<1>1. CASE \E p \in Procs : ProcStep(p)
  BY <1>1, ProcIInv, WindowProc DEF IInv
<1>2. ASSUME IInv', UNCHANGED <<proc, fills>>
      PROVE  Window'
  <2>1. \A f \in Profiles : Len(fills[f]) \in Nat /\ fills' = fills
    BY <1>2, LenFills DEF IInv
  <2> QED BY <1>2, <2>1, WindowOutside DEF IInv
<1>3. ASSUME NEW e \in Events, NEW settled \in BOOLEAN, NEW amount \in Deposits,
             RecordDeposit(e, amount, settled)
      PROVE  IInv' /\ Window'
  <2>1. IInv'
    BY <1>3, RecordDepositStep
  <2> QED BY <1>2, <1>3, <2>1 DEF RecordDeposit, RecordRow, books
<1>4. ASSUME NEW e \in Events, NEW settled \in BOOLEAN,
             NEW amount \in Withdrawals, RecordWithdrawal(e, amount, settled)
      PROVE  IInv' /\ Window'
  <2>1. IInv'
    BY <1>4, RecordWithdrawalStep
  <2> QED BY <1>2, <1>4, <2>1 DEF RecordWithdrawal, RecordRow, books
<1>5. ASSUME NEW f \in Profiles, NEW gain \in Gains, Execute(f, gain)
      PROVE  IInv' /\ Window'
  <2>1. IInv' /\ \A g \in Profiles : Len(fills[g]) <= Len(fills'[g])
    BY <1>5, ExecuteStep
  <2> QED BY <1>5, <2>1, WindowOutside DEF Execute, IInv
<1>6. ASSUME NEW f \in Profiles, OtherWrite(f)
      PROVE  IInv' /\ Window'
  <2>1. IInv'
    BY <1>6, OtherWriteStep
  <2> QED BY <1>2, <1>6, <2>1 DEF OtherWrite, books
<1> QED BY <1>1, <1>3, <1>4, <1>5, <1>6 DEF Next

(* Nothing changes in a stuttering step.                                   *)
LEMMA StutterIInv == IInv /\ Window /\ UNCHANGED vars => IInv' /\ Window'
BY Zenon DEF IInv, Window, vars, ledger, books, TypeOK, NeverOverspent, Positive,
             Free, CreditedAtMostOnce, CopyOK, Holding

(* ---- theorems ---- *)

(* The inductive invariant holds always.                                   *)
LEMMA Invariance == Spec => [](IInv /\ Window)
<1>1. IInv /\ Window /\ [Next]_vars => IInv' /\ Window'
  BY NextIInv, StutterIInv
<1> QED BY InitWindow, <1>1, PTL DEF Spec

(* The tables and the locals of the processes keep their types; above all, *)
(* no sum of allocations and no capital of a profile goes below zero.      *)
THEOREM CapitalTypeCorrect == Spec => []TypeOK
<1>1. IInv => TypeOK
  BY DEF IInv
<1> QED BY Invariance, <1>1, PTL

(* However many processes run apply_allocation at the same time, with      *)
(* whatever amounts, crashes and events in between: what is taken from an  *)
(* event stays within the amount of that event.                            *)
THEOREM NoOverspending == Spec => []NeverOverspent
<1>1. IInv => NeverOverspent
  BY DEF IInv
<1> QED BY Invariance, <1>1, PTL

(* However allocations, reconciliations, other writers and crashes         *)
(* interleave, the cash of a profile never exceeds its capital and booked  *)
(* profits: the optimistic lock keeps money from being credited twice.     *)
THEOREM NoDoubleCredit == Spec => []CreditedAtMostOnce
<1>1. IInv => CreditedAtMostOnce
  BY DEF IInv
<1> QED BY Invariance, <1>1, PTL

(* ---- the money on its way from the events to the profiles ---- *)

(* What a profile got, or waits for.                                       *)
Received(prof, wait) ==
    [f \in Profiles |-> prof[f].capital - InitialCapital + wait[f]]

(* The sums are over the keys of the tables.                               *)
LEMMA SumsOverKeys ==
    ASSUME NEW give \in [Events -> Nat], NEW wait \in [Profiles -> Nat],
           NEW prof \in [Profiles -> [capital : Nat, locked : BOOLEAN]]
    PROVE  /\ SumFunction(give) = SumFunctionOnSet(give, Events)
           /\ SumFunction([f \in Profiles |->
                             prof[f].capital - InitialCapital + wait[f]])
                = SumFunctionOnSet(Received(prof, wait), Profiles)
           /\ \A e \in Events : give[e] \in Int
           /\ \A f \in Profiles : Received(prof, wait)[f] \in Int
<1>1. DOMAIN give = Events /\ DOMAIN Received(prof, wait) = Profiles
  BY DEF Received
<1>2. \A e \in Events : give[e] \in Int
  OBVIOUS
<1>3. \A f \in Profiles : Received(prof, wait)[f] \in Int
  BY CapitalAssumption DEF Received
<1> QED BY <1>1, <1>2, <1>3 DEF SumFunction, Received

(* The property as an equation of sums over sets.                          *)
Accounted(give, prof, wait) ==
    SumFunctionOnSet(give, Events)
      = SumFunctionOnSet(Received(prof, wait), Profiles)

(* The property says so, before and after a step.                          *)
LEMMA AccountedOnSets ==
    /\ TypeOK => (AllocationsAccounted <=> Accounted(allocated, profile, waiting))
    /\ TypeOK' => (AllocationsAccounted'
                     <=> Accounted(allocated', profile', waiting'))
<1>1. ASSUME TypeOK
      PROVE  AllocationsAccounted <=> Accounted(allocated, profile, waiting)
  <2>1. /\ allocated \in [Events -> Nat] /\ waiting \in [Profiles -> Nat]
        /\ profile \in [Profiles -> [capital : Nat, locked : BOOLEAN]]
    BY <1>1 DEF TypeOK
  <2>2. /\ SumFunction(allocated) = SumFunctionOnSet(allocated, Events)
        /\ SumFunction([f \in Profiles |->
                          profile[f].capital - InitialCapital + waiting[f]])
             = SumFunctionOnSet(Received(profile, waiting), Profiles)
    BY <2>1, SumsOverKeys
  <2> QED BY <2>2 DEF AllocationsAccounted, Accounted
<1>2. ASSUME TypeOK'
      PROVE  AllocationsAccounted' <=> Accounted(allocated', profile', waiting')
  <2>1. /\ allocated' \in [Events -> Nat] /\ waiting' \in [Profiles -> Nat]
        /\ profile' \in [Profiles -> [capital : Nat, locked : BOOLEAN]]
    BY <1>2 DEF TypeOK
  <2>2. /\ SumFunction(allocated') = SumFunctionOnSet(allocated', Events)
        /\ SumFunction([f \in Profiles |->
                          profile'[f].capital - InitialCapital + waiting'[f]])
             = SumFunctionOnSet(Received(profile', waiting'), Profiles)
    BY <2>1, SumsOverKeys
  <2> QED BY <2>2 DEF AllocationsAccounted, Accounted
<1> QED BY <1>1, <1>2

(* Nothing was allocated or received at first.                             *)
LEMMA InitAccounted == Init => AllocationsAccounted
<1> SUFFICES ASSUME Init PROVE AllocationsAccounted
  OBVIOUS
<1>1. TypeOK
  BY InitIInv DEF IInv
<1>2. \A e \in Events : allocated[e] = 0
  BY DEF Init
<1>3. \A f \in Profiles : Received(profile, waiting)[f] = 0
  BY CapitalAssumption DEF Init, Received
<1>4. /\ SumFunctionOnSet(allocated, Events) = 0
      /\ SumFunctionOnSet(Received(profile, waiting), Profiles) = 0
  BY <1>2, <1>3, SumZero, CapitalAssumption
<1> QED BY <1>1, <1>4, AccountedOnSets DEF Accounted

(* A step that gives nothing out of the events and leaves every profile    *)
(* with what it received.                                                  *)
LEMMA SameAccounted ==
    ASSUME TypeOK, TypeOK', AllocationsAccounted, UNCHANGED allocated,
           \A f \in Profiles : Received(profile', waiting')[f] = Received(profile, waiting)[f]
    PROVE  AllocationsAccounted'
<1>1. SumFunctionOnSet(Received(profile', waiting'), Profiles)
        = SumFunctionOnSet(Received(profile, waiting), Profiles)
  BY SumAgree, CapitalAssumption
<1> QED BY <1>1, AccountedOnSets DEF Accounted

(* What an allocation takes from the events goes to one profile, as        *)
(* capital or as money that waits.                                         *)
LEMMA CommitAccounted ==
    ASSUME IInv, IInv', AllocationsAccounted, NEW p \in Procs, AllocCommit(p)
    PROVE  AllocationsAccounted'
<1> DEFINE f == proc[p].profile
           amount == proc[p].amount
<1>1. f \in Profiles /\ amount \in Nat /\ TypeOK /\ TypeOK'
  BY DEF IInv, TypeOK, Locals
<1>2. PICK take \in Split(amount) :
        allocated' = [e \in Events |-> allocated[e] + take[e]]
  BY DEF AllocCommit
<1>3. /\ take \in [Events -> 0..amount]
      /\ SumFunctionOnSet(take, Events) = amount
  BY <1>2 DEF Split, SumFunction
<1>4. SumFunctionOnSet(allocated', Events)
        = SumFunctionOnSet(allocated, Events) + amount
  <2>1. \A e \in Events : /\ allocated[e] \in Int /\ take[e] \in Int
                          /\ allocated'[e] = allocated[e] + take[e]
    BY <1>1, <1>2, <1>3 DEF TypeOK
  <2> HIDE DEF amount
  <2>2. SumFunctionOnSet(allocated', Events)
          = SumFunctionOnSet(allocated, Events) + SumFunctionOnSet(take, Events)
    BY <2>1, SumPlus, CapitalAssumption
  <2> QED BY <1>3, <2>2
<1>5. /\ Received(profile', waiting')[f] = Received(profile, waiting)[f] + amount
      /\ \A g \in Profiles \ {f} : Received(profile', waiting')[g] = Received(profile, waiting)[g]
  <2>1. /\ profile \in [Profiles -> [capital : Nat, locked : BOOLEAN]]
        /\ waiting \in [Profiles -> Nat] /\ InitialCapital \in Nat
    BY <1>1, CapitalAssumption DEF TypeOK
  <2>2. CASE CreditCurrent(f, amount)
    <3>1. /\ waiting' = waiting
          /\ profile' = [profile EXCEPT ![f].capital = @ + amount]
      BY <2>2 DEF CreditCurrent
    <3>2. /\ profile'[f].capital = profile[f].capital + amount
          /\ \A g \in Profiles \ {f} : profile'[g] = profile[g]
      BY <1>1, <2>1, <3>1
    <3> HIDE DEF f, amount
    <3> QED BY <1>1, <2>1, <3>1, <3>2 DEF Received
  <2>3. CASE CreditNext(f, amount)
    <3>1. /\ waiting' = [waiting EXCEPT ![f] = @ + amount]
          /\ profile' = profile
      BY <2>3 DEF CreditNext
    <3> HIDE DEF f, amount
    <3> QED BY <1>1, <2>1, <3>1 DEF Received
  <2> QED BY <2>2, <2>3 DEF AllocCommit
<1>6. SumFunctionOnSet(Received(profile', waiting'), Profiles)
        = SumFunctionOnSet(Received(profile, waiting), Profiles) + amount
  <2>1. \A g \in Profiles : Received(profile, waiting)[g] \in Int /\ Received(profile', waiting')[g] \in Int
    BY <1>1, SumsOverKeys DEF TypeOK
  <2> DEFINE old == Received(profile, waiting)
             new == Received(profile', waiting')
  <2>2. new[f] = old[f] + amount /\ \A g \in Profiles \ {f} : old[g] = new[g]
    BY <1>5
  <2> HIDE DEF f, amount, old, new
  <2>3. \A g \in Profiles : old[g] \in Int /\ new[g] \in Int
    BY <2>1 DEF old, new
  <2>4. SumFunctionOnSet(new, Profiles)
          = SumFunctionOnSet(old, Profiles) + (new[f] - old[f])
    <3>1. f \in Profiles /\ IsFiniteSet(Profiles)
      BY <1>1, CapitalAssumption
    <3>2. \A g \in Profiles \ {f} : old[g] = new[g]
      BY <2>2
    <3> QED BY ONLY <2>3, <3>1, <3>2, SumChange
  <2>5. new[f] - old[f] = amount
    BY <1>1, <2>2, <2>3
  <2> QED BY <2>4, <2>5 DEF old, new
<1> QED BY <1>1, <1>4, <1>6, AccountedOnSets DEF Accounted

(* Activated money was waiting before and is capital after.                *)
LEMMA ActivateAccounted ==
    ASSUME IInv, IInv', AllocationsAccounted, NEW p \in Procs, FoldActivate(p)
    PROVE  AllocationsAccounted'
<1> DEFINE f == proc[p].profile
<1>1. f \in Profiles /\ TypeOK /\ TypeOK'
  BY DEF IInv, TypeOK, Locals
<1>2. /\ profile \in [Profiles -> [capital : Nat, locked : BOOLEAN]]
      /\ waiting \in [Profiles -> Nat] /\ InitialCapital \in Nat
  BY <1>1, CapitalAssumption DEF TypeOK
<1>3. /\ waiting' = [waiting EXCEPT ![f] = 0] /\ allocated' = allocated
      /\ profile' = [profile EXCEPT ![f].capital = @ + waiting[f]]
  BY DEF FoldActivate
<1> HIDE DEF f
<1>4. /\ profile'[f].capital = profile[f].capital + waiting[f]
      /\ \A g \in Profiles \ {f} : profile'[g] = profile[g]
  BY <1>1, <1>2, <1>3
<1>5. \A g \in Profiles : Received(profile', waiting')[g] = Received(profile, waiting)[g]
  BY <1>1, <1>2, <1>3, <1>4 DEF Received
<1> QED BY <1>1, <1>3, <1>5, SameAccounted

(* No other step moves money that came from an event.                      *)
LEMMA NextAccounted ==
    IInv /\ IInv' /\ AllocationsAccounted /\ [Next]_vars => AllocationsAccounted'
<1> SUFFICES ASSUME IInv, IInv', AllocationsAccounted, [Next]_vars
             PROVE  AllocationsAccounted'
  OBVIOUS
<1>1. ASSUME UNCHANGED <<allocated, waiting>>,
             \A f \in Profiles : profile'[f].capital = profile[f].capital
      PROVE  AllocationsAccounted'
  BY <1>1, SameAccounted DEF IInv, Received
<1>2. ASSUME NEW p \in Procs, ProcStep(p)
      PROVE  AllocationsAccounted'
  <2>1. CASE AllocCommit(p)
    BY <2>1, CommitAccounted
  <2>2. CASE FoldActivate(p)
    BY <2>2, ActivateAccounted
  <2>3. CASE ~AllocCommit(p) /\ ~FoldActivate(p)
    <3>1. UNCHANGED <<allocated, waiting, profile>>
      BY <1>2, <2>3
         DEF ProcStep, AllocCheck, AllocRefuse, RecState, RecPending, FoldOpen,
             FoldBuy, FoldClose, FoldDone, FoldRaises, RecSave, RecClear, Crash,
             ledger, books
    <3> QED BY <1>1, <3>1
  <2> QED BY <2>1, <2>2, <2>3
<1>3. ASSUME NEW e \in Events, NEW settled \in BOOLEAN,
             NEW amount \in Withdrawals, RecordWithdrawal(e, amount, settled)
      PROVE  AllocationsAccounted'
  <2>1. /\ UNCHANGED <<allocated, waiting>>
        /\ profile' = [f \in Profiles |-> [profile[f] EXCEPT !.locked = TRUE]]
        /\ profile \in [Profiles -> [capital : Nat, locked : BOOLEAN]]
    BY <1>3 DEF RecordWithdrawal, RecordRow, IInv, TypeOK
  <2>2. \A f \in Profiles : profile'[f].capital = profile[f].capital
    BY <2>1
  <2> QED BY <1>1, <2>1, <2>2
<1>4. ASSUME UNCHANGED <<allocated, waiting, profile>>
      PROVE  AllocationsAccounted'
  BY <1>1, <1>4
<1> QED BY <1>2, <1>3, <1>4
        DEF Next, vars, RecordDeposit, RecordRow, Execute, OtherWrite, ledger, books

(* However allocations, crashes and reconciliations interleave, no         *)
(* allocated dollar is lost or doubled on its way from the events to the   *)
(* capital of the profiles.                                                *)
THEOREM NoDollarLost == Spec => []AllocationsAccounted
<1>1. Init => AllocationsAccounted
  BY InitAccounted
<1>2. IInv /\ IInv' /\ AllocationsAccounted /\ [Next]_vars => AllocationsAccounted'
  BY NextAccounted
<1>3. IInv /\ Window => IInv
  OBVIOUS
<1> QED BY <1>1, <1>2, <1>3, Invariance, PTL DEF Spec

(* ---- one process that nobody interrupts ---- *)

(* A process that has fills folded into its copy, and not stored it yet.   *)
Working(l, f) == l.pc \in {"fold", "open", "save"} /\ l.profile = f

(* A copy of the state row after k fills: cash is what the profile is      *)
(* worth, odd fills open a cycle and even ones close it.                   *)
Balanced(k, row, worth, rows, done) ==
    /\ k \in Nat /\ k <= Len(done)
    /\ row.cash = worth
    /\ row.open <=> k % 2 = 1
    /\ row.cycle = k \div 2 + 1
    /\ Len(rows) = (k + 1) \div 2
    /\ \A n \in DOMAIN rows :
          /\ rows[n].closed => n <= k \div 2
          /\ n <= k \div 2 => rows[n].realized = done[2 * n] + rows[n].added
          /\ n > k \div 2 => rows[n].starting + rows[n].added = row.cash

(* Capital of a profile with all profits its fills have booked.            *)
Worth(f) == profile[f].capital + booked[f]

(* The copy and the cycle rows agree while fills are folded, the stored    *)
(* row and the cycle rows at any other time.                               *)
InBalance(l, f) ==
    IF Working(l, f)
    THEN Balanced(l.next - 1, l.state, Worth(f) + l.gain, cycles[f], fills[f])
    ELSE Balanced(applied[f], state[f], Worth(f), cycles[f], fills[f])

(* Nobody else has written the row.                                        *)
Steady(l) ==
    /\ l.pc \in Holding => l.base = state[l.profile].version
    /\ l.pc \in {"pending", "clear"} => l.state = state[l.profile]
    /\ l.pc = "open" => l.next % 2 = 1 /\ l.next <= l.last
    /\ l.pc = "fold" => l.next <= l.last + 1
    /\ l.pc = "save" => l.next = l.last + 1

(* The second invariant, of a lone process.                                *)
Orderly(l) == Steady(l) /\ \A f \in Profiles : InBalance(l, f)

(* It is claimed only while no second process has joined.                  *)
SoleInv == Alone => \A p \in Team : Orderly(proc[p])

(* Fills come in pairs.                                                    *)
LEMMA Halves ==
    ASSUME NEW k \in Nat
    PROVE  /\ k \div 2 \in Nat /\ (k + 1) \div 2 \in Nat
           /\ k % 2 = 0 => /\ (k + 1) \div 2 = k \div 2
                           /\ (k + 1) % 2 = 1
                           /\ (k + 2) \div 2 = k \div 2 + 1
           /\ k % 2 = 1 => /\ (k + 1) \div 2 = k \div 2 + 1
                           /\ (k + 1) % 2 = 0
                           /\ (k + 2) \div 2 = k \div 2 + 1
                           /\ 2 * (k \div 2 + 1) = k + 1
           /\ k % 2 \in {0, 1}
OBVIOUS

(* Nobody is added to the processes that share the database.               *)
LEMMA TeamFixed ==
    ASSUME TypeOK, [Next]_vars
    PROVE  Team' = Team
<1> SUFFICES \A q \in Procs : At(q, "absent")' <=> At(q, "absent")
  BY DEF Team
<1>1. CASE UNCHANGED proc
  BY <1>1 DEF At
<1>2. ASSUME NEW p \in Procs, ProcStep(p)
      PROVE  \A q \in Procs : At(q, "absent")' <=> At(q, "absent")
  <2>1. proc \in [Procs -> Locals] /\ ~At(p, "absent")
    BY <1>2 DEF TypeOK, ProcStep, AllocCheck, AllocRefuse, AllocCommit, RecState,
                RecPending, FoldActivate, FoldOpen, FoldBuy, FoldClose, FoldDone,
                FoldRaises, RecSave, RecClear, Crash, Folding, At
  <2>2. ASSUME NEW l, proc' = [proc EXCEPT ![p] = l], l.pc # "absent"
        PROVE  \A q \in Procs : At(q, "absent")' <=> At(q, "absent")
    <3>1. \A q \in Procs : proc'[q] = IF q = p THEN l ELSE proc[q]
      BY <2>1, <2>2
    <3> QED BY <2>1, <2>2, <3>1 DEF At
  <2>3. ASSUME End(p)
        PROVE  \A q \in Procs : At(q, "absent")' <=> At(q, "absent")
    <3> DEFINE l == Idle(AnyProfile)
    <3>1. l.pc # "absent"
      BY DEF Idle
    <3> HIDE DEF l
    <3> QED BY <2>2, <2>3, <3>1 DEF End, l
  <2>4. proc[p] \in Locals
    BY <2>1
  <2>5. CASE \E f \in Profiles, amount \in Requests, timing \in Timings :
               AllocCheck(p, f, amount, timing)
    <3>1. PICK f \in Profiles, amount \in Requests, timing \in Timings :
             AllocCheck(p, f, amount, timing)
      BY <2>5
    <3> DEFINE l == [Idle(f) EXCEPT !.pc = "commit", !.amount = amount,
                                    !.timing = timing]
    <3>2. proc' = [proc EXCEPT ![p] = l] /\ l.pc # "absent"
      BY <3>1 DEF AllocCheck, Idle
    <3> HIDE DEF l
    <3> QED BY <2>2, <3>2
  <2>6. CASE AllocRefuse(p) \/ AllocCommit(p) \/ FoldRaises(p) \/ RecClear(p)
               \/ Crash(p)
    BY <2>3, <2>6 DEF AllocRefuse, AllocCommit, FoldRaises, RecClear, Crash
  <2>7. CASE \E f \in Profiles : RecState(p, f)
    <3>1. PICK f \in Profiles : RecState(p, f)
      BY <2>7
    <3> DEFINE l == [Idle(f) EXCEPT !.pc = "pending", !.state = state[f],
                                    !.base = state[f].version]
    <3>2. proc' = [proc EXCEPT ![p] = l] /\ l.pc # "absent"
      BY <3>1 DEF RecState, Idle
    <3> HIDE DEF l
    <3> QED BY <2>2, <3>2
  <2>8. CASE RecPending(p) \/ FoldActivate(p) \/ FoldOpen(p) \/ FoldBuy(p)
               \/ FoldClose(p) \/ FoldDone(p)
    <3> DEFINE Here == \A q \in Procs : /\ q # p => proc'[q] = proc[q]
                                        /\ q = p => proc'[q].pc # "absent"
    <3>1. ASSUME RecPending(p) PROVE Here
      BY <2>1, <2>4, <3>1 DEF RecPending, Locals
    <3>2. ASSUME FoldActivate(p) PROVE Here
      BY <2>1, <2>4, <3>2 DEF FoldActivate, Locals
    <3>3. ASSUME FoldOpen(p) PROVE Here
      BY <2>1, <2>4, <3>3 DEF FoldOpen, Locals
    <3>4. ASSUME FoldBuy(p) PROVE Here
      BY <2>1, <2>4, <3>4 DEF FoldBuy, Folding, At, Locals
    <3>5. ASSUME FoldClose(p) PROVE Here
      BY <2>1, <2>4, <3>5 DEF FoldClose, Folding, At, Locals
    <3>6. ASSUME FoldDone(p) PROVE Here
      BY <2>1, <2>4, <3>6 DEF FoldDone, Locals
    <3>7. Here
      BY <2>8, <3>1, <3>2, <3>3, <3>4, <3>5, <3>6
    <3> QED BY <2>1, <3>7 DEF At
  <2>9. CASE RecSave(p)
    <3>1. CASE End(p)
      BY <2>3, <3>1
    <3>2. CASE ~End(p)
      <4> DEFINE r == [proc[p].state EXCEPT !.version = proc[p].base + 1]
                 l == [Idle(proc[p].profile) EXCEPT
                         !.pc = "clear", !.state = r, !.base = r.version]
      <4>1. proc' = [proc EXCEPT ![p] = l]
        BY <2>9, <3>2 DEF RecSave
      <4>2. l.pc # "absent"
        BY DEF Idle
      <4> HIDE DEF l
      <4> QED BY <2>2, <4>1, <4>2
    <3> QED BY <3>1, <3>2
  <2> QED BY <1>2, <2>5, <2>6, <2>7, <2>8, <2>9 DEF ProcStep
<1> QED BY <1>1, <1>2
        DEF Next, vars, RecordDeposit, RecordWithdrawal, RecordRow, Execute,
            OtherWrite, books

(* A single process is everybody.                                          *)
LEMMA OneMember ==
    ASSUME Alone
    PROVE  \E p \in Procs : Team = {p}
<1>1. Team \subseteq Procs /\ IsFiniteSet(Procs)
  BY CapitalAssumption DEF Team
<1>2. IsFiniteSet(Team) /\ Cardinality(Team) = 1
  BY <1>1, FS_Subset DEF Alone
<1>3. PICK p : Team = {p}
  BY <1>2, FS_Singleton
<1> QED BY <1>1, <1>3

(* The buy of the first share opens a cycle with all the cash.             *)
LEMMA BalancedOpen ==
    ASSUME NEW k \in Nat, NEW row, NEW rows \in Seq(CycleRow), NEW done,
           NEW worth \in Int, Len(done) \in Nat,
           Balanced(k, row, worth, rows, done), k % 2 = 0, k + 1 <= Len(done),
           NEW next, next.cash = worth, next.open = TRUE, next.cycle = row.cycle,
           NEW new, new.starting = row.cash, new.added = 0, new.closed = FALSE
    PROVE  /\ row.cycle \notin DOMAIN rows
           /\ Balanced(k + 1, next, worth, Append(rows, new), done)
<1> DEFINE h == k \div 2
           more == Append(rows, new)
<1>1. /\ h \in Nat /\ (k + 1) \div 2 = h /\ (k + 1) % 2 = 1
      /\ (k + 2) \div 2 = h + 1 /\ (k + 1) + 1 = k + 2
  BY Halves
<1>2. Len(rows) = h /\ row.cycle = h + 1 /\ row.cash = worth
  BY <1>1 DEF Balanced
<1>3. DOMAIN rows = 1..h
  BY <1>2, LenProperties
<1>4. /\ Len(more) = h + 1 /\ DOMAIN more = 1..(h + 1)
      /\ \A n \in 1..h : more[n] = rows[n]
      /\ more[h + 1] = new
  <2>1. new \in {new} /\ rows \in Seq(CycleRow \cup {new})
    <3>1. rows \in [1..Len(rows) -> CycleRow] /\ Len(rows) \in Nat
      BY LenProperties
    <3>2. rows \in [1..Len(rows) -> CycleRow \cup {new}]
      BY <3>1
    <3> QED BY <3>1, <3>2, SeqDef
  <2>2. new \in CycleRow \cup {new}
    OBVIOUS
  <2>3. /\ more \in Seq(CycleRow \cup {new})
        /\ Len(more) = Len(rows) + 1
        /\ \A n \in 1..Len(rows) : more[n] = rows[n]
        /\ more[Len(rows) + 1] = new
    BY <2>1, <2>2, AppendProperties
  <2>4. DOMAIN more = 1..Len(more)
    BY <2>3, LenProperties
  <2> QED BY <1>1, <1>2, <2>3, <2>4
<1> HIDE DEF h, more
<1>5. ASSUME NEW n \in 1..h
      PROVE  more[n].realized = done[2 * n] + more[n].added /\ n <= h
  <2>1. n \in DOMAIN rows /\ n <= h /\ more[n] = rows[n]
    BY <1>1, <1>3, <1>4
  <2> QED BY <2>1 DEF Balanced, h
<1>6. ASSUME NEW n \in DOMAIN more
      PROVE  /\ more[n].closed => n <= (k + 1) \div 2
             /\ n <= (k + 1) \div 2 => more[n].realized = done[2 * n] + more[n].added
             /\ n > (k + 1) \div 2 => more[n].starting + more[n].added = next.cash
  <2>1. CASE n \in 1..h
    BY <1>1, <1>5, <2>1
  <2>2. CASE n = h + 1
    BY <1>1, <1>2, <1>4, <2>2
  <2> QED BY <1>1, <1>4, <2>1, <2>2
<1>7. row.cycle \notin DOMAIN rows
  BY <1>1, <1>2, <1>3
<1>8. k + 1 \in Nat /\ (next.open <=> (k + 1) % 2 = 1)
  <2>1. k + 1 \in Nat /\ next.open = TRUE
    OBVIOUS
  <2> QED BY <1>1, <2>1
<1>9. next.cycle = (k + 1) \div 2 + 1 /\ Len(more) = ((k + 1) + 1) \div 2
  BY <1>1, <1>2, <1>4
<1>10. Balanced(k + 1, next, worth, more, done)
  BY <1>6, <1>8, <1>9 DEF Balanced
<1> QED BY <1>7, <1>10 DEF more

(* The rows of the cycles after one of them was closed with some cash.     *)
Closed(new, rows, cycle, cash) ==
    /\ DOMAIN new = DOMAIN rows /\ Len(new) = Len(rows)
    /\ \A n \in DOMAIN rows :
          /\ new[n].added = rows[n].added
          /\ n # cycle => new[n] = rows[n]
          /\ n = cycle => new[n].realized = cash - rows[n].starting

(* The sell-out closes the cycle with what it earned.                      *)
LEMMA BalancedClose ==
    ASSUME NEW k \in Nat, NEW row, NEW rows \in Seq(CycleRow), NEW done,
           NEW worth \in Int, NEW gain \in Int, Len(done) \in Nat,
           Balanced(k, row, worth, rows, done), k % 2 = 1, k + 1 <= Len(done),
           done[k + 1] = gain,
           NEW next, next.cash = worth + gain, next.open = FALSE,
           next.cycle = row.cycle + 1, NEW new,
           Closed(new, rows, row.cycle, worth + gain)
    PROVE  Balanced(k + 1, next, worth + gain, new, done)
<1> DEFINE h == k \div 2
<1>1. /\ h \in Nat /\ (k + 1) \div 2 = h + 1 /\ (k + 1) % 2 = 0
      /\ (k + 2) \div 2 = h + 1 /\ 2 * (h + 1) = k + 1
  BY Halves
<1>2. /\ Len(rows) = h + 1 /\ row.cycle = h + 1 /\ row.cash = worth
      /\ \A n \in DOMAIN rows :
          /\ n <= h => rows[n].realized = done[2 * n] + rows[n].added
          /\ n > h => rows[n].starting + rows[n].added = worth
  BY <1>1 DEF Balanced
<1>3. DOMAIN rows = 1..(h + 1) /\ \A n \in DOMAIN rows : rows[n] \in CycleRow
  BY <1>2, LenProperties
<1>7. /\ DOMAIN new = DOMAIN rows /\ Len(new) = Len(rows)
      /\ \A n \in DOMAIN rows :
            /\ new[n].added = rows[n].added
            /\ n # row.cycle => new[n] = rows[n]
            /\ n = row.cycle => new[n].realized = (worth + gain) - rows[n].starting
  BY DEF Closed
<1> HIDE DEF h
<1>4. ASSUME NEW n \in 1..(h + 1)
      PROVE  new[n].realized = done[2 * n] + new[n].added
  <2>1. rows[n] \in CycleRow
    BY <1>3
  <2>2. CASE n = h + 1
    <3>1. new[n].realized = (worth + gain) - rows[n].starting
      BY <1>2, <1>3, <1>7, <2>2
    <3>2. /\ rows[n].starting \in Int /\ rows[n].added \in Int
          /\ rows[n].starting + rows[n].added = worth
      <4>1. n > h
        BY <1>1, <2>2
      <4> QED BY <1>2, <1>3, <2>1, <4>1 DEF CycleRow
    <3>3. done[2 * n] = gain /\ new[n].added = rows[n].added
      BY <1>1, <1>3, <1>7, <2>2
    <3>4. \A x, y \in Int : x + y = worth => (worth + gain) - x = gain + y
      OBVIOUS
    <3>5. (worth + gain) - rows[n].starting = gain + rows[n].added
      BY <3>2, <3>4
    <3> QED BY <3>1, <3>3, <3>5
  <2>3. CASE n # h + 1
    <3>1. n <= h
      <4>1. h \in Nat
        BY <1>1
      <4> QED BY ONLY <2>3, <4>1, n \in 1..(h + 1)
    <3>2. new[n] = rows[n] /\ n \in DOMAIN rows
      BY <1>2, <1>3, <1>7, <2>3
    <3> QED BY <1>2, <3>1, <3>2
  <2> QED BY <2>2, <2>3
<1>5. /\ k + 1 \in Nat /\ (next.open <=> (k + 1) % 2 = 1)
      /\ next.cycle = (k + 1) \div 2 + 1 /\ Len(new) = ((k + 1) + 1) \div 2
  BY <1>1, <1>2, <1>7
<1>6. ASSUME NEW n \in DOMAIN new
      PROVE  /\ new[n].closed => n <= (k + 1) \div 2
             /\ n <= (k + 1) \div 2 => new[n].realized = done[2 * n] + new[n].added
             /\ n > (k + 1) \div 2 => new[n].starting + new[n].added = next.cash
  <2>1. (k + 1) \div 2 = h + 1 /\ n \in 1..(h + 1)
    BY <1>1, <1>3, <1>7
  <2>2. h + 1 \in Nat /\ n \in Int /\ n <= h + 1 /\ ~(n > h + 1)
    BY <1>1, <2>1
  <2>3. new[n].realized = done[2 * n] + new[n].added
    BY <1>4, <2>1
  <2> QED BY <2>1, <2>2, <2>3
<1> QED BY <1>5, <1>6 DEF Balanced

(* Money added to the running cycle is in its cash and in its row.         *)
LEMMA BalancedCredit ==
    ASSUME NEW k \in Nat, NEW row, NEW rows \in Seq(CycleRow), NEW done,
           NEW worth \in Int, NEW amount \in Int,
           Balanced(k, row, worth, rows, done),
           NEW next, next.cash = worth + amount, next.open = row.open,
           next.cycle = row.cycle, NEW new,
           DOMAIN new = DOMAIN rows, Len(new) = Len(rows),
           \A n \in DOMAIN rows :
              /\ n # row.cycle => new[n] = rows[n]
              /\ n = row.cycle => /\ new[n].added = rows[n].added + amount
                                  /\ new[n].closed = rows[n].closed
                                  /\ new[n].starting = rows[n].starting
    PROVE  Balanced(k, next, worth + amount, new, done)
<1> DEFINE h == k \div 2
<1>1. /\ h \in Nat /\ (k + 1) \div 2 \in {h, h + 1}
  BY Halves
<1>2. /\ row.cycle = h + 1 /\ row.cash = worth
      /\ \A n \in DOMAIN rows :
          /\ rows[n].closed => n <= h
          /\ n <= h => rows[n].realized = done[2 * n] + rows[n].added
          /\ n > h => rows[n].starting + rows[n].added = worth
  BY DEF Balanced
<1>3. DOMAIN rows \subseteq 1..(h + 1) /\ \A n \in DOMAIN rows : rows[n] \in CycleRow
  <2>1. Len(rows) = (k + 1) \div 2
    BY DEF Balanced
  <2> QED BY <1>1, <2>1, LenProperties
<1> HIDE DEF h
<1>4. ASSUME NEW n \in DOMAIN new
      PROVE  /\ new[n].closed => n <= h
             /\ n <= h => new[n].realized = done[2 * n] + new[n].added
             /\ n > h => new[n].starting + new[n].added = next.cash
  <2>1. rows[n] \in CycleRow /\ n \in 1..(h + 1) /\ n \in DOMAIN rows
    BY <1>3
  <2>2. CASE n = h + 1
    <3>1. /\ rows[n].starting \in Int /\ rows[n].added \in Int
          /\ rows[n].starting + rows[n].added = worth /\ ~rows[n].closed
      <4>1. n > h /\ ~(n <= h)
        BY <1>1, <2>2
      <4> QED BY <1>2, <2>1, <4>1 DEF CycleRow
    <3>2. /\ new[n].added = rows[n].added + amount
          /\ new[n].closed = rows[n].closed
          /\ new[n].starting = rows[n].starting
      BY <1>2, <2>1, <2>2
    <3>3. n > h /\ ~(n <= h)
      BY <1>1, <2>2
    <3>4. \A x, y \in Int : x + y = worth => x + (y + amount) = worth + amount
      OBVIOUS
    <3>5. new[n].starting + new[n].added = worth + amount
      <4>1. rows[n].starting + (rows[n].added + amount) = worth + amount
        BY <3>1, <3>4
      <4> QED BY <3>2, <4>1
    <3> QED BY <3>1, <3>2, <3>3, <3>5
  <2>3. CASE n # h + 1
    <3>1. n <= h /\ new[n] = rows[n]
      BY <1>1, <1>2, <2>1, <2>3
    <3> QED BY <1>1, <1>2, <2>1, <3>1
  <2> QED BY <2>2, <2>3
<1> QED BY <1>4 DEF Balanced, h

(* Money taken up between two cycles is in the cash only.                  *)
LEMMA BalancedActivate ==
    ASSUME NEW k \in Nat, NEW row, NEW rows \in Seq(CycleRow), NEW done,
           NEW worth \in Int, NEW amount \in Int,
           Balanced(k, row, worth, rows, done), k % 2 = 0,
           NEW next, next.cash = worth + amount, next.open = row.open,
           next.cycle = row.cycle
    PROVE  Balanced(k, next, worth + amount, rows, done)
<1>1. (k + 1) \div 2 = k \div 2 /\ k \div 2 \in Nat
  BY Halves
<1>2. DOMAIN rows = 1..(k \div 2)
  <2>1. Len(rows) = k \div 2
    BY <1>1 DEF Balanced
  <2> QED BY <2>1, LenProperties
<1>3. \A n \in DOMAIN rows : ~(n > k \div 2)
  BY <1>1, <1>2
<1> QED BY <1>3 DEF Balanced

(* Later fills do not touch the books of the earlier ones.                 *)
LEMMA BalancedMore ==
    ASSUME NEW k \in Nat, NEW row, NEW rows \in Seq(CycleRow), NEW done,
           NEW worth, Len(done) \in Nat, Balanced(k, row, worth, rows, done),
           NEW more, Len(more) \in Nat, Len(done) <= Len(more),
           \A n \in 1..Len(done) : more[n] = done[n]
    PROVE  Balanced(k, row, worth, rows, more)
<1>1. k <= Len(more)
  <2>1. k <= Len(done)
    BY DEF Balanced
  <2> QED BY <2>1
<1>2. ASSUME NEW n \in DOMAIN rows, n <= k \div 2
      PROVE  more[2 * n] = done[2 * n]
  <2>1. n \in Nat /\ 1 <= n /\ k \div 2 \in Nat /\ 2 * (k \div 2) <= k
    BY LenProperties
  <2>2. k <= Len(done)
    BY DEF Balanced
  <2>3. 2 * n \in 1..Len(done)
    BY <1>2, <2>1, <2>2
  <2> QED BY <2>3
<1> QED BY <1>1, <1>2 DEF Balanced

(* Only cash, position and cycle of a row count.                           *)
LEMMA BalancedRow ==
    ASSUME NEW k, NEW row, NEW rows, NEW done, NEW worth,
           Balanced(k, row, worth, rows, done),
           NEW next, next.cash = row.cash, next.open = row.open,
           next.cycle = row.cycle
    PROVE  Balanced(k, next, worth, rows, done)
BY DEF Balanced

(* The tables as one process finds them.                                   *)
LEMMA TablesOf ==
    ASSUME TypeOK, NEW f \in Profiles
    PROVE  /\ applied[f] \in Nat /\ state[f] \in StateRow
           /\ state[f].cash \in Int /\ state[f].version \in Nat
           /\ cycles[f] \in Seq(CycleRow) /\ fills[f] \in Seq(Int)
           /\ Len(fills[f]) \in Nat /\ Worth(f) \in Int
           /\ waiting[f] \in Nat /\ profile[f].capital \in Nat
           /\ booked[f] \in Int
<1>1. /\ fills[f] \in Seq(Int) /\ profile[f].capital \in Nat /\ booked[f] \in Int
  BY DEF TypeOK
<1> QED BY <1>1, LenProperties DEF TypeOK, StateRow, Worth

(* The books of a profile on which no process works, before or after.      *)
LEMMA OtherBooks ==
    ASSUME NEW p, NEW f, InBalance(proc[p], f), ~Working(proc[p], f),
           ~Working(proc'[p], f), Worth(f)' = Worth(f),
           cycles'[f] = cycles[f], fills'[f] = fills[f], applied'[f] = applied[f],
           state'[f].cash = state[f].cash, state'[f].open = state[f].open,
           state'[f].cycle = state[f].cycle
    PROVE  InBalance(proc[p], f)'
<1>1. Balanced(applied[f], state[f], Worth(f), cycles[f], fills[f])
  BY DEF InBalance
<1>2. Balanced(applied[f], state'[f], Worth(f), cycles[f], fills[f])
  BY <1>1, BalancedRow
<1>3. ~Working(proc[p], f)'
  BY DEF Working
<1>4. Balanced(applied'[f], state'[f], Worth(f)', cycles'[f], fills'[f])
  BY <1>2
<1> QED BY <1>3, <1>4 DEF InBalance

(* A process that begins or ends and leaves the books alone.               *)
LEMMA QuietOrderly ==
    ASSUME NEW p, Orderly(proc[p]),
           proc[p].pc \notin {"fold", "open", "save"},
           proc'[p].pc \in {"idle", "commit", "pending", "clear"},
           proc'[p].pc \in {"pending", "clear"} =>
              /\ proc'[p].state = state[proc'[p].profile]
              /\ proc'[p].base = state[proc'[p].profile].version,
           UNCHANGED <<profile, booked, cycles, fills, applied, state>>
    PROVE  Orderly(proc[p])'
<1>1. Steady(proc[p])'
  BY DEF Steady, Holding
<1>2. ASSUME NEW f \in Profiles PROVE InBalance(proc[p], f)'
  <2>1. InBalance(proc[p], f) /\ ~Working(proc[p], f) /\ ~Working(proc'[p], f)
    BY DEF Orderly, Working
  <2>2. Worth(f)' = Worth(f)
    BY DEF Worth
  <2> QED BY <2>1, <2>2, OtherBooks
<1> QED BY <1>1, <1>2 DEF Orderly

(* The command that ends.                                                  *)
LEMMA EndOrderly ==
    ASSUME TypeOK, NEW p \in Procs, End(p)
    PROVE  proc'[p].pc = "idle"
<1>1. proc' = [proc EXCEPT ![p] = Idle(AnyProfile)] /\ proc \in [Procs -> Locals]
  BY DEF End, TypeOK
<1>2. Idle(AnyProfile).pc = "idle"
  BY DEF Idle
<1> QED BY <1>1, <1>2

(* First steps of the two commands.                                        *)
LEMMA BeginOrderly ==
    ASSUME TypeOK, NEW p \in Procs, Orderly(proc[p]), NEW f \in Profiles,
           \/ \E amount \in Requests, timing \in Timings :
                 AllocCheck(p, f, amount, timing)
           \/ RecState(p, f)
    PROVE  Orderly(proc[p])'
<1>1. proc \in [Procs -> Locals]
  BY DEF TypeOK
<1>2. CASE \E amount \in Requests, timing \in Timings :
              AllocCheck(p, f, amount, timing)
  <2>1. PICK amount \in Requests, timing \in Timings :
           AllocCheck(p, f, amount, timing)
    BY <1>2
  <2> DEFINE l == [Idle(f) EXCEPT !.pc = "commit", !.amount = amount,
                                  !.timing = timing]
  <2>2. /\ proc' = [proc EXCEPT ![p] = l] /\ l.pc = "commit"
        /\ proc[p].pc = "idle"
        /\ UNCHANGED <<profile, booked, cycles, fills, applied, state>>
    BY <2>1 DEF AllocCheck, Idle, At, books
  <2> HIDE DEF l
  <2>3. proc'[p].pc = "commit"
    BY <1>1, <2>2
  <2> QED BY <2>2, <2>3, QuietOrderly
<1>3. CASE RecState(p, f)
  <2> DEFINE l == [Idle(f) EXCEPT !.pc = "pending", !.state = state[f],
                                  !.base = state[f].version]
  <2>1. /\ proc' = [proc EXCEPT ![p] = l] /\ proc[p].pc = "idle"
        /\ UNCHANGED <<profile, booked, cycles, fills, applied, state>>
    BY <1>3 DEF RecState, At, books
  <2>2. /\ l.pc = "pending" /\ l.profile = f /\ l.state = state[f]
        /\ l.base = state[f].version
    BY DEF Idle
  <2> HIDE DEF l
  <2>3. proc'[p] = l
    BY <1>1, <2>1
  <2> QED BY <2>1, <2>2, <2>3, QuietOrderly
<1> QED BY <1>2, <1>3

(* An allocation to the current cycle changes cash, capital and the row of *)
(* the cycle by the same amount.                                           *)
LEMMA CommitOrderly ==
    ASSUME TypeOK, NEW p \in Procs, Orderly(proc[p]), AllocCommit(p)
    PROVE  Orderly(proc[p])'
<1> DEFINE f == proc[p].profile
           amount == proc[p].amount
<1>1. f \in Profiles /\ amount \in Nat /\ proc[p].pc = "commit"
  BY DEF TypeOK, Locals, AllocCommit, At
<1>2. proc'[p].pc = "idle" /\ UNCHANGED <<fills, applied, booked>>
  BY EndOrderly DEF AllocCommit
<1>3. CASE CreditNext(f, amount)
  <2>1. UNCHANGED <<profile, state, cycles>>
    BY <1>3 DEF CreditNext
  <2> HIDE DEF f, amount
  <2> QED BY <1>1, <1>2, <2>1, QuietOrderly
<1>4. CASE CreditCurrent(f, amount)
  <2>1. Steady(proc[p])'
    BY <1>2 DEF Steady, Holding
  <2>2. ASSUME NEW g \in Profiles PROVE InBalance(proc[p], g)'
    <3>1. InBalance(proc[p], g) /\ ~Working(proc[p], g) /\ ~Working(proc'[p], g)
      BY <1>1, <1>2 DEF Orderly, Working
    <3>2. /\ state' = [state EXCEPT ![f].cash = @ + amount, ![f].version = @ + 1]
          /\ profile' = [profile EXCEPT ![f].capital = @ + amount]
          /\ cycles' = [cycles EXCEPT ![f] =
                          [n \in DOMAIN cycles[f] |->
                             IF n = state[f].cycle
                             THEN [cycles[f][n] EXCEPT !.added = @ + amount]
                             ELSE cycles[f][n]]]
      BY <1>4 DEF CreditCurrent
    <3>3. /\ state \in [Profiles -> StateRow] /\ cycles \in [Profiles -> Seq(CycleRow)]
          /\ profile \in [Profiles -> [capital : Nat, locked : BOOLEAN]]
      BY DEF TypeOK
    <3> HIDE DEF f, amount
    <3>4. CASE g # f
      <4>1. profile'[g] = profile[g] /\ state'[g] = state[g] /\ cycles'[g] = cycles[g]
        BY <3>2, <3>3, <3>4
      <4>2. Worth(g)' = Worth(g)
        BY <1>2, <4>1 DEF Worth
      <4> QED BY <1>2, <3>1, <4>1, <4>2, OtherBooks
    <3>5. CASE g = f
      <4>1. /\ applied[g] \in Nat /\ cycles[g] \in Seq(CycleRow)
            /\ Worth(g) \in Int /\ profile[g].capital \in Nat /\ booked[g] \in Int
            /\ state[g] \in StateRow /\ state[g].cash \in Int
        BY TablesOf
      <4>2. Balanced(applied[g], state[g], Worth(g), cycles[g], fills[g])
        BY <3>1 DEF InBalance
      <4>3. state[g].cash = Worth(g)
        BY <4>2 DEF Balanced
      <4>4. /\ state'[g].cash = Worth(g) + amount
            /\ state'[g].open = state[g].open /\ state'[g].cycle = state[g].cycle
        BY <3>2, <3>3, <3>5, <4>1, <4>3 DEF StateRow
      <4> DEFINE new == [n \in DOMAIN cycles[g] |->
                           IF n = state[g].cycle
                           THEN [cycles[g][n] EXCEPT !.added = @ + amount]
                           ELSE cycles[g][n]]
      <4>5. cycles'[g] = new
        BY <3>2, <3>3, <3>5
      <4>6. /\ DOMAIN new = DOMAIN cycles[g] /\ Len(new) = Len(cycles[g])
            /\ \A n \in DOMAIN cycles[g] :
                 /\ n # state[g].cycle => new[n] = cycles[g][n]
                 /\ n = state[g].cycle =>
                      /\ new[n].added = cycles[g][n].added + amount
                      /\ new[n].closed = cycles[g][n].closed
                      /\ new[n].starting = cycles[g][n].starting
        <5>1. DOMAIN new = DOMAIN cycles[g]
          OBVIOUS
        <5>2. DOMAIN cycles[g] = 1..Len(cycles[g]) /\ Len(cycles[g]) \in Nat
          BY <4>1, LenProperties
        <5>3. ASSUME NEW n \in DOMAIN cycles[g]
              PROVE  /\ cycles[g][n] \in CycleRow
                     /\ n # state[g].cycle => new[n] = cycles[g][n]
                     /\ n = state[g].cycle => new[n] = [cycles[g][n] EXCEPT !.added = @ + amount]
          BY <4>1, <5>2, LenProperties
        <5>4. ASSUME NEW c \in CycleRow
              PROVE  /\ [c EXCEPT !.added = @ + amount].added = c.added + amount
                     /\ [c EXCEPT !.added = @ + amount].closed = c.closed
                     /\ [c EXCEPT !.added = @ + amount].starting = c.starting
          BY DEF CycleRow
        <5>5. Len(new) = Len(cycles[g])
          BY <5>1, <5>2
        <5> HIDE DEF new
        <5> QED BY <5>1, <5>3, <5>4, <5>5
      <4> HIDE DEF new
      <4>7. Balanced(applied[g], state'[g], Worth(g) + amount, new, fills[g])
        <5>1. amount \in Int
          BY <1>1
        <5> QED BY <4>1, <4>2, <4>4, <4>6, <5>1, BalancedCredit
      <4>8. Worth(g)' = Worth(g) + amount
        <5>1. profile'[g].capital = profile[g].capital + amount
          BY <3>2, <3>3, <3>5
        <5> QED BY <1>1, <1>2, <4>1, <5>1 DEF Worth
      <4>9. Balanced(applied'[g], state'[g], Worth(g)', cycles'[g], fills'[g])
        BY <1>2, <4>5, <4>7, <4>8
      <4>10. ~Working(proc[p], g)'
        BY <3>1 DEF Working
      <4> QED BY <4>9, <4>10 DEF InBalance
    <3> QED BY <3>4, <3>5
  <2> QED BY <2>1, <2>2 DEF Orderly
<1> QED BY <1>3, <1>4 DEF AllocCommit

(* A step of the reconciliation of one profile.                            *)
LEMMA FocusOrderly ==
    ASSUME NEW p, Orderly(proc[p]), NEW f,
           proc[p].profile = f, proc'[p].profile = f,
           \A g \in Profiles \ {f} :
              /\ profile'[g] = profile[g] /\ booked'[g] = booked[g]
              /\ cycles'[g] = cycles[g] /\ fills'[g] = fills[g]
              /\ applied'[g] = applied[g] /\ state'[g] = state[g],
           Steady(proc[p])', InBalance(proc[p], f)'
    PROVE  Orderly(proc[p])'
<1>1. ASSUME NEW g \in Profiles, g # f PROVE InBalance(proc[p], g)'
  <2>1. InBalance(proc[p], g) /\ ~Working(proc[p], g) /\ ~Working(proc'[p], g)
    BY <1>1 DEF Orderly, Working
  <2>2. Worth(g)' = Worth(g)
    BY <1>1 DEF Worth
  <2> QED BY <1>1, <2>1, <2>2, OtherBooks
<1> QED BY <1>1 DEF Orderly

(* Reading the fills: the copy is the row, nothing is folded yet.          *)
LEMMA PendingOrderly ==
    ASSUME IInv, NEW p \in Procs, Orderly(proc[p]), RecPending(p)
    PROVE  Orderly(proc[p])'
<1>1. PICK f \in Profiles : f = proc[p].profile
  BY Self
<1>2. /\ proc[p] \in Locals /\ proc[p].pc = "pending" /\ proc[p].gain = 0
      /\ proc[p].state = state[f] /\ proc[p].base = state[f].version
      /\ proc \in [Procs -> Locals]
      /\ UNCHANGED <<profile, state, cycles, fills, applied, booked>>
  BY <1>1, Self DEF RecPending, At, CopyOK, Orderly, Steady, Holding, ledger, books
<1>3. CASE applied[f] < Len(fills[f])
  <2>1. proc' = [proc EXCEPT ![p].pc = "fold", ![p].next = applied[f] + 1,
                             ![p].last = Len(fills[f])]
    BY <1>1, <1>3 DEF RecPending
  <2>2. /\ proc'[p].pc = "fold" /\ proc'[p].profile = f
        /\ proc'[p].state = state[f] /\ proc'[p].base = state[f].version
        /\ proc'[p].gain = 0 /\ proc'[p].next = applied[f] + 1
        /\ proc'[p].last = Len(fills[f])
    BY <1>1, <1>2, <2>1 DEF Locals
  <2>3. applied[f] \in Nat /\ Len(fills[f]) \in Nat /\ Worth(f) \in Int
    BY TablesOf DEF IInv
  <2>4. Steady(proc[p])'
    BY <1>2, <1>3, <2>2, <2>3 DEF Steady, Holding
  <2>5. Balanced(applied[f], state[f], Worth(f), cycles[f], fills[f])
    BY <1>1, <1>2 DEF Orderly, InBalance, Working
  <2>6. /\ Worth(f)' + proc'[p].gain = Worth(f)
        /\ proc'[p].next - 1 = applied[f]
    BY <1>2, <2>2, <2>3 DEF Worth
  <2>7. InBalance(proc[p], f)'
    BY <1>2, <2>2, <2>5, <2>6 DEF InBalance, Working
  <2> QED BY <1>1, <1>2, <2>2, <2>4, <2>7, FocusOrderly
<1>4. CASE ~(applied[f] < Len(fills[f]))
  <2>1. proc' = [proc EXCEPT ![p].pc = "clear"]
    BY <1>1, <1>4 DEF RecPending
  <2>2. /\ proc'[p].pc = "clear" /\ proc'[p].profile = f
        /\ proc'[p].state = state[f] /\ proc'[p].base = state[f].version
    BY <1>1, <1>2, <2>1 DEF Locals
  <2> QED BY <1>2, <2>2, QuietOrderly
<1> QED BY <1>3, <1>4

(* What a process that folds fills has in hand.                            *)
LEMMA InHand ==
    ASSUME IInv, Window, NEW p \in Procs, Orderly(proc[p]), NEW f,
           f = proc[p].profile, proc[p].pc \in {"fold", "open", "save"}
    PROVE  /\ f \in Profiles /\ proc \in [Procs -> Locals] /\ proc[p] \in Locals
           /\ proc[p].state \in StateRow /\ proc[p].state.cash \in Int
           /\ proc[p].next - 1 \in Nat /\ proc[p].gain \in Int
           /\ proc[p].next \in Nat /\ proc[p].last \in Nat
           /\ proc[p].last <= Len(fills[f])
           /\ Worth(f) + proc[p].gain \in Int
           /\ proc[p].base = state[f].version
           /\ Balanced(proc[p].next - 1, proc[p].state, Worth(f) + proc[p].gain,
                       cycles[f], fills[f])
           /\ proc[p].state.cash = Worth(f) + proc[p].gain
           /\ proc[p].state.open <=> (proc[p].next - 1) % 2 = 1
<1>1. /\ f \in Profiles /\ proc \in [Procs -> Locals] /\ proc[p] \in Locals
      /\ proc[p].state \in StateRow /\ proc[p].state.cash \in Int
      /\ proc[p].gain \in Int /\ proc[p].next \in Nat /\ proc[p].last \in Nat
  BY Self
<1>2. 1 <= proc[p].next /\ proc[p].last <= Len(fills[f])
  BY DEF Window
<1>3. Worth(f) \in Int
  BY <1>1, TablesOf DEF IInv
<1>4. /\ proc[p].base = state[f].version
      /\ Balanced(proc[p].next - 1, proc[p].state, Worth(f) + proc[p].gain,
                  cycles[f], fills[f])
  BY <1>1 DEF Orderly, Steady, Holding, InBalance, Working
<1>5. /\ proc[p].state.cash = Worth(f) + proc[p].gain
      /\ proc[p].state.open <=> (proc[p].next - 1) % 2 = 1
  BY <1>4 DEF Balanced
<1> QED BY <1>1, <1>2, <1>3, <1>4, <1>5

(* Odd and even fills.                                                     *)
LEMMA Parity ==
    ASSUME NEW n \in Nat, n >= 1
    PROVE  n % 2 = 1 <=> (n - 1) % 2 = 0
OBVIOUS

(* A fill that is to be folded was executed.                               *)
LEMMA Executed ==
    ASSUME NEW n \in Nat, NEW m \in Nat, NEW k \in Nat, n - 1 \in Nat,
           n <= m, m <= k
    PROVE  n \in 1..k /\ (n - 1) + 1 = n /\ (n - 1) + 1 <= k
OBVIOUS

(* The money that waited is added to copy and capital.                     *)
LEMMA ActivateOrderly ==
    ASSUME IInv, Window, NEW p \in Procs, Orderly(proc[p]), FoldActivate(p)
    PROVE  Orderly(proc[p])'
<1>1. PICK f : f = proc[p].profile
  OBVIOUS
<1>2. /\ proc[p].pc = "fold" /\ proc[p].next <= proc[p].last
      /\ proc[p].next % 2 = 1
      /\ profile' = [profile EXCEPT ![f].capital = @ + waiting[f]]
      /\ proc' = [proc EXCEPT ![p].pc = "open",
                              ![p].state.cash = @ + waiting[f]]
      /\ UNCHANGED <<state, cycles, fills, applied, booked>>
  BY <1>1 DEF FoldActivate, Folding, At, NextBuys, books
<1>3. /\ f \in Profiles /\ proc \in [Procs -> Locals] /\ proc[p] \in Locals
      /\ proc[p].state \in StateRow /\ proc[p].state.cash \in Int
      /\ proc[p].next - 1 \in Nat /\ proc[p].gain \in Int
      /\ proc[p].next \in Nat
      /\ Worth(f) + proc[p].gain \in Int
      /\ proc[p].base = state[f].version
      /\ Balanced(proc[p].next - 1, proc[p].state, Worth(f) + proc[p].gain,
                  cycles[f], fills[f])
      /\ proc[p].state.cash = Worth(f) + proc[p].gain
  BY <1>1, <1>2, InHand
<1>4. /\ waiting[f] \in Nat /\ profile[f].capital \in Nat /\ booked[f] \in Int
      /\ cycles[f] \in Seq(CycleRow)
      /\ profile \in [Profiles -> [capital : Nat, locked : BOOLEAN]]
  BY <1>3, TablesOf DEF IInv, TypeOK
<1>5. /\ proc'[p].pc = "open" /\ proc'[p].profile = f
      /\ proc'[p].base = proc[p].base /\ proc'[p].gain = proc[p].gain
      /\ proc'[p].next = proc[p].next /\ proc'[p].last = proc[p].last
      /\ proc'[p].state = [proc[p].state EXCEPT !.cash = @ + waiting[f]]
  BY <1>1, <1>2, <1>3 DEF Locals
<1>6. /\ proc'[p].state.cash = Worth(f) + proc[p].gain + waiting[f]
      /\ proc'[p].state.open = proc[p].state.open
      /\ proc'[p].state.cycle = proc[p].state.cycle
  BY <1>3, <1>5 DEF StateRow
<1>7. /\ profile'[f].capital = profile[f].capital + waiting[f]
      /\ \A g \in Profiles \ {f} : profile'[g] = profile[g]
  BY <1>2, <1>3, <1>4
<1>8. Worth(f)' + proc'[p].gain = Worth(f) + proc[p].gain + waiting[f]
  <2>1. /\ Worth(f) = profile[f].capital + booked[f]
        /\ Worth(f)' = profile[f].capital + waiting[f] + booked[f]
    BY <1>2, <1>7 DEF Worth
  <2> QED BY <1>3, <1>4, <1>5, <2>1
<1>9. Steady(proc[p])'
  BY <1>2, <1>3, <1>5 DEF Steady, Holding
<1>10. Balanced(proc[p].next - 1, proc'[p].state,
                Worth(f) + proc[p].gain + waiting[f], cycles[f], fills[f])
  <2>1. (proc[p].next - 1) % 2 = 0 /\ waiting[f] \in Int
    BY <1>2, <1>3, <1>4, Parity
  <2> QED BY <1>3, <1>4, <1>6, <2>1, BalancedActivate
<1>11. InBalance(proc[p], f)'
  BY <1>2, <1>5, <1>8, <1>10 DEF InBalance, Working
<1> QED BY <1>1, <1>2, <1>5, <1>7, <1>9, <1>11, FocusOrderly

(* The first buy opens its cycle, which has no row yet.                    *)
LEMMA OpenOrderly ==
    ASSUME IInv, Window, NEW p \in Procs, Orderly(proc[p]), FoldOpen(p)
    PROVE  Orderly(proc[p])'
<1>1. PICK f : f = proc[p].profile
  OBVIOUS
<1> DEFINE new == [starting |-> proc[p].state.cash, added |-> 0,
                   closed |-> FALSE, realized |-> 0]
<1>2. /\ proc[p].pc = "open"
      /\ cycles' = IF proc[p].state.cycle \in DOMAIN cycles[f] THEN cycles
                   ELSE [cycles EXCEPT ![f] = Append(@, new)]
      /\ proc' = [proc EXCEPT ![p].pc = "fold", ![p].next = @ + 1,
                              ![p].state.open = TRUE]
      /\ UNCHANGED <<profile, state, fills, applied, booked>>
  BY <1>1 DEF FoldOpen, At
<1>3. /\ f \in Profiles /\ proc \in [Procs -> Locals] /\ proc[p] \in Locals
      /\ proc[p].state \in StateRow
      /\ proc[p].next - 1 \in Nat /\ proc[p].gain \in Int
      /\ proc[p].next \in Nat /\ proc[p].last \in Nat
      /\ proc[p].last <= Len(fills[f])
      /\ Worth(f) + proc[p].gain \in Int
      /\ proc[p].base = state[f].version
      /\ Balanced(proc[p].next - 1, proc[p].state, Worth(f) + proc[p].gain,
                  cycles[f], fills[f])
      /\ proc[p].state.cash = Worth(f) + proc[p].gain
  BY <1>1, <1>2, InHand
<1>4. proc[p].next % 2 = 1 /\ proc[p].next <= proc[p].last
  BY <1>2 DEF Orderly, Steady
<1>5. /\ cycles[f] \in Seq(CycleRow) /\ Len(fills[f]) \in Nat
      /\ cycles \in [Profiles -> Seq(CycleRow)]
  BY <1>3, TablesOf DEF IInv, TypeOK
<1>6. /\ proc'[p].pc = "fold" /\ proc'[p].profile = f
      /\ proc'[p].base = proc[p].base /\ proc'[p].gain = proc[p].gain
      /\ proc'[p].next = proc[p].next + 1 /\ proc'[p].last = proc[p].last
      /\ proc'[p].state = [proc[p].state EXCEPT !.open = TRUE]
  BY <1>1, <1>2, <1>3 DEF Locals
<1>7. /\ proc'[p].state.cash = Worth(f) + proc[p].gain
      /\ proc'[p].state.open = TRUE
      /\ proc'[p].state.cycle = proc[p].state.cycle
  BY <1>3, <1>6 DEF StateRow
<1>8. /\ new.starting = proc[p].state.cash /\ new.added = 0 /\ new.closed = FALSE
  OBVIOUS
<1> HIDE DEF new
<1>9. /\ proc[p].state.cycle \notin DOMAIN cycles[f]
      /\ Balanced((proc[p].next - 1) + 1, proc'[p].state, Worth(f) + proc[p].gain,
                  Append(cycles[f], new), fills[f])
  <2>1. (proc[p].next - 1) % 2 = 0
    <3>1. proc[p].next \in Nat /\ proc[p].next >= 1
      BY <1>3
    <3> QED BY <1>4, <3>1, Parity
  <2>2. (proc[p].next - 1) + 1 <= Len(fills[f])
    BY <1>3, <1>4, <1>5, Executed
  <2> QED BY <1>3, <1>5, <1>7, <1>8, <2>1, <2>2, BalancedOpen
<1>10. /\ cycles'[f] = Append(cycles[f], new)
       /\ \A g \in Profiles \ {f} : cycles'[g] = cycles[g]
  BY <1>2, <1>3, <1>5, <1>9
<1>11. /\ Worth(f)' + proc'[p].gain = Worth(f) + proc[p].gain
       /\ proc'[p].next - 1 = (proc[p].next - 1) + 1
  BY <1>2, <1>3, <1>6 DEF Worth
<1>12. Steady(proc[p])'
  <2>1. /\ proc'[p].next <= proc'[p].last + 1
        /\ proc'[p].pc \notin {"pending", "clear", "open", "save"}
    BY <1>2, <1>3, <1>4, <1>6
  <2>2. proc'[p].base = state'[proc'[p].profile].version
    BY <1>2, <1>3, <1>4, <1>6
  <2> QED BY <1>6, <2>1, <2>2 DEF Steady
<1>13. InBalance(proc[p], f)'
  BY <1>2, <1>6, <1>9, <1>10, <1>11 DEF InBalance, Working
<1> QED BY <1>1, <1>2, <1>6, <1>10, <1>12, <1>13, FocusOrderly

(* The sell-out closes the cycle, and books what it earned in the copy.    *)
LEMMA CloseOrderly ==
    ASSUME IInv, Window, NEW p \in Procs, Orderly(proc[p]), FoldClose(p)
    PROVE  Orderly(proc[p])'
<1>1. PICK f : f = proc[p].profile
  OBVIOUS
<1>2. PICK gain : gain = fills[f][proc[p].next]
  OBVIOUS
<1>0. PICK cash : cash = proc[p].state.cash + gain
  OBVIOUS
<1> DEFINE new == [n \in DOMAIN cycles[f] |->
                     IF n = proc[p].state.cycle
                     THEN [cycles[f][n] EXCEPT
                             !.closed = TRUE,
                             !.realized = cash - cycles[f][n].starting]
                     ELSE cycles[f][n]]
           flat == [proc[p].state EXCEPT !.cash = cash, !.open = FALSE,
                                         !.cycle = @ + 1]
<1>3. /\ proc[p].pc = "fold" /\ proc[p].next <= proc[p].last
      /\ ~(proc[p].next % 2 = 1)
      /\ cycles' = [cycles EXCEPT ![f] = new]
      /\ proc' = [proc EXCEPT ![p].next = @ + 1, ![p].gain = @ + gain,
                              ![p].state = flat]
      /\ UNCHANGED <<profile, state, fills, applied, booked>>
  BY <1>1, <1>2, <1>0 DEF FoldClose, Folding, At, NextBuys
<1>4. /\ f \in Profiles /\ proc \in [Procs -> Locals] /\ proc[p] \in Locals
      /\ proc[p].state \in StateRow
      /\ proc[p].next - 1 \in Nat /\ proc[p].gain \in Int
      /\ proc[p].next \in Nat /\ proc[p].last \in Nat
      /\ proc[p].last <= Len(fills[f])
      /\ Worth(f) + proc[p].gain \in Int
      /\ proc[p].base = state[f].version
      /\ Balanced(proc[p].next - 1, proc[p].state, Worth(f) + proc[p].gain,
                  cycles[f], fills[f])
      /\ proc[p].state.cash = Worth(f) + proc[p].gain
  BY <1>1, <1>3, InHand
<1>5. /\ cycles[f] \in Seq(CycleRow) /\ Len(fills[f]) \in Nat
      /\ fills[f] \in Seq(Int) /\ Worth(f) \in Int
      /\ cycles \in [Profiles -> Seq(CycleRow)]
  BY <1>4, TablesOf DEF IInv, TypeOK
<1>6. gain \in Int
  <2>1. proc[p].next \in 1..Len(fills[f])
    BY <1>3, <1>4, <1>5, Executed
  <2> QED BY <1>2, <1>5, <2>1, ElementOfSeq
<1>7. /\ flat.cash = Worth(f) + proc[p].gain + gain /\ flat.open = FALSE
      /\ flat.cycle = proc[p].state.cycle + 1
  BY <1>4, <1>0 DEF StateRow
<1>8. Closed(new, cycles[f], proc[p].state.cycle, cash)
  <2>1. DOMAIN new = DOMAIN cycles[f]
    OBVIOUS
  <2>2. DOMAIN cycles[f] = 1..Len(cycles[f]) /\ Len(cycles[f]) \in Nat
    BY <1>5, LenProperties
  <2>3. ASSUME NEW n \in DOMAIN cycles[f]
        PROVE  /\ cycles[f][n] \in CycleRow
               /\ n # proc[p].state.cycle => new[n] = cycles[f][n]
               /\ n = proc[p].state.cycle =>
                    new[n] = [cycles[f][n] EXCEPT
                                !.closed = TRUE,
                                !.realized = cash - cycles[f][n].starting]
    BY <1>5, <2>2, LenProperties
  <2>4. ASSUME NEW c \in CycleRow
        PROVE  /\ [c EXCEPT !.closed = TRUE,
                            !.realized = cash - c.starting].added = c.added
               /\ [c EXCEPT !.closed = TRUE,
                            !.realized = cash - c.starting].realized
                    = cash - c.starting
    BY DEF CycleRow
  <2>5. Len(new) = Len(cycles[f])
    BY <2>1, <2>2
  <2> HIDE DEF new
  <2>6. ASSUME NEW n \in DOMAIN cycles[f]
        PROVE  /\ new[n].added = cycles[f][n].added
               /\ n # proc[p].state.cycle => new[n] = cycles[f][n]
               /\ n = proc[p].state.cycle =>
                    new[n].realized = cash - cycles[f][n].starting
    BY <2>3, <2>4
  <2> QED BY <2>1, <2>5, <2>6 DEF Closed
<1> HIDE DEF new, flat
<1>9. /\ proc'[p].pc = "fold" /\ proc'[p].profile = f
      /\ proc'[p].base = proc[p].base /\ proc'[p].gain = proc[p].gain + gain
      /\ proc'[p].next = proc[p].next + 1 /\ proc'[p].last = proc[p].last
      /\ proc'[p].state = flat
  BY <1>1, <1>3, <1>4 DEF Locals
<1>10. Balanced((proc[p].next - 1) + 1, flat, Worth(f) + proc[p].gain + gain,
                new, fills[f])
  <2>1. (proc[p].next - 1) % 2 = 1
    <3>1. proc[p].next \in Nat /\ proc[p].next >= 1
      BY <1>4
    <3>2. ASSUME NEW n \in Nat PROVE n % 2 \in {0, 1}
      OBVIOUS
    <3> QED BY <1>3, <1>4, <3>1, <3>2, Parity
  <2>2. (proc[p].next - 1) + 1 <= Len(fills[f])
    BY <1>3, <1>4, <1>5, Executed
  <2>3. fills[f][(proc[p].next - 1) + 1] = gain
    <3>1. (proc[p].next - 1) + 1 = proc[p].next
      BY <1>4
    <3> QED BY <1>2, <3>1
  <2>11. PICK worth : worth = Worth(f) + proc[p].gain
    OBVIOUS
  <2>12. PICK k : k = proc[p].next - 1
    OBVIOUS
  <2>4. /\ worth \in Int /\ k \in Nat /\ cash = worth + gain
        /\ flat.cash = worth + gain /\ flat.open = FALSE
        /\ flat.cycle = proc[p].state.cycle + 1
        /\ Balanced(k, proc[p].state, worth, cycles[f], fills[f])
        /\ k % 2 = 1 /\ k + 1 <= Len(fills[f]) /\ fills[f][k + 1] = gain
    BY <1>0, <1>4, <1>7, <2>1, <2>2, <2>3, <2>11, <2>12
  <2>5. Closed(new, cycles[f], proc[p].state.cycle, worth + gain)
    BY <1>8, <2>4
  <2>6. Balanced(k + 1, flat, worth + gain, new, fills[f])
    BY <1>5, <1>6, <2>4, <2>5, BalancedClose
  <2> QED BY <2>6, <2>11, <2>12
<1>11. cycles'[f] = new /\ \A g \in Profiles \ {f} : cycles'[g] = cycles[g]
  BY <1>3, <1>4, <1>5
<1>12. /\ Worth(f)' + proc'[p].gain = Worth(f) + proc[p].gain + gain
       /\ proc'[p].next - 1 = (proc[p].next - 1) + 1
  <2>1. Worth(f)' = Worth(f)
    BY <1>3 DEF Worth
  <2>2. proc'[p].gain = proc[p].gain + gain /\ proc'[p].next = proc[p].next + 1
    BY <1>4, <1>9
  <2>3. /\ Worth(f) \in Int /\ proc[p].gain \in Int /\ gain \in Int
        /\ proc[p].next \in Nat
    BY <1>4, <1>5, <1>6
  <2> QED BY <2>1, <2>2, <2>3
<1>13. Steady(proc[p])'
  <2>1. /\ proc'[p].next <= proc'[p].last + 1
        /\ proc'[p].pc \notin {"pending", "clear", "open", "save"}
    BY <1>3, <1>4, <1>9
  <2>2. proc'[p].base = state'[proc'[p].profile].version
    BY <1>3, <1>4, <1>9
  <2> QED BY <1>9, <2>1, <2>2 DEF Steady
<1>14. InBalance(proc[p], f)'
  BY <1>3, <1>9, <1>10, <1>11, <1>12 DEF InBalance, Working
<1> QED BY <1>1, <1>3, <1>9, <1>11, <1>13, <1>14, FocusOrderly

(* Going on to the save.                                                   *)
LEMMA DoneOrderly ==
    ASSUME IInv, Window, NEW p \in Procs, Orderly(proc[p]), FoldDone(p)
    PROVE  Orderly(proc[p])'
<1>1. PICK f : f = proc[p].profile
  OBVIOUS
<1>2. /\ proc[p].pc = "fold" /\ proc[p].next > proc[p].last
      /\ proc' = [proc EXCEPT ![p].pc = "save"]
      /\ UNCHANGED <<profile, state, cycles, fills, applied, booked>>
  BY DEF FoldDone, At, books
<1>3. /\ f \in Profiles /\ proc \in [Procs -> Locals] /\ proc[p] \in Locals
      /\ proc[p].next \in Nat /\ proc[p].last \in Nat
      /\ proc[p].base = state[f].version
      /\ Balanced(proc[p].next - 1, proc[p].state, Worth(f) + proc[p].gain,
                  cycles[f], fills[f])
  BY <1>1, <1>2, InHand
<1>4. proc[p].next <= proc[p].last + 1
  BY <1>2 DEF Orderly, Steady
<1>5. proc[p].next = proc[p].last + 1
  BY <1>2, <1>3, <1>4
<1>6. /\ proc'[p].pc = "save" /\ proc'[p].profile = f
      /\ proc'[p].base = proc[p].base /\ proc'[p].gain = proc[p].gain
      /\ proc'[p].next = proc[p].next /\ proc'[p].last = proc[p].last
      /\ proc'[p].state = proc[p].state
  BY <1>1, <1>2, <1>3 DEF Locals
<1>7. Steady(proc[p])'
  BY <1>2, <1>3, <1>5, <1>6 DEF Steady, Holding
<1>8. InBalance(proc[p], f)'
  BY <1>2, <1>3, <1>6 DEF InBalance, Working, Worth
<1> QED BY <1>1, <1>2, <1>6, <1>7, <1>8, FocusOrderly

(* The save stores the copy with the fills it stands for; nobody has       *)
(* written the row since it was read.                                      *)
LEMMA SaveOrderly ==
    ASSUME IInv, Window, NEW p \in Procs, Orderly(proc[p]), RecSave(p)
    PROVE  Orderly(proc[p])'
<1>1. PICK f : f = proc[p].profile
  OBVIOUS
<1>2. proc[p].pc = "save"
  BY DEF RecSave, At
<1>3. /\ f \in Profiles /\ proc \in [Procs -> Locals] /\ proc[p] \in Locals
      /\ proc[p].state \in StateRow /\ proc[p].gain \in Int
      /\ proc[p].next \in Nat /\ proc[p].last \in Nat
      /\ Worth(f) + proc[p].gain \in Int
      /\ proc[p].base = state[f].version
      /\ Balanced(proc[p].next - 1, proc[p].state, Worth(f) + proc[p].gain,
                  cycles[f], fills[f])
  BY <1>1, <1>2, InHand
<1> DEFINE r == [proc[p].state EXCEPT !.version = proc[p].base + 1]
           l == [Idle(f) EXCEPT !.pc = "clear", !.state = r, !.base = r.version]
<1>4. /\ proc' = [proc EXCEPT ![p] = l]
      /\ state' = [state EXCEPT ![f] = r]
      /\ applied' = [applied EXCEPT ![f] = proc[p].last]
      /\ booked' = [booked EXCEPT ![f] = @ + proc[p].gain]
      /\ UNCHANGED <<profile, cycles, fills>>
  BY <1>1, <1>3 DEF RecSave, CanSave
<1>5. /\ r.cash = proc[p].state.cash /\ r.open = proc[p].state.open
      /\ r.cycle = proc[p].state.cycle
  BY <1>3 DEF StateRow
<1> HIDE DEF r
<1>6. l.pc = "clear" /\ l.profile = f /\ l.state = r /\ l.base = r.version
  BY DEF Idle
<1> HIDE DEF l
<1>7. /\ applied \in [Profiles -> Nat] /\ booked \in [Profiles -> Int]
      /\ state \in [Profiles -> StateRow] /\ profile[f].capital \in Nat
      /\ booked[f] \in Int
  BY <1>3, TablesOf DEF IInv, TypeOK
<1>8. /\ proc'[p] = l /\ state'[f] = r /\ applied'[f] = proc[p].last
      /\ booked'[f] = booked[f] + proc[p].gain
      /\ \A g \in Profiles \ {f} : /\ state'[g] = state[g]
                                   /\ applied'[g] = applied[g]
                                   /\ booked'[g] = booked[g]
  BY <1>3, <1>4, <1>7
<1>9. Steady(proc[p])'
  BY <1>6, <1>8 DEF Steady, Holding
<1>10. proc[p].next - 1 = proc[p].last
  <2>1. proc[p].next = proc[p].last + 1
    BY <1>2 DEF Orderly, Steady
  <2> QED BY <1>3, <2>1
<1>11. Worth(f)' = Worth(f) + proc[p].gain
  BY <1>3, <1>4, <1>7, <1>8 DEF Worth
<1>12. Balanced(proc[p].next - 1, r, Worth(f) + proc[p].gain, cycles[f], fills[f])
  BY <1>3, <1>5, BalancedRow
<1>13. InBalance(proc[p], f)'
  BY <1>4, <1>6, <1>8, <1>10, <1>11, <1>12 DEF InBalance, Working
<1> QED BY <1>1, <1>4, <1>6, <1>8, <1>9, <1>13, FocusOrderly

(* Clearing the flag keeps cash, position and cycle.                       *)
LEMMA ClearOrderly ==
    ASSUME TypeOK, NEW p \in Procs, Orderly(proc[p]), RecClear(p)
    PROVE  Orderly(proc[p])'
<1>1. PICK f \in Profiles : f = proc[p].profile
  BY DEF TypeOK, Locals
<1>2. /\ proc[p].pc = "clear" /\ proc[p].state = state[f]
      /\ UNCHANGED <<profile, cycles, fills, applied, booked>>
  BY <1>1 DEF RecClear, At, Orderly, Steady, books
<1>3. proc'[p].pc = "idle"
  BY EndOrderly DEF RecClear
<1>4. state[f] \in StateRow /\ state \in [Profiles -> StateRow]
  BY DEF TypeOK
<1>5. ASSUME NEW g \in Profiles
      PROVE  /\ state'[g].cash = state[g].cash /\ state'[g].open = state[g].open
             /\ state'[g].cycle = state[g].cycle
  <2> DEFINE r == [proc[p].state EXCEPT !.flagged = FALSE,
                                        !.version = proc[p].base + 1]
  <2>1. state' = state \/ state' = [state EXCEPT ![f] = r]
    BY <1>1 DEF RecClear
  <2>2. /\ r.cash = state[f].cash /\ r.open = state[f].open
        /\ r.cycle = state[f].cycle
    BY <1>2, <1>4 DEF StateRow
  <2> HIDE DEF r
  <2> QED BY <1>4, <2>1, <2>2
<1>6. Steady(proc[p])'
  BY <1>3 DEF Steady, Holding
<1>7. ASSUME NEW g \in Profiles PROVE InBalance(proc[p], g)'
  <2>1. InBalance(proc[p], g) /\ ~Working(proc[p], g) /\ ~Working(proc'[p], g)
    BY <1>2, <1>3 DEF Orderly, Working
  <2>2. Worth(g)' = Worth(g)
    BY <1>2 DEF Worth
  <2> QED BY <1>2, <1>5, <2>1, <2>2, OtherBooks
<1> QED BY <1>6, <1>7 DEF Orderly

(* Other commands run only while the process has none in hand, and keep    *)
(* cash, position and cycle of the rows they write.                        *)
LEMMA WrittenOrderly ==
    ASSUME NEW p, Orderly(proc[p]), proc[p].pc = "idle",
           UNCHANGED <<proc, cycles, fills, applied, booked>>,
           \A f \in Profiles :
              /\ profile'[f].capital = profile[f].capital
              /\ state'[f].cash = state[f].cash /\ state'[f].open = state[f].open
              /\ state'[f].cycle = state[f].cycle
    PROVE  Orderly(proc[p])'
<1>1. Steady(proc[p])'
  BY DEF Steady, Holding
<1>2. ASSUME NEW f \in Profiles PROVE InBalance(proc[p], f)'
  <2>1. InBalance(proc[p], f) /\ ~Working(proc[p], f) /\ ~Working(proc'[p], f)
    BY DEF Orderly, Working
  <2>2. Worth(f)' = Worth(f)
    BY DEF Worth
  <2> QED BY <2>1, <2>2, OtherBooks
<1> QED BY <1>1, <1>2 DEF Orderly

(* A withdrawal, or another command, writes rows.                          *)
LEMMA OthersOrderly ==
    ASSUME TypeOK, NEW p, Orderly(proc[p]), proc[p].pc = "idle",
           \/ \E e \in Events, settled \in BOOLEAN, amount \in Withdrawals :
                 RecordWithdrawal(e, amount, settled)
           \/ \E f \in Profiles : OtherWrite(f)
    PROVE  Orderly(proc[p])'
<1>1. /\ state \in [Profiles -> StateRow]
      /\ profile \in [Profiles -> [capital : Nat, locked : BOOLEAN]]
  BY DEF TypeOK
<1>2. UNCHANGED <<proc, cycles, fills, applied, booked>>
  BY DEF RecordWithdrawal, RecordRow, OtherWrite, books
<1>3. CASE \E e \in Events, settled \in BOOLEAN, amount \in Withdrawals :
              RecordWithdrawal(e, amount, settled)
  <2>1. /\ profile' = [f \in Profiles |-> [profile[f] EXCEPT !.locked = TRUE]]
        /\ state' = [f \in Profiles |->
                       IF state[f].flagged THEN state[f]
                       ELSE [state[f] EXCEPT !.flagged = TRUE, !.version = @ + 1]]
    BY <1>3 DEF RecordWithdrawal
  <2>2. ASSUME NEW f \in Profiles
        PROVE  /\ profile'[f].capital = profile[f].capital
               /\ state'[f].cash = state[f].cash /\ state'[f].open = state[f].open
               /\ state'[f].cycle = state[f].cycle
    <3>1. /\ profile'[f] = [profile[f] EXCEPT !.locked = TRUE]
          /\ \/ state'[f] = state[f]
             \/ state'[f] = [state[f] EXCEPT !.flagged = TRUE, !.version = @ + 1]
          /\ state[f] \in StateRow
          /\ profile[f] \in [capital : Nat, locked : BOOLEAN]
      BY <1>1, <2>1
    <3> QED BY <3>1 DEF StateRow
  <2> QED BY <1>2, <2>2, WrittenOrderly
<1>4. CASE \E f \in Profiles : OtherWrite(f)
  <2>1. PICK f \in Profiles, flag \in BOOLEAN :
           state' = [state EXCEPT ![f].version = @ + 1, ![f].flagged = flag]
    BY <1>4 DEF OtherWrite
  <2>2. profile' = profile
    BY <1>4 DEF OtherWrite
  <2>3. ASSUME NEW g \in Profiles
        PROVE  /\ state'[g].cash = state[g].cash /\ state'[g].open = state[g].open
               /\ state'[g].cycle = state[g].cycle
    <3>1. /\ state[g] \in StateRow
          /\ \/ state'[g] = state[g]
             \/ state'[g] = [state[g] EXCEPT !.version = @ + 1, !.flagged = flag]
      BY <1>1, <2>1
    <3> QED BY <3>1 DEF StateRow
  <2> QED BY <1>2, <2>2, <2>3, WrittenOrderly
<1> QED BY <1>3, <1>4

(* Fills may arrive at any time.                                           *)
LEMMA ExecuteOrderly ==
    ASSUME IInv, Window, NEW p \in Procs, Orderly(proc[p]),
           NEW f \in Profiles, NEW gain \in Gains, Execute(f, gain)
    PROVE  Orderly(proc[p])'
<1> DEFINE e == IF Len(fills[f]) % 2 = 0 THEN 0 ELSE gain
<1>1. /\ e \in Int /\ fills' = [fills EXCEPT ![f] = Append(fills[f], e)]
      /\ UNCHANGED <<profile, state, cycles, applied, booked, proc>>
  BY CapitalAssumption DEF Execute
<1> HIDE DEF e
<1>2. fills \in [Profiles -> Seq(Int)] /\ proc[p] \in Locals
  BY DEF IInv, TypeOK
<1>3. Steady(proc[p])'
  BY <1>1 DEF Orderly, Steady
<1>4. ASSUME NEW g \in Profiles PROVE InBalance(proc[p], g)'
  <2>1. /\ fills[g] \in Seq(Int) /\ Len(fills[g]) \in Nat
        /\ cycles[g] \in Seq(CycleRow) /\ applied[g] \in Nat
    BY TablesOf DEF IInv
  <2>2. /\ Len(fills'[g]) \in Nat /\ Len(fills[g]) <= Len(fills'[g])
        /\ \A n \in 1..Len(fills[g]) : fills'[g][n] = fills[g][n]
    <3>1. CASE g = f
      <4>1. fills'[g] = Append(fills[g], e)
        BY <1>1, <1>2, <3>1
      <4> QED BY <1>1, <2>1, <4>1, AppendProperties
    <3>2. CASE g # f
      BY <1>1, <1>2, <2>1, <3>2
    <3> QED BY <3>1, <3>2
  <2>3. Worth(g)' = Worth(g) /\ InBalance(proc[p], g)
    BY <1>1 DEF Worth, Orderly
  <2>4. CASE Working(proc[p], g)
    <3>1. Balanced(proc[p].next - 1, proc[p].state, Worth(g) + proc[p].gain,
                   cycles[g], fills[g])
      BY <2>3, <2>4 DEF InBalance
    <3>2. proc[p].next - 1 \in Nat
      BY <3>1 DEF Balanced
    <3>3. Balanced(proc[p].next - 1, proc[p].state, Worth(g) + proc[p].gain,
                   cycles[g], fills'[g])
      BY <2>1, <2>2, <3>1, <3>2, BalancedMore
    <3> QED BY <1>1, <2>3, <2>4, <3>3 DEF InBalance, Working
  <2>5. CASE ~Working(proc[p], g)
    <3>1. Balanced(applied[g], state[g], Worth(g), cycles[g], fills[g])
      BY <2>3, <2>5 DEF InBalance
    <3>2. Balanced(applied[g], state[g], Worth(g), cycles[g], fills'[g])
      BY <2>1, <2>2, <3>1, BalancedMore
    <3> QED BY <1>1, <2>3, <2>5, <3>2 DEF InBalance, Working
  <2> QED BY <2>4, <2>5
<1> QED BY <1>3, <1>4 DEF Orderly

(* A step of the process itself.  It folds no fill that does not fit its   *)
(* copy, and nothing interrupts it.                                        *)
LEMMA OwnOrderly ==
    ASSUME IInv, Window, Alone, NEW p \in Procs, Orderly(proc[p]), ProcStep(p)
    PROVE  Orderly(proc[p])'
<1>0. TypeOK
  BY DEF IInv
<1>1. CASE \E f \in Profiles :
              \/ \E amount \in Requests, timing \in Timings :
                    AllocCheck(p, f, amount, timing)
              \/ RecState(p, f)
  BY <1>0, <1>1, BeginOrderly
<1>2. CASE AllocRefuse(p)
  <2>1. /\ proc[p].pc = "commit" /\ proc'[p].pc = "idle"
        /\ UNCHANGED <<profile, booked, cycles, fills, applied, state>>
    BY <1>0, <1>2, EndOrderly DEF AllocRefuse, At, books
  <2> QED BY <2>1, QuietOrderly
<1>3. CASE AllocCommit(p)
  BY <1>0, <1>3, CommitOrderly
<1>4. CASE RecPending(p)
  BY <1>4, PendingOrderly
<1>5. CASE FoldActivate(p)
  BY <1>5, ActivateOrderly
<1>6. CASE FoldOpen(p)
  BY <1>6, OpenOrderly
<1>7. CASE FoldClose(p)
  BY <1>7, CloseOrderly
<1>8. CASE FoldDone(p)
  BY <1>8, DoneOrderly
<1>9. CASE RecSave(p)
  BY <1>9, SaveOrderly
<1>10. CASE RecClear(p)
  BY <1>0, <1>10, ClearOrderly
<1>11. ~FoldBuy(p) /\ ~FoldRaises(p)
  <2>1. SUFFICES ASSUME proc[p].pc = "fold",
                        proc[p].next % 2 = 1 <=> proc[p].state.open
                 PROVE  FALSE
    BY DEF FoldBuy, FoldRaises, Folding, At, NextBuys
  <2>2. /\ proc[p].state.open <=> (proc[p].next - 1) % 2 = 1
        /\ proc[p].next \in Nat /\ proc[p].next - 1 \in Nat
    BY <2>1, InHand
  <2>3. ASSUME NEW n \in Nat, n - 1 \in Nat
        PROVE  ~(n % 2 = 1 <=> (n - 1) % 2 = 1)
    BY <2>3
  <2> QED BY <2>1, <2>2, <2>3
<1>12. ~Crash(p)
  BY DEF Crash, Alone
<1> QED BY <1>1, <1>2, <1>3, <1>4, <1>5, <1>6, <1>7, <1>8, <1>9, <1>10, <1>11,
           <1>12 DEF ProcStep

(* A process that is alone keeps its books in order.                       *)
LEMMA NextSole ==
    IInv /\ Window /\ SoleInv /\ [Next]_vars => SoleInv'
<1> SUFFICES ASSUME IInv, Window, SoleInv, [Next]_vars, Alone'
             PROVE  \A p \in Team' : Orderly(proc[p])'
  BY DEF SoleInv
<1>1. TypeOK
  BY DEF IInv
<1>2. Team' = Team
  BY <1>1, TeamFixed
<1>3. Alone
  BY <1>2 DEF Alone
<1>4. PICK p \in Procs : Team = {p}
  BY <1>3, OneMember
<1>5. Orderly(proc[p])
  BY <1>3, <1>4 DEF SoleInv
<1> SUFFICES Orderly(proc[p])'
  BY <1>2, <1>4
<1>6. CASE UNCHANGED vars
  BY <1>5, <1>6, Zenon
     DEF vars, ledger, books, Orderly, Steady, InBalance, Working, Worth, Holding
<1>7. CASE \E q \in Procs : ProcStep(q)
  <2>1. PICK q \in Procs : ProcStep(q)
    BY <1>7
  <2>2. q \in Team
    BY <2>1 DEF ProcStep, AllocCheck, AllocRefuse, AllocCommit, RecState,
                RecPending, FoldActivate, FoldOpen, FoldBuy, FoldClose, FoldDone,
                FoldRaises, RecSave, RecClear, Crash, Folding, At, Team
  <2>3. q = p
    BY <1>4, <2>2
  <2> QED BY <1>3, <1>5, <2>1, <2>3, OwnOrderly
<1>8. SomeoneFree => proc[p].pc = "idle"
  <2>1. ASSUME NEW q \in Procs, At(q, "idle") PROVE q = p
    <3>1. q \in Team
      BY <2>1 DEF Team, At
    <3> QED BY <1>4, <3>1
  <2> QED BY <2>1 DEF SomeoneFree, At
<1>9. CASE \E e \in Events, settled \in BOOLEAN, amount \in Deposits :
              RecordDeposit(e, amount, settled)
  <2>1. /\ proc[p].pc = "idle"
        /\ UNCHANGED <<proc, cycles, fills, applied, booked, profile, state>>
    BY <1>8, <1>9 DEF RecordDeposit, RecordRow, books
  <2> QED BY <1>5, <2>1, WrittenOrderly
<1>10. CASE \/ \E e \in Events, settled \in BOOLEAN, amount \in Withdrawals :
                  RecordWithdrawal(e, amount, settled)
            \/ \E f \in Profiles : OtherWrite(f)
  <2>1. proc[p].pc = "idle"
    BY <1>8, <1>10 DEF RecordWithdrawal, RecordRow, OtherWrite
  <2> QED BY <1>1, <1>5, <1>10, <2>1, OthersOrderly
<1>11. CASE \E f \in Profiles, gain \in Gains : Execute(f, gain)
  BY <1>5, <1>11, ExecuteOrderly
<1> QED BY <1>6, <1>7, <1>9, <1>10, <1>11 DEF Next

(* New profiles have their capital in cash.                                *)
LEMMA InitSole == Init => SoleInv
<1> SUFFICES ASSUME Init, NEW p \in Team PROVE Orderly(proc[p])
  BY DEF SoleInv
<1>1. p \in Procs /\ proc[p].pc \in {"idle", "absent"}
  BY IdleOrAbsent DEF Team
<1>2. Steady(proc[p])
  BY <1>1 DEF Steady, Holding
<1>3. ASSUME NEW f \in Profiles PROVE InBalance(proc[p], f)
  <2>1. /\ applied[f] = 0 /\ state[f] = NewState /\ booked[f] = 0
        /\ cycles[f] = <<>> /\ fills[f] = <<>>
        /\ profile[f].capital = InitialCapital /\ InitialCapital \in Nat
    BY CapitalAssumption DEF Init
  <2>2. Worth(f) = InitialCapital
    BY <2>1 DEF Worth
  <2>3. /\ NewState.cash = InitialCapital /\ NewState.open = FALSE
        /\ NewState.cycle = 1
    BY DEF NewState
  <2>4. Balanced(0, NewState, InitialCapital, <<>>, <<>>)
    BY <2>3 DEF Balanced
  <2>5. ~Working(proc[p], f)
    BY <1>1 DEF Working
  <2> QED BY <2>1, <2>2, <2>4, <2>5 DEF InBalance
<1> QED BY <1>2, <1>3 DEF Orderly

(* The two invariants together.                                            *)
LEMMA Sole == Spec => [](IInv /\ SoleInv)
<1>1. IInv /\ Window /\ SoleInv /\ [Next]_vars => SoleInv'
  BY NextSole
<1> QED BY <1>1, InitSole, Invariance, PTL DEF Spec

(* One command at a time and no crash: whatever events, fills, withdrawals *)
(* and other commands come, every dollar of capital and every booked       *)
(* profit is in the cash the strategy plans with when the process is idle. *)
THEOREM SoleCashIsCapital == Spec => []CashIsCapital
<1>1. IInv /\ SoleInv => CashIsCapital
  <2> SUFFICES ASSUME IInv, SoleInv, AtRest, Alone, NEW f \in Profiles
               PROVE  state[f].cash = profile[f].capital + booked[f]
    BY DEF CashIsCapital
  <2>1. PICK p \in Procs : Team = {p}
    BY OneMember
  <2>2. Orderly(proc[p]) /\ ~Working(proc[p], f)
    BY <2>1 DEF SoleInv, AtRest, At, Working
  <2>3. Balanced(applied[f], state[f], Worth(f), cycles[f], fills[f])
    BY <2>2 DEF Orderly, InBalance
  <2> QED BY <2>3 DEF Balanced, Worth
<1> QED BY Sole, <1>1, PTL

(* One command at a time and no crash: the realized profit of every closed *)
(* cycle is the profit of its two fills and the capital added to it.       *)
THEOREM SoleRealizedExplained == Spec => []RealizedExplained
<1>1. IInv /\ SoleInv => RealizedExplained
  <2> SUFFICES ASSUME IInv, SoleInv, AtRest, Alone, NEW f \in Profiles,
                      NEW n \in DOMAIN cycles[f], cycles[f][n].closed
               PROVE  cycles[f][n].realized = fills[f][2 * n] + cycles[f][n].added
    BY DEF RealizedExplained
  <2>1. PICK p \in Procs : Team = {p}
    BY OneMember
  <2>2. Orderly(proc[p]) /\ ~Working(proc[p], f)
    BY <2>1 DEF SoleInv, AtRest, At, Working
  <2>3. Balanced(applied[f], state[f], Worth(f), cycles[f], fills[f])
    BY <2>2 DEF Orderly, InBalance
  <2> QED BY <2>3 DEF Balanced
<1> QED BY Sole, <1>1, PTL
=============================================================================
