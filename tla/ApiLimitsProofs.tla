-------------------------- MODULE ApiLimitsProofs ---------------------------
(***************************************************************************)
(* The limits of DB Securities are kept for any number of processes,       *)
(* however long each is held up between two steps.                         *)
(*                                                                         *)
(* A process that has reserved a slot and not made its request yet counts  *)
(* as one that may still do so (Sleeping): the requests made and those     *)
(* that could be made up to a time t are spaced (Spaced), because the next *)
(* slot lies beyond all that were ever given away (SlotBeyond).  A process *)
(* that has claimed a token request is counted the same way (Claimed).     *)
(*                                                                         *)
(* A token is stored before its expiry, by the only process that has one   *)
(* (OneRequest), and the expiry is too late by less than the margin at     *)
(* which a token counts as old (KeychainFresh).                            *)
(***************************************************************************)
EXTENDS ApiLimits, FiniteSetTheorems, TLAPS

(* Processes that have a slot and wait for it; those among them that can   *)
(* go at t; those about to request a token.                                *)
Sleeping == {p \in Procs : At(p, "sleep")}
Due(t) == {p \in Sleeping : proc[p].wake <= t}
Posting == {p \in Procs : At(p, "post")}

(* Requests that are sent or may be sent until t, without the first.       *)
Spaced == \A t \in Nat :
    t >= now => Spacing * (calls.count + Cardinality(Due(t)) - 1) <= t

(* The next slot lies beyond all that were given away.                     *)
SlotBeyond == Spacing * (calls.count + Cardinality(Sleeping)) <= slot

(* Token requests made or claimed are spaced, up to the last claim.        *)
Claimed ==
    /\ TokenInterval * (Len(expiries) + Cardinality(Posting) - 1) <= last
    /\ last <= now

(* No process has read a clock of the future.                              *)
ClocksPast == \A p \in Procs : proc[p].clock <= now

(* No process holds a token that was not issued.                           *)
TokensIssued == \A p \in Procs : proc[p].token <= Len(expiries)

(* The inductive invariant.                                                *)
IInv == TypeOK /\ Spaced /\ SlotBeyond /\ Claimed /\ ClocksPast /\ TokensIssued

-----------------------------------------------------------------------------
(* Arithmetic.                                                             *)

(* Products with a natural number.                                         *)
LEMMA TimesMonotone ==
    ASSUME NEW s \in Nat, NEW m \in Int, NEW n \in Int, m <= n
    PROVE  s * m <= s * n
OBVIOUS

(* One more.                                                               *)
LEMMA TimesNext ==
    ASSUME NEW s \in Nat, NEW m \in Int
    PROVE  s * (m + 1) = s * m + s
OBVIOUS

(* A bound of a product, for a smaller factor.                             *)
LEMMA TimesBound ==
    ASSUME NEW s \in Nat, NEW m \in Int, NEW n \in Int, m <= n,
           NEW t \in Int, s * n <= t
    PROVE  s * m <= t
<1>1. s * m <= s * n /\ s * m \in Int /\ s * n \in Int
  BY TimesMonotone
<1> QED BY <1>1

(* From spacing to the number per time.                                    *)
LEMMA SpacedCount ==
    ASSUME NEW s \in Nat \ {0}, NEW k \in Int, NEW n \in Nat,
           s * (k - 1) <= n
    PROVE  k <= n \div s + 1
<1> DEFINE q == n \div s
<1>1. q \in Int /\ n < s * (q + 1)
  OBVIOUS
<1>2. ASSUME k - 1 >= q + 1 PROVE FALSE
  <2>1. s * (q + 1) <= s * (k - 1)
    BY <1>1, <1>2, TimesMonotone
  <2> QED BY <1>1, <2>1
<1> QED BY <1>1, <1>2

-----------------------------------------------------------------------------
(* Counting.                                                               *)

(* The sets that are counted are finite.                                   *)
LEMMA FiniteParts ==
    /\ IsFiniteSet(Sleeping) /\ Cardinality(Sleeping) \in Nat
    /\ IsFiniteSet(Posting) /\ Cardinality(Posting) \in Nat
    /\ \A t : /\ IsFiniteSet(Due(t)) /\ Cardinality(Due(t)) \in Nat
              /\ Cardinality(Due(t)) <= Cardinality(Sleeping)
<1>1. IsFiniteSet(Procs)
  BY ApiAssumption
<1>2. IsFiniteSet(Sleeping) /\ IsFiniteSet(Posting)
  BY <1>1, FS_Subset DEF Sleeping, Posting
<1>3. ASSUME NEW t PROVE /\ IsFiniteSet(Due(t))
                         /\ Cardinality(Due(t)) <= Cardinality(Sleeping)
  BY <1>2, FS_Subset DEF Due
<1> QED BY <1>2, <1>3, FS_CardinalityType

(* The counts do not grow with the sets.                                   *)
LEMMA SmallerSet ==
    ASSUME NEW S, NEW T, IsFiniteSet(T), S \subseteq T
    PROVE  /\ Cardinality(S) \in Nat /\ Cardinality(T) \in Nat
           /\ Cardinality(S) <= Cardinality(T)
BY FS_Subset, FS_CardinalityType

(* One element more or less.                                               *)
LEMMA OneMore ==
    ASSUME NEW S, NEW T, NEW x, IsFiniteSet(S), x \notin S, T = S \cup {x}
    PROVE  Cardinality(T) = Cardinality(S) + 1
BY FS_AddElement

-----------------------------------------------------------------------------
(* Steps that reserve, claim and call nothing.                             *)

(* A step that touches neither slots nor claims.                           *)
LEMMA QuietStep ==
    ASSUME IInv, NEW p \in Procs, NEW l \in Locals, Become(p, l),
           UNCHANGED <<now, last, slot, expiries, calls>>,
           keychain' \in [token : 0..Len(expiries), expiry : Nat],
           l.pc \notin {"sleep", "post"}, l.clock <= now, l.token <= Len(expiries)
    PROVE  IInv'
<1>1. /\ proc \in [Procs -> Locals] /\ proc' = [proc EXCEPT ![p] = l]
      /\ expiries \in Seq(Nat) /\ now \in Nat /\ slot \in Nat /\ last \in Int
      /\ calls \in [count : Nat, last : Int]
  BY DEF IInv, TypeOK, Become
<1>2. proc' \in [Procs -> Locals]
  BY <1>1
<1>3. TypeOK'
  BY <1>1, <1>2 DEF TypeOK
<1>4. Sleeping' \subseteq Sleeping /\ Posting' \subseteq Posting
  BY <1>1 DEF Sleeping, Posting, At
<1>5. \A t : Due(t)' \subseteq Due(t)
  BY <1>1 DEF Due, Sleeping, At
<1>6. /\ Cardinality(Sleeping') \in Nat /\ Cardinality(Sleeping') <= Cardinality(Sleeping)
      /\ Cardinality(Posting') \in Nat /\ Cardinality(Posting') <= Cardinality(Posting)
  BY <1>4, FiniteParts, SmallerSet
<1>7. \A t : /\ Cardinality(Due(t)') \in Nat
             /\ Cardinality(Due(t)') <= Cardinality(Due(t))
  BY <1>5, FiniteParts, SmallerSet
<1>8. Spaced'
  <2> SUFFICES ASSUME NEW t \in Nat, t >= now
               PROVE  Spacing * (calls.count + Cardinality(Due(t)') - 1) <= t
    BY <1>1 DEF Spaced
  <2> DEFINE m == calls.count + Cardinality(Due(t)') - 1
             n == calls.count + Cardinality(Due(t)) - 1
  <2>1. Spacing * n <= t
    BY DEF IInv, Spaced
  <2>2. /\ calls.count \in Nat /\ Cardinality(Due(t)') \in Nat
        /\ Cardinality(Due(t)) \in Nat /\ Spacing \in Nat
    BY <1>1, <1>7, FiniteParts, ApiAssumption
  <2>3. m \in Int /\ n \in Int /\ m <= n
    BY <1>7, <2>2
  <2> HIDE DEF m, n
  <2>4. Spacing * m <= t
    BY <2>1, <2>2, <2>3, TimesBound
  <2> QED BY <2>4 DEF m
<1>9. SlotBeyond'
  <2> DEFINE m == calls.count + Cardinality(Sleeping')
             n == calls.count + Cardinality(Sleeping)
  <2>1. Spacing * n <= slot
    BY DEF IInv, SlotBeyond
  <2>2. calls.count \in Nat /\ Cardinality(Sleeping) \in Nat /\ Spacing \in Nat /\ slot \in Nat
    BY <1>1, FiniteParts, ApiAssumption
  <2>3. m \in Int /\ n \in Int /\ m <= n
    BY <1>6, <2>2
  <2> HIDE DEF m, n
  <2>4. Spacing * m <= slot
    BY <2>1, <2>2, <2>3, TimesBound
  <2> QED BY <1>1, <2>4 DEF SlotBeyond, m
<1>10. Claimed'
  <2> DEFINE m == Len(expiries) + Cardinality(Posting') - 1
             n == Len(expiries) + Cardinality(Posting) - 1
  <2>1. TokenInterval * n <= last /\ last <= now
    BY DEF IInv, Claimed
  <2>2. Len(expiries) \in Nat /\ Cardinality(Posting) \in Nat /\ TokenInterval \in Nat /\ last \in Int
    BY <1>1, FiniteParts, ApiAssumption
  <2>3. m \in Int /\ n \in Int /\ m <= n
    BY <1>6, <2>2
  <2> HIDE DEF m, n
  <2>4. TokenInterval * m <= last
    BY <2>1, <2>2, <2>3, TimesBound
  <2> QED BY <1>1, <2>1, <2>4 DEF Claimed, m
<1>11. ClocksPast' /\ TokensIssued'
  BY <1>1 DEF IInv, ClocksPast, TokensIssued
<1> QED BY <1>3, <1>8, <1>9, <1>10, <1>11 DEF IInv

(* A process at rest.                                                      *)
LEMMA IdleLocals == Idle \in Locals
BY DEF Idle, Locals

(* The steps that are of this kind.                                        *)
LEMMA PlainSteps ==
    ASSUME IInv, NEW p \in Procs,
           \/ ReadToken(p) \/ ReadExpiry(p) \/ StoreToken(p) \/ StoreExpiry(p)
           \/ Wait(p) \/ Crash(p)
    PROVE  IInv'
<1>1. /\ proc[p] \in Locals /\ now \in Nat /\ expiries \in Seq(Nat)
      /\ keychain \in [token : 0..Len(expiries), expiry : Nat]
      /\ proc[p].clock <= now /\ proc[p].token <= Len(expiries)
      /\ Len(expiries) \in Nat /\ now + Lifetime \in Nat
      /\ keychain.token \in Nat /\ keychain.token <= Len(expiries)
      /\ keychain.expiry \in Nat
  <2>1. /\ proc \in [Procs -> Locals] /\ now \in Nat /\ expiries \in Seq(Nat)
        /\ keychain \in [token : 0..Len(expiries), expiry : Nat]
        /\ Lifetime \in Nat
    BY ApiAssumption DEF IInv, TypeOK
  <2>2. /\ Len(expiries) \in Nat /\ now + Lifetime \in Nat
        /\ proc[p].clock <= now /\ proc[p].token <= Len(expiries)
    BY <2>1 DEF IInv, ClocksPast, TokensIssued
  <2> QED BY <2>1, <2>2
<1>2. CASE ReadToken(p)
  <2> DEFINE l == [Idle EXCEPT !.pc = "token", !.token = keychain.token]
  <2>1. l \in Locals /\ l.pc = "token" /\ l.clock = 0 /\ l.token = keychain.token
    BY <1>1, IdleLocals DEF Idle, Locals
  <2>2. Become(p, l) /\ UNCHANGED <<now, last, slot, keychain, expiries, calls>>
    BY <1>2 DEF ReadToken, Local
  <2> HIDE DEF l
  <2>3. l.pc \notin {"sleep", "post"} /\ l.clock <= now /\ l.token <= Len(expiries)
    BY <1>1, <2>1
  <2> QED BY <1>1, <2>1, <2>2, <2>3, QuietStep
<1>3. CASE ReadExpiry(p)
  <2> DEFINE l == IF Usable(proc[p].token, keychain.expiry)
                  THEN [proc[p] EXCEPT !.pc = "ready", !.expiry = keychain.expiry]
                  ELSE [Idle EXCEPT !.pc = "claim", !.clock = now]
  <2>1. /\ l \in Locals /\ l.pc \in {"ready", "claim"}
        /\ l.clock <= now /\ l.token <= Len(expiries)
    <3>1. CASE Usable(proc[p].token, keychain.expiry)
      BY <1>1, <3>1 DEF Locals
    <3>2. CASE ~ Usable(proc[p].token, keychain.expiry)
      <4> DEFINE k == [Idle EXCEPT !.pc = "claim", !.clock = now]
      <4>1. l = k
        BY <3>2
      <4> HIDE DEF l
      <4>2. k.pc = "claim" /\ k.clock = now /\ k.token = 0 /\ k.expiry = 0 /\ k.wake = 0
        BY DEF Idle
      <4>3. k \in Locals
        BY <1>1 DEF Idle, Locals
      <4> HIDE DEF k
      <4> QED BY <1>1, <4>1, <4>2, <4>3
    <3> QED BY <3>1, <3>2
  <2>2. Become(p, l) /\ UNCHANGED <<now, last, slot, keychain, expiries, calls>>
    BY <1>3 DEF ReadExpiry, Local
  <2> HIDE DEF l
  <2> QED BY <1>1, <2>1, <2>2, QuietStep
<1>4. CASE StoreToken(p)
  <2> DEFINE l == [proc[p] EXCEPT !.pc = "store", !.expiry = now + Lifetime]
  <2>1. /\ l \in Locals /\ l.pc = "store"
        /\ l.clock = proc[p].clock /\ l.token = proc[p].token
    BY <1>1 DEF Locals
  <2>2. keychain' \in [token : 0..Len(expiries), expiry : Nat]
    <3>1. proc[p].token \in 0..Len(expiries)
      BY <1>1 DEF Locals
    <3>2. keychain' = [keychain EXCEPT !.token = proc[p].token]
      BY <1>4 DEF StoreToken
    <3> QED BY <1>1, <3>1, <3>2
  <2>3. Become(p, l) /\ UNCHANGED <<now, last, slot, expiries, calls>>
    BY <1>4 DEF StoreToken
  <2> HIDE DEF l
  <2>4. l.pc \notin {"sleep", "post"} /\ l.clock <= now /\ l.token <= Len(expiries)
    BY <1>1, <2>1
  <2> QED BY <2>1, <2>2, <2>3, <2>4, QuietStep
<1>5. CASE StoreExpiry(p)
  <2> DEFINE l == [proc[p] EXCEPT !.pc = "ready"]
  <2>1. /\ l \in Locals /\ l.pc = "ready"
        /\ l.clock = proc[p].clock /\ l.token = proc[p].token
    BY <1>1 DEF Locals
  <2>2. keychain' \in [token : 0..Len(expiries), expiry : Nat]
    BY <1>1, <1>5 DEF StoreExpiry, Locals
  <2> QED BY <1>1, <1>5, <2>1, <2>2, QuietStep DEF StoreExpiry
<1>6. CASE Wait(p)
  <2> DEFINE l == [proc[p] EXCEPT !.pc = "reserve", !.clock = now]
  <2>1. l \in Locals /\ l.pc = "reserve" /\ l.clock = now /\ l.token = proc[p].token
    BY <1>1 DEF Locals
  <2>2. Become(p, l) /\ UNCHANGED <<now, last, slot, keychain, expiries, calls>>
    BY <1>6 DEF Wait, Local
  <2> HIDE DEF l
  <2>3. l.pc \notin {"sleep", "post"} /\ l.clock <= now /\ l.token <= Len(expiries)
    BY <1>1, <2>1
  <2> QED BY <1>1, <2>1, <2>2, <2>3, QuietStep
<1>7. CASE Crash(p)
  BY <1>1, <1>7, IdleLocals, QuietStep DEF Crash, Local, Idle
<1> QED BY <1>2, <1>3, <1>4, <1>5, <1>6, <1>7

-----------------------------------------------------------------------------
(* Token requests.                                                         *)

(* The locals that count are the same.                                     *)
LEMMA SleepingSame ==
    ASSUME IInv, NEW p \in Procs, NEW l \in Locals, Become(p, l),
           ~ At(p, "sleep"), l.pc # "sleep"
    PROVE  Sleeping' = Sleeping /\ \A t : Due(t)' = Due(t)
BY DEF IInv, TypeOK, Become, Sleeping, Due, At

(* A process claims the next token request.                                *)
LEMMA ClaimStep ==
    ASSUME IInv, NEW p \in Procs, Claim(p)
    PROVE  IInv'
<1>1. /\ proc \in [Procs -> Locals] /\ proc[p] \in Locals /\ At(p, "claim")
      /\ now \in Nat /\ last \in Int /\ expiries \in Seq(Nat) /\ slot \in Nat
      /\ keychain \in [token : 0..Len(expiries), expiry : Nat]
      /\ calls \in [count : Nat, last : Int]
      /\ proc[p].clock <= now /\ proc[p].clock \in Nat
      /\ proc[p].token <= Len(expiries) /\ Len(expiries) \in Nat
  BY DEF IInv, TypeOK, ClocksPast, TokensIssued, Locals, Claim
<1>2. CASE proc[p].clock - last < TokenInterval
  <2>1. Become(p, Idle) /\ UNCHANGED <<now, last, slot, keychain, expiries, calls>>
    BY <1>2 DEF Claim, Local
  <2>2. Idle.pc \notin {"sleep", "post"} /\ Idle.clock <= now /\ Idle.token <= Len(expiries)
    BY <1>1 DEF Idle
  <2> QED BY <1>1, <2>1, <2>2, IdleLocals, QuietStep
<1>3. CASE ~ (proc[p].clock - last < TokenInterval)
  <2> DEFINE l == [proc[p] EXCEPT !.pc = "post"]
  <2>1. /\ Become(p, l) /\ last' = proc[p].clock
        /\ UNCHANGED <<now, slot, keychain, expiries, calls>>
    BY <1>3 DEF Claim
  <2>2. /\ l \in Locals /\ l.pc = "post"
        /\ l.clock = proc[p].clock /\ l.token = proc[p].token
    BY <1>1 DEF Locals
  <2> HIDE DEF l
  <2>3. Sleeping' = Sleeping /\ \A t : Due(t)' = Due(t)
    BY <1>1, <2>1, <2>2, SleepingSame DEF At
  <2>4. Posting' = Posting \cup {p} /\ p \notin Posting
    BY <1>1, <2>1, <2>2 DEF Become, Posting, At
  <2>5. Cardinality(Posting') = Cardinality(Posting) + 1
    BY <2>4, FiniteParts, OneMore
  <2>6. TypeOK'
    BY <1>1, <2>1, <2>2 DEF TypeOK, Become
  <2>7. Spaced' /\ SlotBeyond'
    BY <2>1, <2>3 DEF IInv, Spaced, SlotBeyond
  <2>8. Claimed'
    <3> DEFINE n == Len(expiries) + Cardinality(Posting) - 1
    <3>1. n \in Int /\ Len(expiries) + Cardinality(Posting') - 1 = n + 1
      <4>1. PICK a \in Nat, b \in Nat, c \in Nat :
              /\ a = Len(expiries) /\ b = Cardinality(Posting)
              /\ c = Cardinality(Posting') /\ c = b + 1
        BY <1>1, <2>5, FiniteParts
      <4>2. a + b - 1 \in Int /\ a + c - 1 = (a + b - 1) + 1
        BY <4>1
      <4> QED BY <4>1, <4>2
    <3>2. TokenInterval * n <= last
      BY DEF IInv, Claimed
    <3> HIDE DEF n
    <3>3. TokenInterval * (n + 1) = TokenInterval * n + TokenInterval
      BY <3>1, TimesNext, ApiAssumption
    <3>4. TokenInterval * n \in Int /\ TokenInterval \in Int
      BY <3>1, ApiAssumption
    <3>5. TokenInterval * (n + 1) <= proc[p].clock
      BY <1>1, <1>3, <3>2, <3>3, <3>4
    <3> QED BY <1>1, <2>1, <3>1, <3>5 DEF Claimed
  <2>9. ClocksPast' /\ TokensIssued'
    BY <1>1, <2>1, <2>2 DEF IInv, ClocksPast, TokensIssued, Become
  <2> QED BY <2>6, <2>7, <2>8, <2>9 DEF IInv
<1> QED BY <1>2, <1>3

(* The request is not a possible one any more, but may be a made one.      *)
LEMMA PostStep ==
    ASSUME IInv, NEW p \in Procs, Post(p)
    PROVE  IInv'
<1>1. /\ proc \in [Procs -> Locals] /\ proc[p] \in Locals /\ At(p, "post")
      /\ now \in Nat /\ last \in Int /\ expiries \in Seq(Nat) /\ slot \in Nat
      /\ keychain \in [token : 0..Len(expiries), expiry : Nat]
      /\ calls \in [count : Nat, last : Int]
      /\ proc[p].clock <= now /\ proc[p].clock \in Nat
      /\ Len(expiries) \in Nat /\ now + Lifetime \in Nat
      /\ Len(expiries) + 1 \in Nat
  <2>1. /\ proc \in [Procs -> Locals] /\ At(p, "post")
        /\ now \in Nat /\ last \in Int /\ expiries \in Seq(Nat) /\ slot \in Nat
        /\ keychain \in [token : 0..Len(expiries), expiry : Nat]
        /\ calls \in [count : Nat, last : Int]
    BY DEF IInv, TypeOK, Post
  <2>2. proc[p] \in Locals /\ proc[p].clock \in Nat
    BY <2>1 DEF Locals
  <2>3. proc[p].clock <= now
    BY DEF IInv, ClocksPast
  <2>4. Len(expiries) \in Nat /\ now + Lifetime \in Nat /\ Len(expiries) + 1 \in Nat
    BY <2>1, ApiAssumption
  <2> QED BY <2>1, <2>2, <2>3, <2>4
<1> DEFINE answered == [proc[p] EXCEPT !.pc = "answer", !.token = Len(expiries) + 1]
<1>2. PICK l \in {Idle, answered} :
        /\ Become(p, l) /\ UNCHANGED <<now, last, slot, keychain, calls>>
        /\ \/ expiries' = Append(expiries, now + Lifetime)
           \/ expiries' = expiries /\ l = Idle
  BY DEF Post
<1>3. /\ l \in Locals /\ l.pc \in {"idle", "answer"} /\ l.clock <= now
      /\ l.token <= Len(expiries')
  <2>1. CASE l = Idle
    BY <1>1, <1>2, <2>1, IdleLocals DEF Idle
  <2>2. CASE l = answered
    <3>1. /\ answered \in Locals /\ answered.pc = "answer"
          /\ answered.clock = proc[p].clock /\ answered.token = Len(expiries) + 1
      BY <1>1 DEF Locals
    <3>2. CASE expiries' = Append(expiries, now + Lifetime)
      BY <1>1, <2>2, <3>1, <3>2
    <3>3. CASE l = Idle
      BY <2>1, <3>3
    <3> QED BY <1>2, <3>2, <3>3
  <2> QED BY <2>1, <2>2
<1> HIDE DEF answered
<1>4. /\ expiries' \in Seq(Nat) /\ Len(expiries') \in Nat
      /\ Len(expiries) <= Len(expiries') /\ Len(expiries') <= Len(expiries) + 1
  <2>1. CASE expiries' = Append(expiries, now + Lifetime)
    BY <1>1, <2>1
  <2>2. CASE expiries' = expiries
    BY <1>1, <2>2
  <2> QED BY <1>2, <2>1, <2>2
<1>5. Sleeping' = Sleeping /\ \A t : Due(t)' = Due(t)
  BY <1>1, <1>2, <1>3, SleepingSame DEF At
<1>6. Posting = Posting' \cup {p} /\ p \notin Posting'
  BY <1>1, <1>2, <1>3 DEF Become, Posting, At
<1>7. /\ Cardinality(Posting') \in Nat
      /\ Cardinality(Posting) = Cardinality(Posting') + 1
  <2>1. IsFiniteSet(Posting')
    BY <1>6, FiniteParts, FS_Subset
  <2> QED BY <1>6, <2>1, OneMore, FS_CardinalityType
<1>8. TypeOK'
  BY <1>1, <1>2, <1>3, <1>4 DEF TypeOK, Become
<1>9. Spaced' /\ SlotBeyond'
  BY <1>2, <1>5 DEF IInv, Spaced, SlotBeyond
<1>10. Claimed'
  <2> DEFINE m == Len(expiries') + Cardinality(Posting') - 1
             n == Len(expiries) + Cardinality(Posting) - 1
  <2>1. m \in Int /\ n \in Int /\ m <= n
    <3>1. Len(expiries) \in Nat
      BY <1>1
    <3> QED BY <1>4, <1>7, <3>1
  <2>2. TokenInterval * n <= last /\ last <= now
    BY DEF IInv, Claimed
  <2> HIDE DEF n
  <2>3. TokenInterval * m <= TokenInterval * n
    <3> HIDE DEF m
    <3> QED BY <2>1, TimesMonotone, ApiAssumption
  <2>4. TokenInterval * m <= last
    <3>1. TokenInterval * m \in Int /\ TokenInterval * n \in Int
      <4> HIDE DEF m
      <4> QED BY <2>1, ApiAssumption
    <3> HIDE DEF m
    <3> QED BY <1>1, <2>2, <2>3, <3>1
  <2> QED BY <1>2, <2>2, <2>4 DEF Claimed
<1>11. ClocksPast' /\ TokensIssued'
  <2>1. \A q \in Procs : proc'[q] = IF q = p THEN l ELSE proc[q]
    BY <1>1, <1>2 DEF Become
  <2>2. \A q \in Procs : proc[q].token \in Nat /\ proc[q].token <= Len(expiries)
    BY <1>1 DEF IInv, TokensIssued, Locals
  <2>3. ClocksPast'
    BY <1>2, <1>3, <2>1 DEF IInv, ClocksPast
  <2>4. TokensIssued'
    <3>1. SUFFICES ASSUME NEW q \in Procs PROVE proc'[q].token <= Len(expiries')
      BY DEF TokensIssued
    <3>2. CASE q = p
      BY <1>3, <2>1, <3>2
    <3>3. CASE q # p
      BY <1>1, <1>4, <2>1, <2>2, <3>3
    <3> QED BY <3>2, <3>3
  <2> QED BY <2>3, <2>4
<1> QED BY <1>8, <1>9, <1>10, <1>11 DEF IInv

-----------------------------------------------------------------------------
(* Requests.                                                               *)

(* The later of two times.                                                 *)
LEMMA MaxOfTwo ==
    ASSUME NEW a \in Nat, NEW b \in Nat
    PROVE  /\ Max({a, b}) \in Nat /\ Max({a, b}) >= a /\ Max({a, b}) >= b
<1>1. \E x \in {a, b} : \A y \in {a, b} : x >= y
  OBVIOUS
<1>2. Max({a, b}) \in {a, b} /\ \A y \in {a, b} : Max({a, b}) >= y
  BY <1>1 DEF Max
<1> QED BY <1>2

(* Steps of the rate limiter leave the token requests alone.               *)
LEMMA PostingSame ==
    ASSUME IInv, NEW p \in Procs, NEW l \in Locals, Become(p, l),
           ~ At(p, "post"), l.pc # "post", UNCHANGED <<now, last, expiries>>,
           l.clock <= now, l.token <= Len(expiries)
    PROVE  Claimed' /\ ClocksPast' /\ TokensIssued'
<1>1. Posting' = Posting
  BY DEF IInv, TypeOK, Become, Posting, At
<1>2. Claimed'
  BY <1>1 DEF IInv, Claimed
<1>3. \A q \in Procs : proc'[q] = IF q = p THEN l ELSE proc[q]
  BY DEF IInv, TypeOK, Become
<1> QED BY <1>2, <1>3 DEF IInv, ClocksPast, TokensIssued

(* A process reserves the next slot.                                       *)
LEMMA ReserveStep ==
    ASSUME IInv, NEW p \in Procs, Reserve(p)
    PROVE  IInv'
<1> DEFINE scheduled == Max({proc[p].clock, slot})
           wake == now + scheduled - proc[p].clock
           l == [proc[p] EXCEPT !.pc = "sleep", !.wake = wake]
<1>1. /\ proc \in [Procs -> Locals] /\ proc[p] \in Locals /\ At(p, "reserve")
      /\ now \in Nat /\ slot \in Nat /\ calls \in [count : Nat, last : Int]
      /\ calls.count \in Nat /\ proc[p].clock \in Nat
      /\ proc[p].clock <= now /\ proc[p].token <= Len(expiries)
  BY DEF IInv, TypeOK, ClocksPast, TokensIssued, Locals, Reserve
<1>2. /\ slot' = scheduled + Spacing /\ Become(p, l)
      /\ UNCHANGED <<now, last, keychain, expiries, calls>>
  BY DEF Reserve
<1>3. /\ scheduled \in Nat /\ scheduled >= proc[p].clock /\ scheduled >= slot
  BY <1>1, MaxOfTwo
<1> HIDE DEF scheduled
<1>4. wake \in Nat /\ scheduled <= wake
  BY <1>1, <1>3
<1> HIDE DEF wake
<1>5. /\ l \in Locals /\ l.pc = "sleep" /\ l.wake = wake
      /\ l.clock = proc[p].clock /\ l.token = proc[p].token
  BY <1>1, <1>4 DEF Locals
<1> HIDE DEF l
<1>6. TypeOK'
  BY <1>1, <1>2, <1>3, <1>5, ApiAssumption DEF IInv, TypeOK, Become
<1>7. \A q \in Procs : proc'[q] = IF q = p THEN l ELSE proc[q]
  BY <1>1, <1>2 DEF Become
<1>8. /\ Sleeping' = Sleeping \cup {p} /\ p \notin Sleeping
      /\ \A t : /\ wake <= t => Due(t)' = Due(t) \cup {p}
                /\ ~ (wake <= t) => Due(t)' = Due(t)
                /\ p \notin Due(t)
  BY <1>1, <1>5, <1>7 DEF Sleeping, Due, At
<1>9. Cardinality(Sleeping') = Cardinality(Sleeping) + 1
  BY <1>8, FiniteParts, OneMore
<1> DEFINE n == calls.count + Cardinality(Sleeping)
<1>10. n \in Nat /\ Spacing \in Nat /\ Spacing * n \in Int /\ Spacing * n <= slot
  BY <1>1, FiniteParts, ApiAssumption DEF IInv, SlotBeyond
<1>11. SlotBeyond'
  <2>1. calls.count + Cardinality(Sleeping') = n + 1
    BY <1>1, <1>9, FiniteParts
  <2> HIDE DEF n
  <2>2. Spacing * (n + 1) = Spacing * n + Spacing
    BY <1>10, TimesNext
  <2>3. Spacing * (n + 1) <= slot'
    BY <1>1, <1>2, <1>3, <1>10, <2>2
  <2> QED BY <1>2, <2>1, <2>3 DEF SlotBeyond
<1>12. Spaced'
  <2> SUFFICES ASSUME NEW t \in Nat, t >= now
               PROVE  Spacing * (calls.count + Cardinality(Due(t)') - 1) <= t
    BY <1>2 DEF Spaced
  <2>1. CASE wake <= t
    <3> DEFINE m == calls.count + Cardinality(Due(t))
    <3>1. calls.count + Cardinality(Due(t)') - 1 = m
      BY <1>1, <1>8, <2>1, FiniteParts, OneMore
    <3>2. m \in Int /\ m <= n
      BY <1>1, FiniteParts
    <3> HIDE DEF m, n
    <3>3. Spacing * m <= Spacing * n /\ Spacing * m \in Int
      BY <1>10, <3>2, TimesMonotone
    <3>4. Spacing * m <= t
      BY <1>1, <1>3, <1>4, <1>10, <2>1, <3>3
    <3> QED BY <3>1, <3>4
  <2>2. CASE ~ (wake <= t)
    BY <1>8, <2>2 DEF IInv, Spaced
  <2> QED BY <2>1, <2>2
<1>13. Claimed' /\ ClocksPast' /\ TokensIssued'
  BY <1>1, <1>2, <1>5, PostingSame DEF At
<1> QED BY <1>6, <1>11, <1>12, <1>13 DEF IInv

(* A request goes out, and leaves the process ready for another or idle.   *)
LEMMA AfterCall ==
    ASSUME IInv, NEW p \in Procs, Call(p) \/ CallPage(p)
    PROVE  /\ Sent(p)
           /\ \E l \in Locals : /\ Become(p, l) /\ l.pc \in {"idle", "ready"}
                               /\ l.clock <= now /\ l.token <= Len(expiries)
<1>1. /\ proc[p] \in Locals /\ proc[p].clock <= now
      /\ proc[p].token <= Len(expiries) /\ Len(expiries) \in Nat /\ now \in Nat
  BY DEF IInv, TypeOK, ClocksPast, TokensIssued
<1>2. /\ Idle \in Locals /\ Idle.pc = "idle" /\ Idle.clock <= now
      /\ Idle.token <= Len(expiries)
  BY <1>1, IdleLocals DEF Idle
<1>3. CASE Call(p)
  <2>1. PICK l : l = [proc[p] EXCEPT !.pc = "ready", !.seen = {}, !.pages = 0]
    OBVIOUS
  <2>2. /\ l \in Locals /\ l.pc = "ready" /\ l.clock = proc[p].clock
        /\ l.token = proc[p].token
    BY <1>1, <2>1 DEF Locals
  <2>3. Sent(p) /\ (Become(p, l) \/ Become(p, Idle))
    BY <1>3, <2>1 DEF Call
  <2> QED BY <1>1, <1>2, <2>2, <2>3
<1>4. CASE CallPage(p)
  <2>1. PICK key \in Key :
          Become(p, IF Repeated(proc[p], key) THEN Idle
                    ELSE [proc[p] EXCEPT !.pc = "ready", !.seen = @ \cup {key},
                                         !.pages = @ + 1])
    BY <1>4 DEF CallPage
  <2>2. PICK l : l = [proc[p] EXCEPT !.pc = "ready",
                                     !.seen = proc[p].seen \cup {key},
                                     !.pages = proc[p].pages + 1]
    OBVIOUS
  <2>3. /\ l \in Locals /\ l.pc = "ready" /\ l.clock = proc[p].clock
        /\ l.token = proc[p].token
    <3>1. proc[p].seen \cup {key} \in SUBSET Key /\ proc[p].pages + 1 \in Nat
      BY <1>1 DEF Locals
    <3>2. PICK S \in SUBSET Key, n \in Nat :
            S = proc[p].seen \cup {key} /\ n = proc[p].pages + 1
      BY <3>1
    <3>3. l = [proc[p] EXCEPT !.pc = "ready", !.seen = S, !.pages = n]
      BY <2>2, <3>2
    <3> QED BY <1>1, <3>3 DEF Locals
  <2>4. Sent(p) /\ (Become(p, l) \/ Become(p, Idle))
    BY <1>1, <1>4, <2>1, <2>2 DEF CallPage, Locals
  <2> QED BY <1>1, <1>2, <2>3, <2>4
<1> QED BY <1>3, <1>4

(* The request is made: it was due already.                                *)
LEMMA CallStep ==
    ASSUME IInv, NEW p \in Procs, Call(p) \/ CallPage(p)
    PROVE  IInv'
<1>0. Sent(p)
  BY AfterCall
<1>1. /\ proc \in [Procs -> Locals] /\ proc[p] \in Locals /\ At(p, "sleep")
      /\ now \in Nat /\ calls \in [count : Nat, last : Int]
      /\ calls.count \in Nat /\ proc[p].wake \in Nat /\ proc[p].wake <= now
      /\ proc[p].clock <= now /\ proc[p].token <= Len(expiries)
      /\ Len(expiries) \in Nat
  BY <1>0 DEF IInv, TypeOK, ClocksPast, TokensIssued, Locals, Sent
<1>2. PICK l \in Locals : /\ Become(p, l) /\ l.pc \in {"idle", "ready"}
                          /\ l.clock <= now /\ l.token <= Len(expiries)
  BY AfterCall
<1>3. /\ calls' = [count |-> calls.count + 1, last |-> now]
      /\ UNCHANGED <<now, last, slot, keychain, expiries>>
  BY <1>0 DEF Sent
<1>4. /\ l \in Locals /\ l.pc \in {"idle", "ready"}
      /\ l.clock <= now /\ l.token <= Len(expiries)
  BY <1>2
<1>5. TypeOK'
  BY <1>1, <1>2, <1>3, <1>4 DEF IInv, TypeOK, Become
<1>6. \A q \in Procs : proc'[q] = IF q = p THEN l ELSE proc[q]
  BY <1>1, <1>2 DEF Become
<1>7. /\ Sleeping = Sleeping' \cup {p} /\ p \notin Sleeping'
      /\ \A t \in Nat : t >= now => Due(t) = Due(t)' \cup {p} /\ p \notin Due(t)'
  BY <1>1, <1>4, <1>6 DEF Sleeping, Due, At
<1>8. /\ IsFiniteSet(Sleeping') /\ Cardinality(Sleeping') \in Nat
      /\ Cardinality(Sleeping) = Cardinality(Sleeping') + 1
  <2>1. IsFiniteSet(Sleeping')
    BY <1>7, FiniteParts, FS_Subset
  <2> QED BY <1>7, <2>1, OneMore, FS_CardinalityType
<1>9. calls'.count = calls.count + 1
  BY <1>3
<1>10. SlotBeyond'
  <2>1. calls'.count + Cardinality(Sleeping') = calls.count + Cardinality(Sleeping)
    BY <1>1, <1>8, <1>9
  <2> QED BY <1>3, <2>1 DEF IInv, SlotBeyond
<1>11. Spaced'
  <2> SUFFICES ASSUME NEW t \in Nat, t >= now
               PROVE  Spacing * (calls'.count + Cardinality(Due(t)') - 1) <= t
    BY <1>3 DEF Spaced
  <2>1. IsFiniteSet(Due(t)')
    BY <1>7, FiniteParts, FS_Subset
  <2>2. /\ Cardinality(Due(t)') \in Nat
        /\ Cardinality(Due(t)) = Cardinality(Due(t)') + 1
    BY <1>7, <2>1, OneMore, FS_CardinalityType
  <2>3. calls'.count + Cardinality(Due(t)') - 1 = calls.count + Cardinality(Due(t)) - 1
    BY <1>1, <1>9, <2>2
  <2> QED BY <2>3 DEF IInv, Spaced
<1>12. Claimed' /\ ClocksPast' /\ TokensIssued'
  BY <1>1, <1>2, <1>3, <1>4, PostingSame DEF At
<1> QED BY <1>5, <1>10, <1>11, <1>12 DEF IInv

-----------------------------------------------------------------------------
(* Time.                                                                   *)

(* Time passes.                                                            *)
LEMMA TickStep ==
    ASSUME IInv, Tick
    PROVE  IInv'
<1>1. now \in Nat /\ now' = now + 1 /\ UNCHANGED <<last, slot, keychain, expiries,
                                                   calls, proc>>
  BY DEF IInv, TypeOK, Tick
<1>2. TypeOK'
  BY <1>1 DEF IInv, TypeOK
<1>3. Sleeping' = Sleeping /\ Posting' = Posting /\ \A t : Due(t)' = Due(t)
  BY <1>1 DEF Sleeping, Posting, Due, At
<1>4. Spaced'
  BY <1>1, <1>3 DEF IInv, Spaced
<1>5. SlotBeyond'
  BY <1>1, <1>3 DEF IInv, SlotBeyond
<1>6. Claimed'
  BY <1>1, <1>3 DEF IInv, TypeOK, Claimed
<1>7. ClocksPast' /\ TokensIssued'
  BY <1>1 DEF IInv, TypeOK, Locals, ClocksPast, TokensIssued
<1> QED BY <1>2, <1>4, <1>5, <1>6, <1>7 DEF IInv

-----------------------------------------------------------------------------
(* Theorems.                                                               *)

(* Nothing was requested at first.                                         *)
LEMMA InitIInv == Init => IInv
<1> SUFFICES ASSUME Init PROVE IInv
  OBVIOUS
<1>1. TypeOK
  BY IdleLocals, ApiAssumption DEF Init, TypeOK
<1>2. /\ Sleeping = {} /\ Posting = {} /\ \A t : Due(t) = {}
  BY DEF Init, Idle, Sleeping, Posting, Due, At
<1>3. /\ Cardinality(Sleeping) = 0 /\ Cardinality(Posting) = 0
      /\ \A t : Cardinality(Due(t)) = 0
  BY <1>2, FS_EmptySet
<1>4. Spaced /\ SlotBeyond
  BY <1>3, ApiAssumption DEF Init, Spaced, SlotBeyond
<1>5. Claimed
  BY <1>3, ApiAssumption DEF Init, Claimed
<1>6. ClocksPast /\ TokensIssued
  BY DEF Init, Idle, ClocksPast, TokensIssued
<1> QED BY <1>1, <1>4, <1>5, <1>6 DEF IInv

(* Every step keeps the invariant.                                         *)
LEMMA NextIInv == IInv /\ [Next]_vars => IInv'
<1> SUFFICES ASSUME IInv, [Next]_vars PROVE IInv'
  OBVIOUS
<1>1. CASE UNCHANGED vars
  BY <1>1 DEF vars, IInv, TypeOK, Spaced, SlotBeyond, Claimed, ClocksPast,
              TokensIssued, Sleeping, Posting, Due, At
<1>2. CASE Next
  BY <1>2, PlainSteps, ClaimStep, PostStep, ReserveStep, CallStep, TickStep DEF Next
<1> QED BY <1>1, <1>2

(* Spaced requests are few per second, and token requests few per minute.  *)
LEMMA IInvBounds == IInv => RateKept /\ TokenRateKept
<1> SUFFICES ASSUME IInv PROVE RateKept /\ TokenRateKept
  OBVIOUS
<1>1. /\ now \in Nat /\ calls.count \in Nat /\ Len(expiries) \in Nat /\ last \in Int
      /\ Spacing \in Nat \ {0} /\ TokenInterval \in Nat \ {0}
  BY ApiAssumption DEF IInv, TypeOK
<1>2. RateKept
  <2> DEFINE k == calls.count
             m == calls.count + Cardinality(Due(now)) - 1
  <2>1. k - 1 \in Int /\ m \in Int /\ k - 1 <= m /\ k \in Int
    BY <1>1, FiniteParts
  <2>2. Spacing * m <= now
    BY <1>1 DEF IInv, Spaced
  <2> HIDE DEF m, k
  <2>3. Spacing * (k - 1) <= Spacing * m /\ Spacing * (k - 1) \in Int /\ Spacing * m \in Int
    BY <1>1, <2>1, TimesMonotone
  <2>4. Spacing * (k - 1) <= now
    BY <1>1, <2>2, <2>3
  <2>5. k <= now \div Spacing + 1
    BY <1>1, <2>1, <2>4, SpacedCount
  <2> QED BY <2>5 DEF k, RateKept
<1>3. TokenRateKept
  <2> DEFINE k == Len(expiries)
             m == Len(expiries) + Cardinality(Posting) - 1
  <2>1. k - 1 \in Int /\ m \in Int /\ k - 1 <= m /\ k \in Int
    BY <1>1, FiniteParts
  <2>2. TokenInterval * m <= last /\ last <= now
    BY <1>1 DEF IInv, Claimed
  <2> HIDE DEF m, k
  <2>3. /\ TokenInterval * (k - 1) <= TokenInterval * m
        /\ TokenInterval * (k - 1) \in Int /\ TokenInterval * m \in Int
    BY <1>1, <2>1, TimesMonotone
  <2>4. TokenInterval * (k - 1) <= now
    BY <1>1, <2>2, <2>3
  <2>5. k <= now \div TokenInterval + 1
    BY <1>1, <2>1, <2>4, SpacedCount
  <2> QED BY <2>5 DEF k, TokenRateKept
<1> QED BY <1>2, <1>3

(* The variables keep their types (access_token, reserve_api_slot).        *)
THEOREM ApiTypes == Spec => []TypeOK
<1>1. IInv => TypeOK
  BY DEF IInv
<1> QED BY <1>1, InitIInv, NextIInv, PTL DEF Spec

(* Any number of processes together never exceed the configured rate of    *)
(* requests (reserve_api_slot, DbSecRateLimiter.wait).                     *)
THEOREM RequestsKeepRate == Spec => []RateKept
<1>1. IInv => RateKept
  BY IInvBounds
<1> QED BY <1>1, InitIInv, NextIInv, PTL DEF Spec

(* Nor that of token requests (claim_oauth_request, issue).                *)
THEOREM TokenRequestsKeepRate == Spec => []TokenRateKept
<1>1. IInv => TokenRateKept
  BY IInvBounds
<1> QED BY <1>1, InitIInv, NextIInv, PTL DEF Spec

-----------------------------------------------------------------------------
(* Tokens.                                                                 *)

(* A process that is about to claim a token request, or has claimed one    *)
(* and not stored its answer; one that has claimed.                        *)
Asking(p) == proc[p].pc \in {"claim", "post", "answer", "store"}
Requesting(p) == proc[p].pc \in {"post", "answer", "store"}

(* The claim of a process lasts until its answer is stored, and no other   *)
(* claims meanwhile.                                                       *)
OneRequest ==
    /\ \A p \in Procs : Asking(p) => now < proc[p].clock + TokenInterval
    /\ \A p \in Procs : Requesting(p) => proc[p].clock = last
    /\ \A p, q \in Procs : Requesting(p) /\ Requesting(q) => p = q

(* What a process with an answer holds: a token issued after its claim,    *)
(* and an expiry that is too late by less than the interval.               *)
AnswersFresh == \A p \in Procs :
    /\ proc[p].pc \in {"answer", "store"} =>
          /\ proc[p].token # 0
          /\ proc[p].clock + Lifetime <= expiries[proc[p].token]
    /\ proc[p].pc = "store" =>
          /\ proc[p].token = keychain.token
          /\ proc[p].expiry <= now + Lifetime
          /\ proc[p].expiry < proc[p].clock + TokenInterval + Lifetime

(* So is the stored expiry, of the new token as of the old one.            *)
KeychainFresh ==
    /\ keychain.expiry <= now + Lifetime
    /\ keychain.token # 0 =>
          keychain.expiry < expiries[keychain.token] + TokenInterval

TokenInv == OneRequest /\ AnswersFresh /\ KeychainFresh

(* The types that the steps below need.                                    *)
LEMMA TokenTypes ==
    ASSUME IInv
    PROVE  /\ now \in Nat /\ last \in Int /\ expiries \in Seq(Nat)
           /\ Len(expiries) \in Nat /\ Lifetime \in Nat
           /\ TokenInterval \in Nat /\ TokenInterval > 0 /\ Margin \in Nat
           /\ TokenInterval <= Margin + 1
           /\ \A n \in 1..Len(expiries) : expiries[n] \in Nat
           /\ keychain.token \in 0..Len(expiries) /\ keychain.expiry \in Nat
           /\ proc \in [Procs -> Locals]
           /\ \A p \in Procs : /\ proc[p].token \in 0..Len(expiries)
                               /\ proc[p].expiry \in Nat
                               /\ proc[p].clock \in Nat /\ proc[p].clock <= now
<1>1. /\ now \in Nat /\ last \in Int /\ expiries \in Seq(Nat)
      /\ Len(expiries) \in Nat /\ proc \in [Procs -> Locals]
      /\ keychain \in [token : 0..Len(expiries), expiry : Nat]
  BY DEF IInv, TypeOK
<1>2. ASSUME NEW p \in Procs
      PROVE  /\ proc[p].token \in 0..Len(expiries) /\ proc[p].expiry \in Nat
             /\ proc[p].clock \in Nat /\ proc[p].clock <= now
  BY <1>1 DEF IInv, Locals, ClocksPast, TokensIssued
<1>3. \A n \in 1..Len(expiries) : expiries[n] \in Nat
  BY <1>1
<1> QED BY <1>1, <1>2, <1>3, ApiAssumption

(* A step of a process that leaves the request of a token, if it had one.  *)
LEMMA TokenQuiet ==
    ASSUME IInv, TokenInv, NEW p \in Procs, NEW l, Become(p, l),
           UNCHANGED <<now, last, keychain, expiries>>,
           l.pc \notin {"claim", "post", "answer", "store"}
    PROVE  TokenInv'
<1>1. /\ proc' = [proc EXCEPT ![p] = l] /\ proc'[p] = l
      /\ \A q \in Procs : q # p => proc'[q] = proc[q]
  BY TokenTypes DEF Become
<1>2. OneRequest'
  BY <1>1 DEF TokenInv, OneRequest, Asking, Requesting
<1>3. AnswersFresh'
  BY <1>1 DEF TokenInv, AnswersFresh
<1> QED BY <1>2, <1>3 DEF TokenInv, KeychainFresh

(* Steps that end elsewhere.                                               *)
LEMMA TokenOtherSteps ==
    ASSUME IInv, TokenInv, NEW p \in Procs,
           \/ ReadToken(p) \/ Wait(p) \/ Reserve(p) \/ Crash(p)
           \/ Call(p) \/ CallPage(p)
    PROVE  TokenInv'
<1>1. PICK l : /\ Become(p, l) /\ UNCHANGED <<now, last, keychain, expiries>>
               /\ l.pc \notin {"claim", "post", "answer", "store"}
  <2>0. proc[p] \in Locals /\ Idle \in Locals
    BY TokenTypes, IdleLocals
  <2>1. CASE ReadToken(p)
    <3>1. PICK l : l = [Idle EXCEPT !.pc = "token", !.token = keychain.token]
      OBVIOUS
    <3>2. l.pc = "token"
      BY <3>1 DEF Idle
    <3> QED BY <2>1, <3>1, <3>2 DEF ReadToken, Local
  <2>2. CASE Wait(p)
    <3>1. PICK l : l = [proc[p] EXCEPT !.pc = "reserve", !.clock = now]
      OBVIOUS
    <3>2. l.pc = "reserve"
      BY <2>0, <3>1 DEF Locals
    <3> QED BY <2>2, <3>1, <3>2 DEF Wait, Local
  <2>3. CASE Reserve(p)
    <3>1. PICK l : l = [proc[p] EXCEPT !.pc = "sleep",
                          !.wake = now + Max({proc[p].clock, slot}) - proc[p].clock]
      OBVIOUS
    <3>2. l.pc = "sleep"
      BY <2>0, <3>1 DEF Locals
    <3> QED BY <2>3, <3>1, <3>2 DEF Reserve
  <2>4. CASE Call(p) \/ CallPage(p)
    <3>1. PICK l \in Locals : Become(p, l) /\ l.pc \in {"idle", "ready"}
      BY <2>4, AfterCall
    <3>2. UNCHANGED <<now, last, keychain, expiries>>
      BY <2>4, AfterCall DEF Sent
    <3> QED BY <3>1, <3>2
  <2>5. CASE Crash(p)
    BY <2>0, <2>5 DEF Crash, Local, Idle
  <2> QED BY <2>1, <2>2, <2>3, <2>4, <2>5
<1> QED BY <1>1, TokenQuiet

(* The stored token and expiry are read: the process has its token, or is  *)
(* about to ask for one.                                                   *)
LEMMA TokenReadExpiry ==
    ASSUME IInv, TokenInv, NEW p \in Procs, ReadExpiry(p)
    PROVE  TokenInv'
<1>1. proc[p] \in Locals /\ now \in Nat /\ TokenInterval > 0 /\ TokenInterval \in Nat
  BY TokenTypes
<1>2. CASE Usable(proc[p].token, keychain.expiry)
  <2>1. PICK l : l = [proc[p] EXCEPT !.pc = "ready", !.expiry = keychain.expiry]
    OBVIOUS
  <2>2. l.pc = "ready"
    BY <1>1, <2>1 DEF Locals
  <2>3. Become(p, l) /\ UNCHANGED <<now, last, keychain, expiries>>
    BY <1>2, <2>1 DEF ReadExpiry, Local
  <2> QED BY <2>2, <2>3, TokenQuiet
<1>3. CASE ~Usable(proc[p].token, keychain.expiry)
  <2>1. PICK l : l = [Idle EXCEPT !.pc = "claim", !.clock = now]
    OBVIOUS
  <2>2. l.pc = "claim" /\ l.clock = now
    BY <2>1 DEF Idle
  <2>3. Become(p, l) /\ UNCHANGED <<now, last, keychain, expiries>>
    BY <1>3, <2>1 DEF ReadExpiry, Local
  <2>4. proc'[p] = l /\ \A q \in Procs : q # p => proc'[q] = proc[q]
    BY <2>3, TokenTypes DEF Become
  <2>5. now < l.clock + TokenInterval
    BY <1>1, <2>2
  <2>6. OneRequest'
    BY <2>2, <2>3, <2>4, <2>5 DEF TokenInv, OneRequest, Asking, Requesting
  <2>7. AnswersFresh'
    BY <2>2, <2>3, <2>4 DEF TokenInv, AnswersFresh
  <2> QED BY <2>3, <2>6, <2>7 DEF TokenInv, KeychainFresh
<1> QED BY <1>2, <1>3

(* A claim is accepted only when the one before it is over.                *)
LEMMA TokenClaim ==
    ASSUME IInv, TokenInv, NEW p \in Procs, Claim(p)
    PROVE  TokenInv'
<1>1. /\ proc[p] \in Locals /\ proc[p].pc = "claim" /\ now \in Nat /\ last \in Int
      /\ proc[p].clock \in Nat /\ proc[p].clock <= now /\ TokenInterval \in Nat
  BY TokenTypes DEF Claim, At
<1>2. CASE proc[p].clock - last < TokenInterval
  <2>1. Become(p, Idle) /\ UNCHANGED <<now, last, keychain, expiries>>
    BY <1>2 DEF Claim, Local
  <2>2. Idle.pc = "idle"
    BY DEF Idle
  <2> QED BY <2>1, <2>2, TokenQuiet
<1>3. CASE ~(proc[p].clock - last < TokenInterval)
  <2>1. PICK l : l = [proc[p] EXCEPT !.pc = "post"]
    OBVIOUS
  <2>2. l.pc = "post" /\ l.clock = proc[p].clock
    BY <1>1, <2>1 DEF Locals
  <2>3. /\ Become(p, l) /\ last' = proc[p].clock
        /\ UNCHANGED <<now, keychain, expiries>>
    BY <1>3, <2>1 DEF Claim
  <2>4. proc'[p] = l /\ \A q \in Procs : q # p => proc'[q] = proc[q]
    BY <2>3, TokenTypes DEF Become
  <2>5. ASSUME NEW q \in Procs, Requesting(q) PROVE FALSE
    <3>1. proc[q].clock = last /\ now < proc[q].clock + TokenInterval
      BY <2>5 DEF TokenInv, OneRequest, Asking, Requesting
    <3> QED BY <1>1, <1>3, <3>1
  <2>6. now < l.clock + TokenInterval
    BY <1>1, <2>2 DEF TokenInv, OneRequest, Asking
  <2>7. OneRequest'
    BY <2>2, <2>3, <2>4, <2>5, <2>6 DEF TokenInv, OneRequest, Asking, Requesting
  <2>8. AnswersFresh'
    BY <2>2, <2>3, <2>4 DEF TokenInv, AnswersFresh
  <2> QED BY <2>3, <2>7, <2>8 DEF TokenInv, KeychainFresh
<1> QED BY <1>2, <1>3

(* A token is issued for its lifetime, after the claim.                    *)
LEMMA TokenPost ==
    ASSUME IInv, TokenInv, NEW p \in Procs, Post(p)
    PROVE  TokenInv'
<1>1. /\ proc[p] \in Locals /\ proc[p].pc = "post" /\ now \in Nat /\ Lifetime \in Nat
      /\ proc[p].clock \in Nat /\ proc[p].clock <= now /\ expiries \in Seq(Nat)
      /\ Len(expiries) \in Nat
      /\ UNCHANGED <<now, last, keychain>>
  BY TokenTypes DEF Post, At
<1>2. PICK n \in Nat : n = Len(expiries) + 1
  BY <1>1
<1>3. PICK l : l = [proc[p] EXCEPT !.pc = "answer", !.token = n]
  OBVIOUS
<1>4. /\ l.pc = "answer" /\ l.token = n /\ l.clock = proc[p].clock
      /\ Idle.pc = "idle"
  BY <1>1, <1>3 DEF Locals, Idle
<1>5. \/ Become(p, l) /\ expiries' = Append(expiries, now + Lifetime)
      \/ Become(p, Idle) /\ expiries' = Append(expiries, now + Lifetime)
      \/ Become(p, Idle) /\ expiries' = expiries
  BY <1>2, <1>3 DEF Post
<1>6. /\ \A k \in 1..Len(expiries) : expiries'[k] = expiries[k]
      /\ Become(p, l) => expiries'[n] = now + Lifetime
  <2>1. now + Lifetime \in Nat
    BY <1>1
  <2>2. expiries' = Append(expiries, now + Lifetime) =>
          /\ \A k \in 1..Len(expiries) : expiries'[k] = expiries[k]
          /\ expiries'[n] = now + Lifetime
    BY <1>1, <1>2, <2>1
  <2>3. Become(p, l) /\ Become(p, Idle) => FALSE
    <3>1. Become(p, l) => proc'[p] = l
      BY TokenTypes DEF Become
    <3>2. Become(p, Idle) => proc'[p] = Idle
      BY TokenTypes DEF Become
    <3> QED BY <1>4, <3>1, <3>2
  <2> QED BY <1>5, <2>2, <2>3
<1>7. /\ proc'[p] = l \/ proc'[p] = Idle
      /\ proc'[p] = l => Become(p, l)
      /\ \A q \in Procs : q # p => proc'[q] = proc[q]
  <2>1. Become(p, l) => /\ proc'[p] = l
                        /\ \A q \in Procs : q # p => proc'[q] = proc[q]
    BY TokenTypes DEF Become
  <2>2. Become(p, Idle) => /\ proc'[p] = Idle
                           /\ \A q \in Procs : q # p => proc'[q] = proc[q]
    BY TokenTypes DEF Become
  <2> QED BY <1>4, <1>5, <2>1, <2>2
<1>8. OneRequest'
  BY <1>1, <1>4, <1>7 DEF TokenInv, OneRequest, Asking, Requesting
<1>9. AnswersFresh'
  <2>1. SUFFICES ASSUME NEW q \in Procs
                 PROVE  /\ proc'[q].pc \in {"answer", "store"} =>
                             /\ proc'[q].token # 0
                             /\ proc'[q].clock + Lifetime <= expiries'[proc'[q].token]
                        /\ proc'[q].pc = "store" =>
                             /\ proc'[q].token = keychain.token
                             /\ proc'[q].expiry <= now + Lifetime
                             /\ proc'[q].expiry
                                  < proc'[q].clock + TokenInterval + Lifetime
    BY <1>1 DEF AnswersFresh
  <2>2. CASE q # p
    <3>1. ~Requesting(q)
      BY <1>1, <2>2 DEF TokenInv, OneRequest, Requesting
    <3> QED BY <1>7, <2>2, <3>1 DEF Requesting
  <2>3. CASE q = p /\ proc'[p] = Idle
    BY <1>4, <2>3
  <2>4. CASE q = p /\ proc'[p] = l
    <3>1. expiries'[n] = now + Lifetime
      BY <1>6, <1>7, <2>4
    <3>2. l.clock + Lifetime <= now + Lifetime
      BY <1>1, <1>4
    <3> QED BY <1>1, <1>2, <1>4, <2>4, <3>1, <3>2
  <2> QED BY <1>7, <2>2, <2>3, <2>4
<1>10. KeychainFresh'
  <2>1. keychain.token # 0 => expiries'[keychain.token] = expiries[keychain.token]
    <3>1. keychain.token \in 0..Len(expiries)
      BY TokenTypes
    <3>2. keychain.token # 0 => keychain.token \in 1..Len(expiries)
      BY <1>1, <3>1
    <3> QED BY <1>6, <3>2
  <2> QED BY <1>1, <2>1 DEF TokenInv, KeychainFresh
<1> QED BY <1>8, <1>9, <1>10 DEF TokenInv

(* The new token is stored beside the old expiry, which was never later    *)
(* than a lifetime from the present.                                       *)
LEMMA TokenStoreToken ==
    ASSUME IInv, TokenInv, NEW p \in Procs, StoreToken(p)
    PROVE  TokenInv'
<1>1. /\ proc[p] \in Locals /\ proc[p].pc = "answer" /\ now \in Nat /\ Lifetime \in Nat
      /\ proc[p].clock \in Nat /\ proc[p].clock <= now /\ TokenInterval \in Nat
      /\ proc[p].token \in 0..Len(expiries) /\ Len(expiries) \in Nat
      /\ keychain \in [token : 0..Len(expiries), expiry : Nat]
      /\ UNCHANGED <<now, last, expiries>>
  BY TokenTypes DEF StoreToken, At, IInv, TypeOK
<1>2. PICK l : l = [proc[p] EXCEPT !.pc = "store", !.expiry = now + Lifetime]
  OBVIOUS
<1>3. /\ l.pc = "store" /\ l.token = proc[p].token /\ l.clock = proc[p].clock
      /\ l.expiry = now + Lifetime
  BY <1>1, <1>2 DEF Locals
<1>4. Become(p, l) /\ keychain' = [keychain EXCEPT !.token = proc[p].token]
  BY <1>2 DEF StoreToken
<1>5. keychain'.token = proc[p].token /\ keychain'.expiry = keychain.expiry
  BY <1>1, <1>4
<1>6. proc'[p] = l /\ \A q \in Procs : q # p => proc'[q] = proc[q]
  BY <1>4, TokenTypes DEF Become
<1>7. /\ proc[p].token # 0 /\ proc[p].clock + Lifetime <= expiries[proc[p].token]
      /\ now < proc[p].clock + TokenInterval
      /\ \A q \in Procs : q # p => ~Requesting(q)
  BY <1>1 DEF TokenInv, OneRequest, AnswersFresh, Asking, Requesting
<1>8. OneRequest'
  BY <1>1, <1>3, <1>6 DEF TokenInv, OneRequest, Asking, Requesting
<1>9. AnswersFresh'
  <2>1. now + Lifetime < proc[p].clock + TokenInterval + Lifetime
    BY <1>1, <1>7
  <2>2. now + Lifetime <= now + Lifetime
    BY <1>1
  <2> QED BY <1>1, <1>3, <1>5, <1>6, <1>7, <2>1, <2>2 DEF AnswersFresh, Requesting
<1>10. KeychainFresh'
  <2>1. keychain.expiry <= now + Lifetime
    BY DEF TokenInv, KeychainFresh
  <2>2. proc[p].token \in 1..Len(expiries)
    BY <1>1, <1>7
  <2>3. expiries[proc[p].token] \in Nat /\ keychain.expiry \in Nat
    BY <2>2, TokenTypes
  <2>4. keychain.expiry < expiries[proc[p].token] + TokenInterval
    <3>1. PICK e \in Nat, x \in Nat, c \in Nat :
            e = expiries[proc[p].token] /\ x = keychain.expiry /\ c = proc[p].clock
      BY <1>1, <2>3
    <3>2. c + Lifetime <= e /\ x <= now + Lifetime /\ now < c + TokenInterval
      BY <1>7, <2>1, <3>1
    <3>3. x < e + TokenInterval
      BY <1>1, <3>2
    <3> QED BY <3>1, <3>3
  <2> QED BY <1>1, <1>5, <2>1, <2>4 DEF KeychainFresh
<1> QED BY <1>8, <1>9, <1>10 DEF TokenInv

(* Its own expiry follows.                                                 *)
LEMMA TokenStoreExpiry ==
    ASSUME IInv, TokenInv, NEW p \in Procs, StoreExpiry(p)
    PROVE  TokenInv'
<1>1. /\ proc[p] \in Locals /\ proc[p].pc = "store" /\ now \in Nat /\ Lifetime \in Nat
      /\ proc[p].clock \in Nat /\ TokenInterval \in Nat /\ proc[p].expiry \in Nat
      /\ proc[p].token \in 0..Len(expiries) /\ Len(expiries) \in Nat
      /\ keychain \in [token : 0..Len(expiries), expiry : Nat]
      /\ UNCHANGED <<now, last, expiries>>
  BY TokenTypes DEF StoreExpiry, At, IInv, TypeOK
<1>2. PICK l : l = [proc[p] EXCEPT !.pc = "ready"]
  OBVIOUS
<1>3. l.pc = "ready"
  BY <1>1, <1>2 DEF Locals
<1>4. Become(p, l) /\ keychain' = [keychain EXCEPT !.expiry = proc[p].expiry]
  BY <1>2 DEF StoreExpiry
<1>5. keychain'.token = keychain.token /\ keychain'.expiry = proc[p].expiry
  BY <1>1, <1>4
<1>6. proc'[p] = l /\ \A q \in Procs : q # p => proc'[q] = proc[q]
  BY <1>4, TokenTypes DEF Become
<1>7. /\ proc[p].token # 0 /\ proc[p].clock + Lifetime <= expiries[proc[p].token]
      /\ proc[p].token = keychain.token /\ proc[p].expiry <= now + Lifetime
      /\ proc[p].expiry < proc[p].clock + TokenInterval + Lifetime
      /\ \A q \in Procs : q # p => ~Requesting(q)
  BY <1>1 DEF TokenInv, OneRequest, AnswersFresh, Requesting
<1>8. OneRequest'
  BY <1>1, <1>3, <1>6 DEF TokenInv, OneRequest, Asking, Requesting
<1>9. AnswersFresh'
  BY <1>3, <1>6, <1>7 DEF AnswersFresh, Requesting
<1>10. KeychainFresh'
  <2>1. proc[p].token \in 1..Len(expiries)
    BY <1>1, <1>7
  <2>2. expiries[proc[p].token] \in Nat
    BY <2>1, TokenTypes
  <2>3. proc[p].expiry < expiries[proc[p].token] + TokenInterval
    <3>1. PICK e \in Nat, x \in Nat, c \in Nat :
            e = expiries[proc[p].token] /\ x = proc[p].expiry /\ c = proc[p].clock
      BY <1>1, <2>2
    <3>2. c + Lifetime <= e /\ x < c + TokenInterval + Lifetime
      BY <1>7, <3>1
    <3>3. x < e + TokenInterval
      BY <1>1, <3>2
    <3> QED BY <3>1, <3>3
  <2> QED BY <1>1, <1>5, <1>7, <2>3 DEF KeychainFresh
<1> QED BY <1>8, <1>9, <1>10 DEF TokenInv

(* A token request is over before the next one may be claimed.             *)
LEMMA TokenTick ==
    ASSUME IInv, TokenInv, Tick
    PROVE  TokenInv'
<1>1. /\ now' = now + 1 /\ UNCHANGED <<last, keychain, expiries, proc>>
      /\ \A p \in Procs : Asking(p) => now + 1 < proc[p].clock + TokenInterval
  BY DEF Tick, Asking
<1>2. /\ now \in Nat /\ Lifetime \in Nat /\ keychain.expiry \in Nat
      /\ \A p \in Procs : proc[p].expiry \in Nat
  BY TokenTypes
<1>3. OneRequest'
  BY <1>1 DEF TokenInv, OneRequest, Asking, Requesting
<1>4. \A e \in Nat : e <= now + Lifetime => e <= now + 1 + Lifetime
  BY <1>2
<1>5. AnswersFresh'
  BY <1>1, <1>2, <1>4 DEF TokenInv, AnswersFresh
<1>6. KeychainFresh'
  BY <1>1, <1>2, <1>4 DEF TokenInv, KeychainFresh
<1> QED BY <1>3, <1>5, <1>6 DEF TokenInv

(* Tokens are known to be fresh in every reachable state.                  *)
LEMMA AlwaysTokenInv == Spec => [](IInv /\ TokenInv)
<1>1. Init => TokenInv
  <2>1. Lifetime \in Nat
    BY ApiAssumption
  <2> QED BY <2>1 DEF Init, Idle, TokenInv, OneRequest, AnswersFresh, KeychainFresh,
                      Asking, Requesting
<1>2. IInv /\ TokenInv /\ [Next]_vars => TokenInv'
  <2> SUFFICES ASSUME IInv, TokenInv, [Next]_vars PROVE TokenInv'
    OBVIOUS
  <2>1. CASE UNCHANGED vars
    BY <2>1 DEF vars, TokenInv, OneRequest, AnswersFresh, KeychainFresh, Asking,
                Requesting
  <2>2. CASE Next
    BY <2>2, TokenOtherSteps, TokenReadExpiry, TokenClaim, TokenPost, TokenStoreToken,
       TokenStoreExpiry, TokenTick DEF Next
  <2> QED BY <2>1, <2>2
<1> QED BY <1>1, <1>2, InitIInv, NextIInv, PTL DEF Spec

(* A process that goes on with the stored token has one that is valid,     *)
(* wherever another dies or is held up while it stores a new one           *)
(* (access_token, issue, claim_oauth_request).                             *)
THEOREM StoredTokensAreFresh == Spec => TokenFresh
<1>1. ASSUME IInv, TokenInv, NEW p \in Procs, ReadExpiry(p), proc'[p].pc = "ready",
             proc[p].token = keychain.token
      PROVE  expiries[proc[p].token] > now
  <2>1. Usable(proc[p].token, keychain.expiry)
    <3>1. SUFFICES ASSUME ~Usable(proc[p].token, keychain.expiry) PROVE FALSE
      OBVIOUS
    <3>2. PICK l : l = [Idle EXCEPT !.pc = "claim", !.clock = now]
      OBVIOUS
    <3>3. Become(p, l) /\ l.pc = "claim"
      BY <1>1, <3>1, <3>2 DEF ReadExpiry, Local, Idle
    <3>4. proc'[p] = l
      BY <3>3, TokenTypes, <1>1 DEF Become
    <3> QED BY <1>1, <3>3, <3>4
  <2>2. keychain.token # 0 /\ keychain.expiry > now + Margin
    BY <1>1, <2>1 DEF Usable
  <2>3. keychain.expiry < expiries[keychain.token] + TokenInterval
    BY <1>1, <2>2 DEF TokenInv, KeychainFresh
  <2>4. /\ now \in Nat /\ Margin \in Nat /\ TokenInterval \in Nat
        /\ TokenInterval <= Margin + 1 /\ keychain.expiry \in Nat
        /\ expiries[keychain.token] \in Nat
    <3>1. keychain.token \in 0..Len(expiries) /\ Len(expiries) \in Nat
      BY <1>1, TokenTypes
    <3>2. keychain.token \in 1..Len(expiries)
      BY <2>2, <3>1
    <3> QED BY <1>1, <3>2, TokenTypes
  <2> QED BY <1>1, <2>2, <2>3, <2>4
<1>2. IInv /\ TokenInv /\ [Next]_vars => [\A p \in Procs :
         /\ ReadExpiry(p) /\ proc'[p].pc = "ready"
         /\ proc[p].token = keychain.token
         => expiries[proc[p].token] > now]_vars
  BY <1>1
<1> QED BY <1>2, AlwaysTokenInv, PTL DEF Spec, TokenFresh

-----------------------------------------------------------------------------
(* Pages of an inquiry.                                                    *)

(* A process has received one page for each key it has seen.               *)
PagesKnown ==
    \A p \in Procs : /\ IsFiniteSet(proc[p].seen)
                     /\ proc[p].pages = Cardinality(proc[p].seen)

(* A process drops its inquiry, stays with the pages it has, or goes on    *)
(* with a key it has not seen.                                             *)
PageStep(p, l) ==
    /\ Become(p, l)
    /\ \/ l.seen = {} /\ l.pages = 0
       \/ l.seen = proc[p].seen /\ l.pages = proc[p].pages
       \/ \E key \in Key \ proc[p].seen :
            l.seen = proc[p].seen \cup {key} /\ l.pages = proc[p].pages + 1

(* The local steps of a process are such steps.                            *)
LEMMA PageSteps ==
    ASSUME TypeOK, NEW p \in Procs,
           \/ ReadToken(p) \/ ReadExpiry(p) \/ Claim(p) \/ Post(p)
           \/ StoreToken(p) \/ StoreExpiry(p)
           \/ Wait(p) \/ Reserve(p) \/ Call(p) \/ CallPage(p) \/ Crash(p)
    PROVE  \E l : PageStep(p, l)
<1>1. proc[p] \in Locals /\ Idle.seen = {} /\ Idle.pages = 0
  BY DEF TypeOK, Idle
<1>2. \A l, m : /\ Become(p, l) /\ (l = m \/ l = Idle)
                /\ m.seen = {} /\ m.pages = 0
                => PageStep(p, l)
  BY <1>1 DEF PageStep
<1>3. \A l, m : /\ Become(p, l) /\ (l = m \/ l = Idle)
                /\ m.seen = proc[p].seen /\ m.pages = proc[p].pages
                => PageStep(p, l)
  BY <1>1 DEF PageStep
<1>4. CASE ReadToken(p)
  <2>1. PICK m : m = [Idle EXCEPT !.pc = "token", !.token = keychain.token]
    OBVIOUS
  <2>2. m.seen = {} /\ m.pages = 0
    BY <2>1 DEF Idle
  <2> QED BY <1>2, <1>4, <2>1, <2>2 DEF ReadToken, Local
<1>5. CASE ReadExpiry(p)
  <2>1. PICK m : m = [proc[p] EXCEPT !.pc = "ready", !.expiry = keychain.expiry]
    OBVIOUS
  <2>2. PICK n : n = [Idle EXCEPT !.pc = "claim", !.clock = now]
    OBVIOUS
  <2>3. /\ m.seen = proc[p].seen /\ m.pages = proc[p].pages
        /\ n.seen = {} /\ n.pages = 0
    BY <1>1, <2>1, <2>2 DEF Idle, Locals
  <2>4. Become(p, m) \/ Become(p, n)
    BY <1>5, <2>1, <2>2 DEF ReadExpiry, Local
  <2> QED BY <1>2, <1>3, <2>3, <2>4
<1>6. CASE Claim(p)
  <2>1. PICK m : m = [proc[p] EXCEPT !.pc = "post"]
    OBVIOUS
  <2>2. m.seen = proc[p].seen /\ m.pages = proc[p].pages
    BY <1>1, <2>1 DEF Locals
  <2>3. Become(p, m) \/ Become(p, Idle)
    BY <1>6, <2>1 DEF Claim, Local
  <2> QED BY <1>3, <2>2, <2>3
<1>7. CASE Post(p)
  <2>1. PICK m : m = [proc[p] EXCEPT !.pc = "answer", !.token = Len(expiries) + 1]
    OBVIOUS
  <2>2. m.seen = proc[p].seen /\ m.pages = proc[p].pages
    BY <1>1, <2>1 DEF Locals
  <2>3. Become(p, m) \/ Become(p, Idle)
    BY <1>7, <2>1 DEF Post
  <2> QED BY <1>3, <2>2, <2>3
<1>8. CASE StoreToken(p)
  <2>1. PICK m : m = [proc[p] EXCEPT !.pc = "store", !.expiry = now + Lifetime]
    OBVIOUS
  <2>2. m.seen = proc[p].seen /\ m.pages = proc[p].pages
    BY <1>1, <2>1 DEF Locals
  <2> QED BY <1>3, <1>8, <2>1, <2>2 DEF StoreToken
<1>9. CASE StoreExpiry(p)
  <2>1. PICK m : m = [proc[p] EXCEPT !.pc = "ready"]
    OBVIOUS
  <2>2. m.seen = proc[p].seen /\ m.pages = proc[p].pages
    BY <1>1, <2>1 DEF Locals
  <2> QED BY <1>3, <1>9, <2>1, <2>2 DEF StoreExpiry
<1>10. CASE Wait(p)
  <2>1. PICK m : m = [proc[p] EXCEPT !.pc = "reserve", !.clock = now]
    OBVIOUS
  <2>2. m.seen = proc[p].seen /\ m.pages = proc[p].pages
    BY <1>1, <2>1 DEF Locals
  <2> QED BY <1>3, <1>10, <2>1, <2>2 DEF Wait, Local
<1>11. CASE Reserve(p)
  <2>1. PICK m : m = [proc[p] EXCEPT !.pc = "sleep",
                        !.wake = now + Max({proc[p].clock, slot}) - proc[p].clock]
    OBVIOUS
  <2>2. m.seen = proc[p].seen /\ m.pages = proc[p].pages
    BY <1>1, <2>1 DEF Locals
  <2> QED BY <1>3, <1>11, <2>1, <2>2 DEF Reserve
<1>12. CASE Call(p)
  <2>1. PICK m : m = [proc[p] EXCEPT !.pc = "ready", !.seen = {}, !.pages = 0]
    OBVIOUS
  <2>2. m.seen = {} /\ m.pages = 0
    BY <1>1, <2>1 DEF Locals
  <2>3. Become(p, m) \/ Become(p, Idle)
    BY <1>12, <2>1 DEF Call
  <2> QED BY <1>2, <2>2, <2>3
<1>13. CASE CallPage(p)
  <2>1. PICK key \in Key :
          Become(p, IF Repeated(proc[p], key) THEN Idle
                    ELSE [proc[p] EXCEPT !.pc = "ready", !.seen = @ \cup {key},
                                         !.pages = @ + 1])
    BY <1>13 DEF CallPage
  <2>2. PICK m : m = [proc[p] EXCEPT !.pc = "ready", !.seen = @ \cup {key},
                                     !.pages = @ + 1]
    OBVIOUS
  <2>3. m.seen = proc[p].seen \cup {key} /\ m.pages = proc[p].pages + 1
    BY <1>1, <2>2 DEF Locals
  <2>4. Become(p, Idle) \/ (Become(p, m) /\ key \notin proc[p].seen)
    BY <2>1, <2>2 DEF Repeated
  <2> QED BY <1>1, <2>3, <2>4 DEF PageStep
<1>14. CASE Crash(p)
  BY <1>1, <1>14 DEF Crash, Local, PageStep
<1> QED BY <1>4, <1>5, <1>6, <1>7, <1>8, <1>9, <1>10, <1>11, <1>12, <1>13, <1>14

(* Such a step keeps the count.                                            *)
LEMMA PageStepKnown ==
    ASSUME TypeOK, PagesKnown, NEW p \in Procs, NEW l, PageStep(p, l)
    PROVE  PagesKnown'
<1>1. /\ proc' = [proc EXCEPT ![p] = l] /\ proc'[p] = l
      /\ \A q \in Procs : q # p => proc'[q] = proc[q]
  BY DEF PageStep, Become, TypeOK
<1>2. IsFiniteSet(l.seen) /\ l.pages = Cardinality(l.seen)
  <2>1. IsFiniteSet(proc[p].seen) /\ proc[p].pages = Cardinality(proc[p].seen)
    BY DEF PagesKnown
  <2>2. CASE l.seen = {} /\ l.pages = 0
    BY <2>2, FS_EmptySet
  <2>3. CASE l.seen = proc[p].seen /\ l.pages = proc[p].pages
    BY <2>1, <2>3
  <2>4. CASE \E key \in Key \ proc[p].seen :
               l.seen = proc[p].seen \cup {key} /\ l.pages = proc[p].pages + 1
    <3>1. PICK key \in Key \ proc[p].seen :
            l.seen = proc[p].seen \cup {key} /\ l.pages = proc[p].pages + 1
      BY <2>4
    <3> QED BY <2>1, <3>1, FS_AddElement
  <2> QED BY <2>2, <2>3, <2>4 DEF PageStep
<1>3. ASSUME NEW q \in Procs
      PROVE  IsFiniteSet(proc'[q].seen) /\ proc'[q].pages = Cardinality(proc'[q].seen)
  BY <1>1, <1>2 DEF PagesKnown
<1> QED BY <1>3 DEF PagesKnown

(* However the broker answers, and whatever the other processes do, an     *)
(* inquiry ends after at most one page more than there are keys            *)
(* (_all_pages).                                                           *)
THEOREM PagesAreBounded == Spec => []InquiriesBounded
<1>1. Init => PagesKnown
  <2> SUFFICES ASSUME Init, NEW p \in Procs
               PROVE  /\ IsFiniteSet(proc[p].seen)
                      /\ proc[p].pages = Cardinality(proc[p].seen)
    BY DEF PagesKnown
  <2>1. proc[p].seen = {} /\ proc[p].pages = 0
    BY DEF Init, Idle
  <2> QED BY <2>1, FS_EmptySet
<1>2. IInv /\ PagesKnown /\ [Next]_vars => PagesKnown'
  <2> SUFFICES ASSUME IInv, PagesKnown, [Next]_vars PROVE PagesKnown'
    OBVIOUS
  <2>1. CASE UNCHANGED vars \/ Tick
    BY <2>1 DEF vars, Tick, PagesKnown
  <2>2. CASE \E p \in Procs :
               \/ ReadToken(p) \/ ReadExpiry(p) \/ Claim(p) \/ Post(p)
               \/ StoreToken(p) \/ StoreExpiry(p)
               \/ Wait(p) \/ Reserve(p) \/ Call(p) \/ CallPage(p) \/ Crash(p)
    BY <2>2, PageSteps, PageStepKnown DEF IInv
  <2> QED BY <2>1, <2>2 DEF Next
<1>3. IInv /\ PagesKnown => InquiriesBounded
  <2> SUFFICES ASSUME IInv, PagesKnown, NEW p \in Procs
               PROVE  proc[p].pages <= Cardinality(Key)
    BY DEF InquiriesBounded
  <2>1. proc[p].seen \subseteq Key /\ proc[p].pages = Cardinality(proc[p].seen)
    BY DEF IInv, TypeOK, Locals, PagesKnown
  <2> QED BY <2>1, FS_Subset, ApiAssumption
<1> QED BY <1>1, <1>2, <1>3, InitIInv, NextIInv, PTL DEF Spec
=============================================================================
