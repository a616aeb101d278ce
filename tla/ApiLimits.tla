----------------------------- MODULE ApiLimits -----------------------------
(***************************************************************************)
(* What processes share when they call DB Securities: the access token in  *)
(* the OS keychain (auth.py), one token request per TokenInterval, and the *)
(* spacing of all other requests (rate_limit.py), both kept in two rows of *)
(* settings.  Time passes between any two steps.                           *)
(*                                                                         *)
(* A broker is built with a token first (_read_only_broker) and then calls *)
(* the rate limiter before every request.  An inquiry takes as many        *)
(* requests as the continuation keys in the answers ask for (_all_pages).  *)
(***************************************************************************)
EXTENDS Integers, Sequences, FiniteSets, FiniteSetsExt

CONSTANTS
    Procs,          \* processes
    TokenInterval,  \* between token requests: 60 seconds
    Spacing,        \* minimum_interval of the rate limiter
    Margin,         \* a token is reused while it lasts longer: 5 minutes
    Lifetime,       \* of a token
    Key,            \* continuation keys the broker may answer with
    MaxTime,        \* bound on the clock
    MaxAhead,       \* bound on the slots reserved ahead of the clock
    Crashes         \* TRUE when processes may die

ASSUME ApiAssumption ==
    /\ IsFiniteSet(Procs) /\ IsFiniteSet(Key)
    /\ TokenInterval \in Nat \ {0} /\ Spacing \in Nat \ {0}
    /\ Margin \in Nat /\ Lifetime \in Nat /\ MaxTime \in Nat /\ MaxAhead \in Nat
    /\ TokenInterval <= Margin + 1
    /\ Crashes \in BOOLEAN

VARIABLES
    now,       \* the clock
    last,      \* settings: oauth_last_request_at
    slot,      \* settings: api_next_request_at
    keychain,  \* access_token (0: none) and access_token_expires_at
    expiries,  \* DB Securities: when the tokens it issued expire
    calls,     \* history: number of requests and time of the last one
    proc       \* processes: program counter and locals

vars == <<now, last, slot, keychain, expiries, calls, proc>>

Locals == [pc : {"idle", "token", "claim", "post", "answer", "store",
                 "ready", "reserve", "sleep"},
           token : Nat, expiry : Nat,   \* as read, or as received
           clock : Nat, wake : Nat,     \* the clock as read; end of the sleep
           seen : SUBSET Key,           \* seen_keys of the inquiry
           pages : Nat]                 \* history: pages it has received

(* Type invariant.                                                         *)
TypeOK ==
    /\ now \in Nat
    /\ last \in Int
    /\ slot \in Nat
    /\ keychain \in [token : 0..Len(expiries), expiry : Nat]
    /\ expiries \in Seq(Nat)
    /\ calls \in [count : Nat, last : Int]
    /\ proc \in [Procs -> Locals]

Idle == [pc |-> "idle", token |-> 0, expiry |-> 0, clock |-> 0, wake |-> 0,
         seen |-> {}, pages |-> 0]

(* No row, no secret: any first request is late enough.                    *)
Init ==
    /\ now = 0
    /\ last = -TokenInterval
    /\ slot = 0
    /\ keychain = [token |-> 0, expiry |-> 0]
    /\ expiries = <<>>
    /\ calls = [count |-> 0, last |-> -Spacing]
    /\ proc = [p \in Procs |-> Idle]

At(p, label) == proc[p].pc = label
Become(p, l) == proc' = [proc EXCEPT ![p] = l]
Local(p, l) == Become(p, l) /\ UNCHANGED <<now, last, slot, keychain, expiries,
                                           calls>>

(***************************************************************************)
(* DbSecTokenManager.access_token and issue.                               *)
(***************************************************************************)

ReadToken(p) ==
    /\ At(p, "idle")
    /\ Local(p, [Idle EXCEPT !.pc = "token", !.token = keychain.token])

(* Mutant: no margin.                                                      *)
UsableToTheEnd(token, expiry) == token # 0 /\ expiry > now

Usable(token, expiry) == token # 0 /\ expiry > now + Margin

ReadExpiry(p) ==
    LET l == proc[p] IN
    /\ At(p, "token")
    /\ Local(p, IF Usable(l.token, keychain.expiry)
                THEN [l EXCEPT !.pc = "ready", !.expiry = keychain.expiry]
                ELSE [Idle EXCEPT !.pc = "claim", !.clock = now])

(* Mutant: the last request is not looked at.                              *)
ClaimAnyTime(p) ==
    /\ At(p, "claim")
    /\ last' = proc[p].clock
    /\ Become(p, [proc[p] EXCEPT !.pc = "post"])
    /\ UNCHANGED <<now, slot, keychain, expiries, calls>>

(* claim_oauth_request, with the clock read before the transaction; a      *)
(* refused claim raises.                                                   *)
Claim(p) ==
    /\ At(p, "claim")
    /\ IF proc[p].clock - last < TokenInterval
       THEN Local(p, Idle)
       ELSE /\ last' = proc[p].clock
            /\ Become(p, [proc[p] EXCEPT !.pc = "post"])
            /\ UNCHANGED <<now, slot, keychain, expiries, calls>>

(* DB Securities issues a token, whose answer may get lost, or refuses.    *)
Post(p) ==
    /\ At(p, "post")
    /\ \/ /\ expiries' = Append(expiries, now + Lifetime)
          /\ \/ Become(p, [proc[p] EXCEPT !.pc = "answer",
                                          !.token = Len(expiries) + 1])
             \/ Become(p, Idle)
       \/ Become(p, Idle) /\ UNCHANGED expiries
    /\ UNCHANGED <<now, last, slot, keychain, calls>>

(* The expiry is counted from the answer; the two secrets are written one  *)
(* after the other.                                                        *)
StoreToken(p) ==
    /\ At(p, "answer")
    /\ keychain' = [keychain EXCEPT !.token = proc[p].token]
    /\ Become(p, [proc[p] EXCEPT !.pc = "store", !.expiry = now + Lifetime])
    /\ UNCHANGED <<now, last, slot, expiries, calls>>

StoreExpiry(p) ==
    /\ At(p, "store")
    /\ keychain' = [keychain EXCEPT !.expiry = proc[p].expiry]
    /\ Become(p, [proc[p] EXCEPT !.pc = "ready"])
    /\ UNCHANGED <<now, last, slot, expiries, calls>>

(***************************************************************************)
(* DbSecRateLimiter.wait and the request after it.                         *)
(***************************************************************************)

Wait(p) ==
    /\ At(p, "ready")
    /\ Local(p, [proc[p] EXCEPT !.pc = "reserve", !.clock = now])

(* Mutants: the sleep has the wrong sign; the reserved slot is not read.   *)
ReserveBackwards(p) ==
    LET scheduled == Max({proc[p].clock, slot}) IN
    /\ At(p, "reserve") /\ scheduled <= now + MaxAhead
    /\ slot' = scheduled + Spacing
    /\ Become(p, [proc[p] EXCEPT !.pc = "sleep",
                                 !.wake = now + proc[p].clock - scheduled])
    /\ UNCHANGED <<now, last, keychain, expiries, calls>>

ReserveAtOnce(p) ==
    /\ At(p, "reserve")
    /\ slot' = proc[p].clock + Spacing
    /\ Become(p, [proc[p] EXCEPT !.pc = "sleep", !.wake = now])
    /\ UNCHANGED <<now, last, keychain, expiries, calls>>

(* reserve_api_slot: the first time that is free, and not before the clock *)
(* the caller read; then the caller sleeps for the difference.             *)
Reserve(p) ==
    LET scheduled == Max({proc[p].clock, slot}) IN
    /\ At(p, "reserve") /\ scheduled <= now + MaxAhead
    /\ slot' = scheduled + Spacing
    /\ Become(p, [proc[p] EXCEPT !.pc = "sleep",
                                 !.wake = now + scheduled
                                                    - proc[p].clock])
    /\ UNCHANGED <<now, last, keychain, expiries, calls>>

(* A request goes out.                                                     *)
Sent(p) ==
    /\ At(p, "sleep") /\ now >= proc[p].wake
    /\ calls' = [count |-> calls.count + 1, last |-> now]
    /\ UNCHANGED <<now, last, slot, keychain, expiries>>

(* Its answer is the whole one, or the last page: the command makes        *)
(* another request or ends.                                                *)
Call(p) ==
    /\ Sent(p)
    /\ \/ Become(p, [proc[p] EXCEPT !.pc = "ready", !.seen = {}, !.pages = 0])
       \/ Become(p, Idle)

(* Mutant: keys are not compared.                                          *)
NeverRepeated(l, key) == FALSE

Repeated(l, key) == key \in l.seen

(* The answer has a continuation key: the next page is asked for, unless   *)
(* the key has come before, which ends the command.                        *)
CallPage(p) ==
    LET l == proc[p] IN
    /\ Sent(p)
    /\ \E key \in Key :
          Become(p, IF Repeated(l, key) THEN Idle
                    ELSE [l EXCEPT !.pc = "ready", !.seen = @ \cup {key},
                                   !.pages = @ + 1])

Crash(p) ==
    /\ Crashes /\ ~At(p, "idle")
    /\ Local(p, Idle)

(* Time passes.  A token request has a timeout that is far below           *)
(* TokenInterval, so its answer is stored before the next claim.           *)
Tick ==
    /\ now < MaxTime
    /\ \A p \in Procs : proc[p].pc \in {"claim", "post", "answer", "store"}
                          => now + 1 < proc[p].clock + TokenInterval
    /\ now' = now + 1
    /\ UNCHANGED <<last, slot, keychain, expiries, calls, proc>>

Next ==
    \/ \E p \in Procs :
          \/ ReadToken(p) \/ ReadExpiry(p) \/ Claim(p) \/ Post(p)
          \/ StoreToken(p) \/ StoreExpiry(p)
          \/ Wait(p) \/ Reserve(p) \/ Call(p) \/ CallPage(p) \/ Crash(p)
    \/ Tick

Spec == Init /\ [][Next]_vars

(***************************************************************************)
(* Properties.                                                             *)
(***************************************************************************)

(* Whatever the processes do and however long they are held up: up to any  *)
(* moment no more requests went out than the spacing allows.               *)
RateKept == calls.count <= now \div Spacing + 1

(* The same for token requests.                                            *)
TokenRateKept == Len(expiries) <= now \div TokenInterval + 1

(* _all_pages: whatever keys the broker answers with, in whatever order    *)
(* and however often, an inquiry asks for no more pages than there are     *)
(* keys and one, so it ends.                                               *)
InquiriesBounded == \A p \in Procs : proc[p].pages <= Cardinality(Key)

(* access_token: a process that goes on with a token that is still the     *)
(* stored one has one that is valid - the stored expiry is counted from    *)
(* the answer and so is too late, but by less than Margin, and a process   *)
(* that dies between the two keychain writes leaves a new token with an    *)
(* old expiry, never the other way round.  (A token that is replaced       *)
(* between the two reads is not covered: it is judged by the expiry of     *)
(* its successor.)                                                         *)
TokenFresh ==
    [][\A p \in Procs :
         /\ ReadExpiry(p) /\ proc'[p].pc = "ready"
         /\ proc[p].token = keychain.token
         => expiries[proc[p].token] > now]_vars
=============================================================================
