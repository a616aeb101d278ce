------------------------------ MODULE Weather -------------------------------
(***************************************************************************)
(* `weather update` (cli.py, weather.py): the command opens the store,     *)
(* computes the weather of every session in a sliding window of candles    *)
(* and saves it row by row, each row in a transaction of its own, over the *)
(* rows of earlier updates.  The readiness check looks at the newest row.  *)
(*                                                                         *)
(* Sessions are numbered.  What the indicators of a session say is its     *)
(* signal: the regime red or orange (stress), green (yellow and            *)
(* strong_green stand with it), or green with all the conditions of an     *)
(* early thaw but the stress before it.  The lowest and highest close of   *)
(* the year are taken from the candles of the window, so a signal depends  *)
(* on how many of the sessions of that year the window has; otherwise it   *)
(* does not depend on when it is computed (the candles are adjusted).      *)
(***************************************************************************)
EXTENDS Schema, FiniteSetsExt

CONSTANTS
    WindowLength,     \* sessions in the 800 days before the last one
    YearLength,       \* sessions of a 52-week low or high (252)
    MinimumSessions,  \* MINIMUM_WEATHER_SESSIONS
    StressMemory,     \* sessions a stress is remembered for (60)
    FirstEnd,         \* last completed session at first
    LastSession,      \* bound on the sessions
    Markets(_),       \* what the sessions of a setup say
    FirstCandle(_),   \* first session of the youngest symbol in a setup
    NoSnapshot        \* absence of a row

Session == 1..LastSession
Signal == {"red", "orange", "green", "thawing"}
WeatherState == {"red", "orange", "green", "early_thaw"}
Snapshot == [state : WeatherState, duration : Session]

ASSUME WeatherAssumption ==
    /\ MinimumSessions \in Nat \ {0} /\ StressMemory \in Nat
    /\ WindowLength \in Nat /\ FirstEnd \in Nat /\ LastSession \in Nat
    /\ YearLength \in Nat /\ MinimumSessions <= YearLength
    /\ WindowLength <= FirstEnd /\ FirstEnd <= LastSession
    /\ \A s \in Setups :
          /\ Markets(s) \subseteq [Session -> [1..YearLength -> Signal]]
          /\ FirstCandle(s) \in Nat \ {0}
    /\ NoSnapshot \notin Snapshot

VARIABLES
    market,   \* signal of every session, by the sessions of its year known
    today,    \* latest completed session
    weather,  \* weather_snapshots, by the session of the signal
    basis,    \* history: first session of the window each row comes from
    update    \* per process: the window, and the next row to save

weatherVars == <<market, today, weather, basis, update>>
vars == <<schemaVars, weatherVars>>

Idle == [next |-> 0, from |-> 0, end |-> 0]

TypeOK ==
    /\ TypeSchema
    /\ market \in [Session -> [1..YearLength -> Signal]]
    /\ today \in FirstEnd..LastSession
    /\ weather \in [Session -> Snapshot \cup {NoSnapshot}]
    /\ basis \in [Session -> 0..LastSession]
    /\ update \in [Openers -> [next : 0..LastSession, from : 0..LastSession,
                              end : 0..LastSession]]

Init ==
    /\ SchemaInit
    /\ market \in Markets(setup)
    /\ today = FirstEnd
    /\ weather = [d \in Session |-> NoSnapshot]
    /\ basis = [d \in Session |-> 0]
    /\ update = [p \in Openers |-> Idle]

-----------------------------------------------------------------------------
(* compute_weather_history                                                 *)

(* A bug that computes only the session that is missing.                   *)
FirstMissing(from, end) == end

(* The first session with enough sessions of the window before it.         *)
First(from, end) == from + MinimumSessions - 1

(* What session d says to an update whose window begins at "from".         *)
SignalOf(d, from) == market[d][Min({d - from + 1, YearLength})]
Stress(d, from) == SignalOf(d, from) \in {"red", "orange"}

(* weather_state of d when stress is known from session "first" on.        *)
StateOf(d, from, first) ==
    IF SignalOf(d, from) # "thawing" THEN SignalOf(d, from)
    ELSE IF \E s \in Max({first, d - StressMemory})..d : Stress(s, from)
         THEN "early_thaw" ELSE "green"

History(from, end) ==
    LET saved == First(from, end)..end
        state == [d \in saved |-> StateOf(d, from, First(from, end))]
        duration[d \in saved] ==
            IF d > First(from, end) /\ state[d] = state[d - 1]
            THEN duration[d - 1] + 1 ELSE 1
    IN  [d \in saved |-> [state |-> state[d], duration |-> duration[d]]]

-----------------------------------------------------------------------------
(* The candles of the last 800 days, fetched once.  Sessions may be        *)
(* missing at the front and at the end (not yet reported): any long enough *)
(* piece without a gap is accepted.                                        *)
BeginUpdate(p) ==
    /\ At(p, "open") /\ update[p] = Idle
    /\ \E from, end \in today - WindowLength + 1..today :
         /\ FirstCandle(setup) <= from
         /\ end - from + 1 >= MinimumSessions
         /\ update' = [update EXCEPT ![p] =
              [next |-> First(from, end), from |-> from, end |-> end]]
    /\ UNCHANGED <<schemaVars, market, today, weather, basis>>

(* save_weather                                                            *)
SaveSnapshot(p) ==
    LET u == update[p] IN
    /\ u # Idle
    /\ weather' = [weather EXCEPT ![u.next] = History(u.from, u.end)[u.next]]
    /\ basis' = [basis EXCEPT ![u.next] = u.from]
    /\ update' = [update EXCEPT ![p] =
                    IF u.next = u.end THEN Idle ELSE [u EXCEPT !.next = @ + 1]]
    /\ UNCHANGED <<schemaVars, market, today>>

(* The command returns, or the broker, a gap or too few sessions failed it *)
(* before it saved anything.                                               *)
EndCommand(p) ==
    /\ update[p] = Idle
    /\ Close(p)
    /\ UNCHANGED weatherVars

DieUpdating(p) ==
    /\ Die(p)
    /\ update' = [update EXCEPT ![p] = Idle]
    /\ UNCHANGED <<market, today, weather, basis>>

SessionCloses ==
    /\ today < LastSession
    /\ today' = today + 1
    /\ UNCHANGED <<schemaVars, market, weather, basis, update>>

Next ==
    \/ SessionCloses
    \/ \E p \in Openers :
         \/ OpenStep(p) /\ UNCHANGED weatherVars
         \/ BeginUpdate(p) \/ SaveSnapshot(p)
         \/ EndCommand(p) \/ DieUpdating(p)

Spec == Init /\ [][Next]_vars

-----------------------------------------------------------------------------
(* Properties.                                                             *)

Stored == {d \in Session : weather[d] # NoSnapshot}

(* weather_fresh in the readiness checks; the weather of a session is the  *)
(* signal of the session before it.                                        *)
Fresh == Stored # {} /\ Max(Stored) + 1 >= today

(* The states and durations from whole years and all sessions there are.   *)
TrueSignal(d) == market[d][YearLength]
TrueState(d) ==
    IF TrueSignal(d) # "thawing" THEN TrueSignal(d)
    ELSE IF \E s \in Max({1, d - StressMemory})..d :
                TrueSignal(s) \in {"red", "orange"}
         THEN "early_thaw" ELSE "green"
TrueDuration(d) ==
    Max({n \in 1..d : \A i \in 0..n - 1 : TrueState(d - i) = TrueState(d)})

(* The first session whose year, and the years of all sessions whose       *)
(* stress it remembers, lie in a window that begins at "from".             *)
Known(from) == from + YearLength - 1 + StressMemory

(* When the readiness check finds the weather fresh, the newest row, which *)
(* is the one shown, is what the whole market history says, however        *)
(* updates overlap or die between two rows and whatever windows the older  *)
(* rows come from, provided that its own window reaches back a year and    *)
(* the stress memory.  Its duration is exact up to the sessions of which   *)
(* that is true (compute_weather_history, weather_update and               *)
(* _readiness_data).                                                       *)
FreshWeatherIsTrue ==
    Fresh =>
        LET d == Max(Stored)
            known == Known(basis[d])
            Bounded(n) == Min({d - known + 1, n}) IN
        d >= known =>
            /\ weather[d].state = TrueState(d)
            /\ Bounded(weather[d].duration) = Bounded(TrueDuration(d))
=============================================================================
