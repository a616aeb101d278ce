# Verification of infinite-buying-dbapi

TLA+ models of the live-trading program in `src/src/infinite_buying_dbapi`: what
its processes do to the database, the broker account, the keychain and the data
files, step by step, and of the strategy they follow; TLC runs that check them
on small instances; and theorems that TLAPS proves for every value of the
constants.

1. [The system](#1-the-system) - inventory of components
2. [The modules](#2-the-modules) - what models what
3. [The runs](#3-the-runs) - what is checked, bounds, fairness
4. [Disagreements found](#4-disagreements-found)
5. [The proofs](#5-the-proofs)
6. [Abstractions](#6-abstractions), observations, and what is not modelled
7. [The plan](#7-the-plan)

## 1. The system

A command-line program (`app ...`) trades one leveraged ETF per profile by the
"infinite buying" method. Every command is a process of its own; an operator, a
scheduler (`automation tick`) and a dashboard start them, and nothing keeps two
of them from running at the same time. They share one SQLite database, one
account at DB Securities, one OS keychain and a directory of candle files.

| Component | State | Operations | Hard behaviour | What makes it correct |
|---|---|---|---|---|
| Order and position store (`store.py`, `models.py`) | profiles, strategy state with version, intents, broker orders, fills, claims, settings, capital and cycle tables | one method = one transaction; `_save_state` under an optimistic lock | sequences of transactions interleave and stop anywhere | versions only rise; a state row and the applied marks of its fills change together |
| Reconciliation (`reconciliation.py`) | none of its own | read state, fetch history, write statuses and fills, fold fills, compare holding, set or clear the flag | two at once; a crash between two transactions; a window by session date that has to reach back to orders dated by the broker | every fill is booked exactly once; no fill is out of reach; unknown orders stop trading |
| Phase planning (`service.py`) | none | prepare the state for the session, plan intents | plans from a state that may move | an intent names the state it was planned from |
| Order execution (`execution.py`) | none | live gates, preflight, submission loop | answers lost in two ways, late requests, crash between acceptance and record, session dates that are not the broker's | an intent is sent at most once; nothing is sent while an order's fate is unknown or trading is stopped |
| Live commands (`cli.py`) | claims, profile status, emergency stop | run, tick, reconcile, automation on/off, orders cancel, emergency-stop | checks and writes are separate transactions | a phase is claimed once; final order statuses stay |
| DB Securities client (`broker.py`) | the account; keys of an inquiry | place, cancel, history, holding; `_all_pages` | timeouts, other transport errors, answers in pages | an inquiry ends, whatever keys the answers bring |
| Strategy (`strategy.py`) | strategy state | prepare, generate intents, apply fill | partial fills, REVERSE mode left and entered again, rounding | no fill of a planned order is refused; T stays within the divisions; plans stay within shares, cash and the REVERSE pool |
| Backtest and replay (`backtest.py`, `replay.py`) | strategy state in memory | a session: sell plan, fills, buy plan, fills | fees on top of a plan made without them | as above, to the last session |
| Position cycles (`positions.py`) | position_cycles | open, add, close; activate next-cycle capital | separate transactions before the state is saved | realized profit is explained; waiting capital is credited at most once |
| Capital ledger (`capital.py`) | capital_events, capital_allocations | record, allocate | check, then act; two commands take from one event | an event never gives more than it brought; no dollar is lost or doubled |
| OAuth token (`auth.py`, `security.py`) | two keychain entries, a settings row | access_token, issue, revoke | two entries written and read one after the other | tokens in use are valid; at most one token request a minute |
| Rate limiter (`rate_limit.py`) | a settings row | reserve a slot, sleep | clock read before the transaction, request sent after it | requests keep the configured rate |
| Market data (`market_data.py`, its runner) | one CSV per symbol, a manifest | collect | two collectors; killed between two file replacements; corporate actions | files without gaps, on one price basis, described by the manifest |
| Session calendar (`market_calendar.py`) | - | phase windows | - | - |
| Schema (`store.py`: `initialize`, `_migrate_v2`) | tables, `schema_migrations` | create, migrate on every start | statements commit one by one; two commands migrate at once | no row is lost; what was opened is complete |
| Weather engine (`weather.py`, `weather update`) | weather_snapshots | compute a window, save it row by row; readiness check | windows differ, overlap and cut the year; updates stop between two rows | fresh weather from a window long enough is what the market history says |
| Backup and restore, configuration, API envelope, dashboard | see section 6 | | | |

How they interact: `run` and `tick` reconcile, plan (`service.py`), execute and
reconcile again; `reconcile_dbsec` is also called by `reconcile`, `automation on`
and `automation off`; it folds fills through `positions.py`, which activates
capital that `capital.py` has left waiting. All of them get a token and a slot
before each call to the broker. Whatever passes between processes passes
through database rows, keychain entries, files, or the broker's books.

## 2. The modules

A step of every model is one database transaction, one call to the broker, one
keychain access or one file replacement, because that is what other processes
can come between. What a Python function keeps in locals over such a step is in
the record `proc[p]`, with a program counter `pc`. Pure computation between two
steps belongs to the step before or after it. `Crash(p)` ends a process between
any two steps; its locals are gone, the shared state stays.

### Live trading

| Module | Models | State and correspondence |
|---|---|---|
| `Orders` | vocabulary | an `Intent` is the content its `intent_id` hashes: session, phase, role, quantity, version and status; `StateRow` is the strategy state |
| `Store` | `store.py` | `db`: one record with the tables; each operator is one `StateStore` method, from database to database |
| `Broker` | external account, and how `broker.py` and `reconciliation.py` read it | `broker` (orders, executions, the set of requests under way, holding), `clock` (the date under which the broker lists an order it accepts now, and the phase window) |
| `Process` | processes | `proc`: labels and locals |
| `Reconciliation` | `reconcile_dbsec`, `_flag_mismatch` | labels `rec_*`, one per transaction or call; `Resume` is what the caller does with the result |
| `Execution` | `_run_phase`, `automation_tick`, `plan_phase`, `execute_intents` | labels `claim`, `profile`, `plan_*`, `exec_*` |
| `Commands` | the other commands of `cli.py` | labels `on_set`, `off_*`, `lock_*` |
| `LiveTrading` | the whole: `Init`, `Next`, `Spec` and the properties | |
| `FillLedger` | abstract: executed fills get booked, each once | refined by `LiveTrading` with `executed <- 1..Len(broker.execs)`, `booked <- db.state.folded` |
| `LiveTradingInvariant` | the inductive invariant `IInv` | used by the proofs |

`Store`, `Broker` and `Process` each own their variables; `Reconciliation`,
`Execution` and `Commands` each extend the one before it and contain the actions
that compose all three. `folded` (in the state row) counts how often a fill has
been folded into the position. It stands for the cash and cost columns, which
move with each fold: a fill folded twice or lost is seen there even when the
quantities happen to agree.

Three dates are kept apart. An intent carries the session date of its command,
and so does the row of its order (`execution.py:90`); the broker dates an order
when it accepts it, and its history is asked for by date. `run`, `reconcile` and
`automation on` and `off` take the session date from `--session-date` or the local
`date.today()`: `SessionDates` is the broker's date moved by any of `DateOffsets`.
`tick` takes the date of New York (`cli.py:668`), which is the broker's.

The answer to an order may get lost in two ways (`LostAnswer`). A timeout, a network
error, a 5xx or a malformed answer is *ambiguous*: the intent becomes `UNKNOWN` and the
profile is stopped. Any other transport or decoding error is not caught
(`broker.py:279`) but *raised*: the command ends with the intent `PENDING` and
nothing locked. Either way the order may have been accepted; `LateRequests` says
for which of the two a request may also arrive later.

An order that expires at the close is reported as cancelled or with nothing
remaining. The second, when nothing of it was executed, is what the program stores
as an order of status `UNKNOWN` (`reconciliation.py:49`).

### Capital

`CapitalLedger` models `capital.py`, `positions.py` and the rows they share with
a reconciliation: `RecordDeposit` and `RecordWithdrawal` are
`record_capital_event`; `AllocCheck` and `AllocCommit` the two halves of
`apply_allocation`; `RecState` to `RecClear` the part of `reconcile_dbsec` that
reads the state, folds fills with their cycles (`FoldActivate`, `FoldOpen`,
`FoldBuy`, `FoldClose`) and saves it under the optimistic lock. `OtherWrite`
stands for every other command that writes the state row.

It is a model of its own and not part of `LiveTrading`: they meet only in the
state row and its version, and each contains the other's writes to that row
(`OtherWrite` here; there, any write that raises the version).

### Market data

`MarketData` models `collect_market_data` and `_commit_files`. A candle is
abstracted to the number of later corporate actions its adjusted price accounts
for, so two candles of a day are equal exactly when their price basis is; a file
is a function from sessions to candles, and its hash is the file itself.

### Strategy and backtest

`Strategy` has `prepare_state`, the plans of `generate_intents` and `apply_fill` as
operators from states to states, in integers: `Tick` units of money are a cent,
`Unit` units of T a division. Divisions of the code are rounded down to a unit,
and what the code quantizes is rounded half-even to ticks, as `Decimal.quantize`
does. `Backtest` drives them through sessions: `StartSession` takes a candle,
prepares the state and plans the sells, `BacktestOrder` is `_fill_price` and
`_apply_filled_intent` for the next order, `PlanBuys` plans the buys from the
state that is left. `ReplayOrder` is the loop of `replay_file` instead, where any
part of an order may have been filled. `paid` is a history variable: the lowest
and highest price paid in the cycle.

The live modules keep their own, coarser strategy (`Specs`, `Fold`): quantities
are all that their properties need.

### Schema and weather

`Schema` models `StateStore.initialize` and `_migrate_v2`. Every command runs them
when it starts, as two scripts whose statements SQLite commits one by one
(`executescript`), so a step is one statement; `layout` says which version of its
columns each table has, `rows` which orders and fills are in it, `opener[p]`
which statement a process is at. A statement that finds a table it does not
expect ends the command (`MigrationRaises`).

`Weather` extends `Schema` by the command `weather update`: `BeginUpdate` fetches
the candles, any piece without a gap of the last `WindowLength` sessions that is
long enough, as the front and the last sessions may be missing; `SaveSnapshot`
saves one row of `compute_weather_history` in a transaction of its own. What the
indicators of a session amount to is one `Signal`. It depends on the window:
the lowest and highest close of a year are cut where the window begins, so
`SignalOf` gives a signal for each number of known sessions of that year. Whether
stress lies in the memory of 60 sessions, and the duration, depend on other sessions of
the window. `Fresh` is `weather_fresh` of the readiness check. `basis` is a history
variable: where the window of each stored row began.

### API limits

`ApiLimits` models `DbSecTokenManager.access_token` and `issue` with each
keychain access a step, `claim_oauth_request`, `reserve_api_slot` and the rate
limiter with its sleep, under a clock that advances between any two steps. `CallPage`
is a round of `_all_pages`: the answer brings a continuation key, which is looked up
in `seen` (`seen_keys`); `pages` is a history variable.

`MCLiveTrading`, `MCCapitalLedger`, `MCMarketData`, `MCApiLimits`, `MCBacktest` and
`MCWeather` define the sets the configurations use. Where one run covers several
deployments (one process or two, by hand or scheduled), the initial states choose
one of them: `deployment`, `Teams`, `Setups`.

## 3. The runs

Every property has a mutant: a definition that carries a plausible bug (a
dropped guard, a missing reset, a lock not compared) and breaks the property
under the configuration of its run. The mutants stand in the modules, before
the definitions they change, and are marked as bugs there.

### Live trading (`MCLiveTrading`)

Common bounds: `MaxOrders` and `MaxFills` limit what the broker accepts and
executes, `MaxVersion` stops new commands (never a command under way) once the
state row passes that version, `MaxDay` the sessions. Two orders are needed for
a duplicate, for a sell and a buy, or for a known and an unknown order; two
fills for a partial execution that completes later and for a fill that arrives
between two reads; two days for an order that is unresolved over a close or dated otherwise than its
intent. Session dates lie up to a day off the broker's (`NearbyDates`) in `Serial` and
`NoCrash`; ticks have the broker's date, so `Concurrent` needs no others.
Deadlock is not checked: with all bounds reached the system rests.

| Run | Instance | Shows |
|---|---|---|
| `Serial` | one process at a time, dying anywhere; either runs and reconciliations over two days, or ticks, automation on/off, cancel and emergency stop around the phase windows of a day; session dates of the day before, the same and the next day; the account starts empty | `TypeOK`; no intent reaches the broker twice as long as the broker lists each order under the date of its intent; the position is the sum of the applied fills; with session dates that are the broker's, no order is sent in a session in which the broker has an order the database lacks; orders only while ON, not stopped and reconciled; a final order status is never overwritten |
| `NoCrash` | one process, runs and reconciliations, two days, no crash, session dates as in `Serial`, requests that time out may arrive later; the account starts empty | every execution that is not in `fills`, of an order recorded under the broker's date, lies in the window of the next reconciliation; no intent is sent twice, on the condition of `Serial`; while an intent is `UNKNOWN` nothing is sent |
| `Concurrent` | two schedulers, one of which also reconciles, phase windows, crashes; the account starts with one share | the claim lets one tick run a phase: no duplicates, open sells within the holding; each fill is booked exactly once; versions rise; `FillLedger` is refined |

`PhaseDays` are the days whose phase windows matter: those on which ticks run
(the last day of `Serial`, the day of `Concurrent`). Elsewhere nothing depends on
the window, and a session is one window. `Serial` covers crashes, `NoCrash` late
requests: section 4 says what the two together lead to.

`MaxVersion` is 1 in `Serial` and `Concurrent`, where a command may start after one
that has written the state row, and 3 in `NoCrash`, where it may start after runs
of several sessions.

**Dates.** Two properties have a condition. `Dated` says that the broker lists
every order under the session date of its intent. Without it
`NoDuplicateSubmission` and `NoOrderOverAlienOrder` are false, with or without
crashes (section 4). It speaks of the orders accepted, not of the commands: a
reconciliation with any date may come in between. `FillsStayReachable` is about
orders recorded under the broker's date, one by one.

**Fairness.** No property is a liveness property and no fairness is assumed. The
loops of a command go over finite lists, the rows of an answer or the intents of
a plan, except one: `_all_pages` asks as long as the broker answers with a new
continuation key. That it ends is a bound on its pages, a safety property:
`InquiriesBounded` of the run `ApiCalls`.

### Capital (`MCCapitalLedger`)

| Run | Instance | Shows |
|---|---|---|
| `Capital` | one profile, two events, deposits of 1 or 2, a withdrawal of 1, requests of 2 to either timing; a pair of processes that may die anywhere with three fills (a cycle and the first buy of the next), no withdrawal beside the pair, or one process with other writers, withdrawals and four fills (two cycles); sell-outs at a loss | `TypeOK`; no event gives more than it brought; what the events gave is what the profile got or waits for; no dollar reaches the cash twice; with one process left to finish, all capital and profit is in the cash, and the realized profit of a cycle is that of its fills plus the capital added |

Two events are the least for an allocation that takes from more than one, and
amounts 1 and 2 leave an event partly allocated. Three fills open a cycle, close
it and open the next one, so that waiting capital is activated beside a stale
copy of the state and a buy is folded by a process that lost its lock; the two
full cycles of the single process show what the first one left behind. Two
bounds keep the pair small. A withdrawal only locks the profiles and flags their
states, and none is recorded beside the pair (`WithdrawingTeams`). A sell-out
makes a loss of 1 (`Gains`): a lost update of a loss leaves more cash than
capital and profit explain, the side the invariants bound. The proofs cover any
withdrawals and gains.

### Market data (`MCMarketData`)

| Run | Instance | Shows |
|---|---|---|
| `Collect` | sessions 1 to 4; one collector with two symbols or two collectors with one, killed anywhere | `TypeOK`; no file has a gap or mixes price bases; with one collector a stored session is never taken out, a collection that reports success has every file up to its target, and the manifest never claims a session its file lacks |

The files start complete, truncated at the front or missing, so that backfill,
append and first collection all happen; two new sessions, each with or without
a corporate action, come during or between collections.

### API limits (`MCApiLimits`)

`ApiCalls` has two processes, held up or dying anywhere, over times 0 to 4. It
shows `TypeOK`; that requests and token requests, counted from the start, never
exceed the configured rates; that nobody goes on with an expired token that
is still the stored one, also after a process died between the two keychain
writes; and that an inquiry, whatever continuation keys its answers bring and
however often they come back, gets no more pages than there are keys. Two keys are
the least for a key that comes back after another one.

Times are scaled down: token interval 2 (60 s), spacing 1, margin 1 (5 min),
lifetime 3, so that a token expires and is renewed within the run. The relation
that matters is kept: a token request takes less than its interval, which
the HTTP timeout of 10 seconds ensures in the code (guard of `Tick`), and the
margin is not smaller than that.

### Strategy (`MCBacktest`)

`Backtest` takes every path of eight sessions whose close is one of four prices
(a fall below the recovery price, near the average, at the star, beyond the
target) with a high at the close or above it, and every way to fill the orders
of seven sessions that fall or nearly do. It shows the conditions of
`StrategyState` and `OrderIntent`; that no fill of a planned order is ever
refused, fees and partial fills included; that T is zero exactly without a
position and never gets to the divisions; that the orders still standing stay
within the shares and the cash; that the buys of REVERSE stay within the pool,
a quarter of it each session; and that the average cost lies between the lowest
and highest price paid, plus fees.

Four divisions instead of 20, 30 or 40 bring the path to REVERSE, and out of it,
within eight sessions; the formulas depend on the number only through the
fractions `T / divisions` and `2 / divisions`. A tick is 5 units, so that rounding
to ticks differs from rounding to units, T has 16 units a division, the fee is
1% instead of 0.04%, large enough to matter for a position of some shares.

### Schema and weather (`MCWeather`)

`WeatherUpdate` opens a new file, a file of version 1 or an early version 2, with
one process or two that die at any statement, and with an early file it updates the weather for two
latest sessions in turn, from windows of any length, dying between any two rows.
With one process the market is any sequence of stress and thawing sessions, and a
year cut short says the same as the whole one or hides the stress; with two
processes the stress ends shortly before the first update, which is where memory
and duration change. It shows that no row of the old file is lost; that a
store one command at a time has opened is complete; and that, whenever the
readiness check finds the weather fresh, and the window of the newest row reaches
back a year and the stress memory, the newest row is what all sessions so far say.

The window has up to 5 sessions, a year 2, the first row needs 1, and stress
is remembered for 2; in the code they are about 551 (800 days), 252, 220 and 60. What
matters is that a row needs less than a year (`MinimumSessions <= YearLength`, of
`WeatherAssumption`), so that cut years occur, and that a full window is longer
than a year and the memory (`Known`), so that the condition of the property is met: in
the code by the last 240 rows of a full window. The duration is compared up to the number of sessions for which the
condition holds. `FreshWeatherIsTrue` looks at the window of the newest row only;
the rows before it may come from any other.

## 4. Disagreements found

Four runs expect a violation. Each checks what the documentation says of the
program and shows a behaviour of the code that contradicts it. `PROJECT.json`
quotes the lines.

| Run | Property | What happens |
|---|---|---|
| `CrashLosesFill` | `FillsStayReachable` | a reconciliation dies between `update_order_status` (FILLED) and `add_fill`, and the session ends: the order is no longer unresolved, so no later window contains its fill |
| `RepeatedSells` | `OpenSellsCovered` | a sell run repeated after a partial fill plans from the new version and sends sells beside the ones still open; preflight looks at this plan only |
| `OverlappingRuns` | `NoDuplicateSubmission` | two manual runs both find no order for an intent and both send it |
| `SkippedFirstSell` | `ReverseStartsWithMoc` | a recovery ends REVERSE while T is beyond the last division; the buy phase of the same session enters it again, that session has had its sell phase, and the next one sells by LOC |

The first three properties hold in `NoCrash` and `Concurrent`: what breaks them is
a crash, a repeated manual run, and two manual runs at the same time.

The models show more behaviours of this kind, for which no run is kept:

- with a session date ahead of the date under which the broker lists the order
  (a local `date.today()` in Seoul while New York is a day behind, or a
  `--session-date`; `cli.py:433`, `:450`), the window of a history inquiry begins after the
  order. If the run died before it recorded the order (`execution.py:90`), a rerun does not see it
  and sends the intent again; a run also sends over an order it does not know; and
  the fill of a recorded order is out of reach. With a date behind the
  broker's the order is found but taken for an alien one;
- after a transport error that is not caught (`broker.py:279`) the intent stays
  `PENDING` and nothing is locked. If the request arrives after the next
  reconciliation, the intent is sent twice without any crash, while
  `docs/hermes-handoff.md:12` never sends such an order again and
  `docs/implementation-plan.md:14` locks at once;
- an order reported with nothing executed, nothing remaining and neither a reject nor a
  cancel flag is stored as `UNKNOWN` (`reconciliation.py:49`) and counts as unresolved for
  ever: its day stays in every window, and `automation off` locks the
  profile each time;
- a window with less than a year before a session gives that session other
  signals than a longer one: `weather_fresh` may be satisfied by a row that misses
  the stress (`weather.py:57`, `:79`);

- with crashes *and* late requests in one instance `NoDuplicateSubmission`
  fails: the process dies while the request is under way, the intent is still
  PENDING and is sent again by a run that reconciled before the first request
  arrived;
- with `automation off` beside a run, a run that read the profile before OFF was
  stored sends its orders afterwards (`cli.py:384`);
- the settled money is compared before the transaction of `apply_allocation`,
  which then reads positive events only: a withdrawal recorded in between leaves
  the total above the settled money (`capital.py:98`);
- after an activation of waiting capital a crash or a lost optimistic lock
  leaves it in `profiles.capital` but not in the cash (`positions.py:34`);
- a collector killed between two file replacements leaves a manifest of the old
  files; the next collection of the day finds the replaced files up to date and
  rewrites the other entries only (`market_data.py:98`, `:248`);
- the slower of two collectors that started on different sessions takes the newer
  session out of a file again; the next collection appends it;
- a process that reads the old token and then the expiry of its successor, which
  another process stores in between, goes on with the old token (`auth.py:37`);
- a process held up between its slot and its request sends it in the same second
  as the next process; what holds is the rate counted from the start;
- a migration that stops between `CREATE TABLE broker_orders_v2` and its `RENAME`,
  the same for `fills`, or after `CREATE TABLE position_cycles`, is never finished:
  every later command raises at the table it finds (`store.py:171`), while
  `docs/implementation-plan.md:18` has v1 migrated at the start. Between `DROP TABLE`
  and `RENAME` the next start even creates an empty `broker_orders` of version 1
  beside the full copy. No row is lost, which is `RowsSurvive`;
- a second command that looked for version 2 before the first had finished
  rebuilds the two tables once more; an order the first command records between
  its copy and its `DROP TABLE` is lost (`store.py:159`). The rows of `Schema` are
  those of the old file, so this is not in the model;
- the first rows of each window overwrite better ones of earlier updates: they
  know neither the stress nor the duration before the window (`weather.py:68-71`);
- `weather_fresh` is satisfied by the row for the latest completed session, which
  is the signal of the session before it (`cli.py:542`);
- at T of exactly divisions - 1 nothing is bought and REVERSE is not entered: only
  a sell goes on (`strategy.py:42`, `:58`);
- the backtest plans its buys from the state its sells of the same close left
  (`backtest.py:143`), where live buys are planned before the close.

## 5. The proofs

TLAPS checks these theorems for every number of processes, days, orders, fills,
events, profiles, symbols, sessions, rows and divisions, and for every price history:

| Theorem | Module | States |
|---|---|---|
| `TypeCorrect` | `LiveTradingProofs` | `Spec => []TypeOK` |
| `ExactlyOnce` | `LiveTradingProofs` | `Spec => []FillsBookedExactlyOnce`: a fill marked applied is in the state once, any other not at all |
| `PositionFollowsFills` | `LiveTradingProofs` | `Spec => []PositionIsAppliedFills`: the position is the initial one moved by the sum of the applied fills |
| `VersionsAdvance` | `LiveTradingProofs` | `Spec => StateVersionsAdvance`: a write of the state row raises its version |
| `ImplementsLedger` | `LiveTradingProofs` | `Spec => FillsAreLedger`: `LiveTrading` refines `FillLedger` |
| `NoDuplicateFromTicks` | `SubmissionProofs` | `Spec => []NoDuplicateSubmission`, if `OnlyScheduledRuns` |
| `UnknownStopsSending` | `SubmissionProofs` | `Spec => NoOrderWhileUnknown`, if `OneAtATime` |
| `NoOrderOverAlien` | `SubmissionProofs` | `Spec => NoOrderOverAlienOrder`, if `OneAtATime` and `LateMeansUnknown` |
| `NoDuplicateOneAtATime` | `SubmissionProofs` | `Spec => []NoDuplicateSubmission`, if `OneAtATime` and `LateMeansUnknown` |
| `FinalStatusesStay` | `SubmissionProofs` | `Spec => TerminalStaysTerminal`, if `OneAtATime` |
| `StoredOrReachable` | `SubmissionProofs` | `Spec => []FillsStayReachable`, if `OneAtATime` and `~Crashes` |
| `SellsCoveredInSession` | `SubmissionProofs` | `Spec => []OpenSellsCovered`, if `OnlyScheduledRuns` and `MaxDay = 1` |
| `SellsCoveredOneAtATime` | `SubmissionProofs` | `Spec /\ [][TicksInSession]_vars => []OpenSellsCovered`, if `OneAtATime` and `OnlyScheduledRuns` |
| `CapitalTypeCorrect` | `CapitalProofs` | `Spec => []TypeOK` |
| `NoOverspending` | `CapitalProofs` | `Spec => []NeverOverspent` |
| `NoDoubleCredit` | `CapitalProofs` | `Spec => []CreditedAtMostOnce` |
| `NoDollarLost` | `CapitalProofs` | `Spec => []AllocationsAccounted` |
| `SoleCashIsCapital` | `CapitalProofs` | `Spec => []CashIsCapital` |
| `SoleRealizedExplained` | `CapitalProofs` | `Spec => []RealizedExplained` |
| `MarketDataTypeCorrect` | `MarketDataProofs` | `Spec => []TypeOK` |
| `NoGaps` | `MarketDataProofs` | `Spec => []ContiguousSessions` |
| `OnePriceBasis` | `MarketDataProofs` | `Spec => []OneBasis` |
| `ManifestAfterFiles` | `MarketDataProofs` | `Spec => []ManifestNeverAhead` |
| `NoSessionLost` | `MarketDataProofs` | `Spec => FilesNeverRegress` |
| `SuccessMeansCurrent` | `MarketDataProofs` | `Spec => CompletedMeansCurrent` |
| `SchemaKeepsRows` | `SchemaProofs` | `SchemaSpec => []RowsSurvive` |
| `SchemaOpensWhole` | `SchemaProofs` | `SchemaSpec => []OpenedIsWhole` |
| `WeatherOpensStore` | `SchemaProofs` | `Spec => SchemaSpec`: `Weather` implements `Schema` |
| `UpdatesKeepRows`, `UpdatesOpenWhole` | `SchemaProofs` | `Spec => []RowsSurvive`, `Spec => []OpenedIsWhole`, from the three above |
| `WeatherTypes` | `SchemaProofs` | `Spec => []TypeOK` of `Weather` |
| `FreshWeatherTrue` | `SchemaProofs` | `Spec => []FreshWeatherIsTrue` |
| `BacktestTypes` | `BacktestProofs` | `Spec => []TypeOK` |
| `NoFillRefused` | `BacktestProofs` | `Spec => []NeverRaises` |
| `PlansStayCovered` | `BacktestProofs` | `Spec => []PlanCovered` |
| `PoolNeverOverspent` | `BacktestProofs` | `Spec => []PoolLasts` |
| `AverageBetweenPrices` | `BacktestProofs` | `Spec => []AverageWithinPaid` |
| `DivisionsRemain` | `BacktestProofs` | `Spec => []TBelowDivisions`: T stays below the divisions and is zero without shares |
| `ApiTypes` | `ApiLimitsProofs` | `Spec => []TypeOK` |
| `RequestsKeepRate` | `ApiLimitsProofs` | `Spec => []RateKept` |
| `TokenRequestsKeepRate` | `ApiLimitsProofs` | `Spec => []TokenRateKept` |
| `StoredTokensAreFresh` | `ApiLimitsProofs` | `Spec => TokenFresh` |
| `PagesAreBounded` | `ApiLimitsProofs` | `Spec => []InquiriesBounded` |

Assumptions used: `BoundsAssumption` (`Orders`), `BrokerAssumption` (`Broker`),
`ProcessAssumption` (`Process`), `CapitalAssumption` (`CapitalLedger`),
`MarketDataAssumption` (`MarketData`), `SetupsAssumption` (`Schema`),
`WeatherAssumption` (`Weather`), `ApiAssumption` (`ApiLimits`), `StrategyAssumption` (`Strategy`), `BacktestAssumption`
(`Backtest`): types of the constants, that processes, profiles and
events are finitely many where they are counted or summed, and for the API
limits that intervals are positive and the continuation keys finitely many. A row of
the weather needs no more sessions than a year has (220 against 252),
and a token is renewed at least a request interval before it expires. There are at least three divisions (the code
has 20, 30 or 40) and the fee rate is at most a third (the code has 0.04%). TLC evaluates them in the runs.

**Exactly once.** `FillsBookedExactlyOnce` is not inductive: a reconciliation
folds fills into a copy of the state row it read some transactions ago and
stores the copy later, and the property says nothing about copies. `IInv`
(`LiveTradingInvariant`) adds, for each process, what its copy is worth at each
label:

- `CurrentOrOld`: a copy with the version of the row is the row. Either nobody
  has written since, or the optimistic lock will refuse the copy;
- `Folding`: while fills are folded, and as long as the row still has the
  version `base`, the copy has each fill of `applied` and `done` exactly once
  and the fills still pending are in neither; its position is the initial one
  moved by the same fills;
- `Preparing`: the same while a prepared state waits to be saved;
- `Grounded`: fill and order numbers a process holds exist in the books.

The argument has two halves. Everything that rewrites the row raises its version
(`Grows`), so what `LocalInv` says of a copy survives any step of another
process: either the row is unchanged or the copy is old (lemma `Frame`). And
each action of a process re-establishes `LocalInv` for itself (`OwnStep`), one
lemma per action in `LiveTradingProofs`, after the facts both halves rest on: types
of updated records, the history rows of the broker, what the operators of `Store`
preserve. The refinement follows from `IInv` and `Grows`: a step that saves a
reconciled state books the fills it marks, a step of the broker executes one,
and all others stutter.

The position is a sum over the applied fills, taken with `SumFunctionOnSet` of the
community modules, which folds a set in an order that is chosen. `SumProofs` shows
that the order does not matter: what the sum is when an element joins, leaves or
changes its value.

**No duplicate orders.** The property is false for two manual runs at the same
time (`OverlappingRuns`) and for a crash together with a late request (section 4); it is stated for session
dates that agree with the broker's (`Dated`).
`SubmissionProofs` shows two conditions that are enough, each of which a user can
keep to: all phases are started by the scheduler, or commands run one at a time
and no request that the program gave up arrives unnoticed.

- *Ticks.* `OnlyScheduledRuns` says that no process is told to `run` a phase by hand;
  there may be any number of processes, with reconciliations, `automation on` and
  `off`, cancellations, crashes, late requests and any session dates (`Concurrent` and the scheduled
  deployment of `Serial` are instances). `ScheduleInv`: a tick that has written its
  claim owns its session and phase; two ticks own different ones; whatever the
  broker has or may still get (`Sent`) is of a claimed slot; the intents an owner
  has still to send (`todo`, `intent`) are of its slot and not among those sent. A
  slot is never claimed twice, even when its tick has died.
- *One at a time.* `OneAtATime` says that a deployment has one process, so a command
  ends or dies before the next one starts (`Serial` and `NoCrash` are instances).
  `SoleInv` says what is then known at each label of the database: an unknown
  intent comes with the flag that stops every run (`Halted`), and what the gates
  saw is still so when the order is sent (`Guarded`). `InformedInv` connects this to
  the broker, for a process whose session date is not before the broker's day
  (`Current`): of the orders of its session, each is recorded, has a history row
  that is still to be treated, or has raised the flag; by the time the gates pass,
  all are recorded. The history contains them because its window reaches back to
  the session (`WindowStart`). A process with an earlier date sends nothing that
  the broker could list under it, so it need not know.
- What is invariant is `Dated(broker) => InformedInv`. As the broker never drops an
  order, a broker that is `Dated` after a step was so before it (`Remembers`), so a
  step of the induction may use `InformedInv` before it. In a step that makes the
  broker list an order under another date than its intent's, nothing is to
  be shown.
- `LateMeansUnknown` says that no request arrives late whose loss was *raised*, and
  if any arrives late, that processes do not die. Between a request that timed
  out and `mark_intent_unknown` only the memory of the process knows of the
  request, and after an error that is not caught nobody does. If it arrives
  later than the next reconciliation, nothing could tell; those are two of the behaviours of
  section 4, not a gap of the proof. `UnknownStopsSending` does not need it.

`OrdersOnlyWhileAllowed` has no theorem. With one command at a time it says little
more than that the gates are there, and the case that matters, `automation off`
beside a run, is not excluded by the code (section 4). `Serial` checks it.

**Final statuses.** The history is asked for once and its rows are treated one by
one, so what keeps a recorded final status is not the step that writes it: a row that
was fetched must still say what the database says when its turn comes. `FinalInv`
states this for every row in hand (`RowTrue`): a final order has the status of its row,
a final row says that the broker is done with the order (`Over`) and brings the
executions that are not stored yet, and the rows of one order agree. Final statuses
in the database are the broker's (`Faithful`). `UNKNOWN` is not final: an order that lapsed
without an execution is done with for the broker and unresolved in the database. `Fetched` says that where the process
holds a copy of the state row (`Copying`) it is the row, and that `off_mark` writes
`CANCEL_REQUESTED` over unresolved orders only. All this needs `OneAtATime`: between
the history and its last row nobody else may write. If nobody dies with rows in
hand (`~Crashes`), every execution of a final order is stored or in hand (`Taken`);
an execution that is not stored is then of an unresolved order, and the window
of the next reconciliation reaches back to its day. With crashes this is false,
as `CrashLosesFill` shows.

**Sells.** That the open sells are covered says nothing of those a sell phase has
still to send. `CoverInv` adds them up: what works at the broker or is under way to it
(`Exposed`) and what a sell phase behind its gates has in hand (`LeftQty`) are together
at most the holding. Sending an intent moves it from one part of the sum to another, an
execution takes from both sides, and a buy raises the holding only. What is left is the
moment when the gates pass, where `preflight_intents` compares this plan with the
stored quantity: that quantity must not exceed the holding (`GateCovered`), and no sell of
another phase may be open. The claim gives the second, as one tick runs the sell phase
of a session. The first is shown for two kinds of deployment:

- Within one session, `HoldingInv` says that the holding is the initial one moved by
  all executions. A sell phase that has sent nothing follows upon buys only, so what
  any reconciliation has stored by then is at most the holding, however many processes
  there are.
- With commands one at a time, `MatchedInv` follows the tick from its reconciliation,
  which has compared the position with the holding and locked the profile if they
  differ, over the plan to the gates. On the way the position is not written and no
  sell executes. This holds over any number of sessions.

Both need `OnlyScheduledRuns`: with manual runs a sell phase can be repeated, as
`RepeatedSells` shows. The second needs `TicksInSession`, that a session does not end while
a tick is under way: a tick left over from yesterday could die with the request of a sell
of yesterday's plan under way, and that request could arrive beside the sells of today's
tick. (A left-over sell that the broker already has when today's tick starts is found out:
the broker lists it under another date than its intent, `LocalOrder` fails, and the
reconciliation treats it as an alien order and locks the profile. The proof does not make
use of this.) Every request of a tick has a timeout, so it ends within
minutes, but nothing in the code makes it end with the session; hence it is a
hypothesis of the theorem and not part of `Spec`. With several processes over several
sessions a reconciliation may book late fills beside the gates, and neither argument
applies.

**Capital.** `NeverOverspent` is inductive with the types, because the sum taken
from an event is read again inside the transaction (`SplitWithinEvents`).
`CreditedAtMostOnce` needs to know what a copy in memory is worth: while the
version it was read at is still that of the row, its cash is at most the
capital and booked profit of the profile plus the profit folded so far
(`CopyOK`). A step of somebody else keeps it (`KeepCopy`), as versions do not go
back and capital and profit do not shrink while a version lasts (`Forward`);
activating waiting capital raises capital and copy together, and saving turns
the folded profit into booked profit.

`AllocationsAccounted` is inductive: each step that writes one side of the sum
writes the other by the same amount, which the lemmas of `SumProofs` add up.
`CashIsCapital` and `RealizedExplained` are about a process that works alone and
never dies, and hold only while it is at rest. `SoleInv` of `CapitalProofs` follows it
through a reconciliation: after k fills have been folded into the copy (or into
the row, at any other time) cash is capital, booked profit and the profit folded
so far; an odd number of fills leaves a cycle open and an even one closed; and each
closed cycle row has its profit and what was added to it (`Balanced`). `Steady` says
that nobody else has written the row in between.

**Market data.** What a collection writes is decided long before it writes, and
other collectors may have replaced the file meanwhile. So the invariant is about
contents, wherever they are: a file, a copy that was read, a prepared file
(`Sound`: no gap, and all prices those of one day t). A file prepared from a sound
copy is sound (`WholeMerge`, `ExtendMerge`): if the price of the last stored session
is still what the broker shows, no corporate action came after it, so the older
sessions have the present basis too. For one collector at a time `Undisturbed` adds
how its locals relate to the files: prepared files contain those they replace
(`Extends`), skipped ones are current (`Treated`), and the manifest to be written
describes what the files will be when all are replaced (`Committing`).

**Schema.** That a row is in its table or in the copy does not say why `DROP TABLE`
may take it out of the table. `IInv` of `SchemaProofs` adds: from the `CREATE` of a
copy to its `RENAME` the copy is there (`CopyThere`) and no second process is in
that part of the script for the same table (`Exclusive`), because its `CREATE`
would have failed; and once a process has copied, all rows are in the copy
(`Loaded`). A process that dies inside leaves the copy behind, which keeps
everybody else out: the very thing that stops later commands protects the rows.

`OpenedIsWhole` needs what the script has behind it (`Progress`): a table whose
`RENAME` is done has its form of version 2 with all rows and no copy (`Done`), and
the tables created so far are there. The version is recorded by the last statement
only, so a recorded version 2 means that all of this is so (`Migrated`), except for
`capital_allocations` in early files, which the check of the version creates. With
several commands at once this fails: one may be rebuilding a table that another
has opened.

**Weather.** `FreshWeatherIsTrue` compares a row, computed from one window of
sessions, with all sessions. `WeatherInv` says that each stored row is the row of
some window that ended by now (`RowsOfWindows`), and that what an update has still
to save lies in its window. The duration of a state is a recursive function of
the session; `HistoryLast` shows by the least session where it fails that it counts
the sessions for which the state has lasted (`Lasted`), and `TrueDurationLasts` that
the maximum over all sessions counts the same. `basis` names the window of each
row, and `Known(from)` the first session whose year, and the years of all sessions
whose stress it remembers, lie in a window from `from` on. From there on the signals
and states of the window are the true ones (`KnownSignal`, `KnownState`), and the
durations agree as far as they reach back to it (`SameDuration`). No lemma speaks of how
long windows are: a row of a short one is simply not covered.

**API limits.** `RateKept` counts requests that were sent. The invariant counts
those that may be sent as well: of the processes asleep before a request, those
due by a time t, together with the requests made, are spaced up to t (`Spaced`).
A new slot keeps it because it lies beyond all slots given away (`SlotBeyond`),
which is where the maximum in `reserve_api_slot` is needed. Token requests are
counted with the processes that have claimed one and not yet posted (`Claimed`);
there it is the comparison inside the transaction that matters, as the clock of a
claim may be old (`ClocksPast`).

`TokenFresh` is about two keychain entries that are written one after the other.
`TokenInv` says of every process between its claim and its answer that the claim is
still the last one and no other process is there (`OneRequest`, which needs the
timeout of requests), and of what it holds and what the keychain has that the expiry is
too late by less than `TokenInterval` (`AnswersFresh`, `KeychainFresh`). The
token is written first, so a process that dies in between leaves an expiry that
is too early. The margin at which a token counts as old covers the difference.

`InquiriesBounded` follows from `PagesKnown`: the pages a process has received are
as many as the keys it has seen.

**Strategy and backtest.** That a plan stays covered while its orders fill is not
inductive: it depends on what was true of the whole plan when it was made.
`IInv` of `BacktestProofs` keeps, of the orders still standing, what lets each of
them fill in any part (`SellOrdersOK`, `BuyOrdersOK`): two sells are for different
shares; a buy of a half division leaves the cash for the other one, the fee
included; T has room for what the order adds. `SellPlanOK` and `BuyPlanOK` show
that every plan begins so, one lemma per kind of order; `SellFillOK` and
`BuyFillOK` that a fill keeps it.

Why two half buys leave the cash for both, although the plan knows no fees
and their prices are rounded to ticks, is the heart of it (`TwoHalves`,
`HalvesCost`): as long as half of the divisions are left, each half buy is at
most a third of the cash, and what is over covers the rounding of the average
to a tick and a fee of up to a third. T itself needs only that no order adds more
than was left when it was planned, and that the two half buys come only in the
first half of the divisions. `AverageWithinPaid` follows sell by sell:
`CostAfter` takes the sold part of the cost, rounded down, so the cost of what is left is
too high by less than a unit (`CostLeft`); `Sells` counts the sells that may have
happened, at most two per session.

`TWithinDivisions` says in addition that T is not zero while shares are held.
That is true of the instance but not of all constants: the model rounds T down
to units, so selling all but one of very many shares would round it to zero; the
28 digits of a `Decimal` keep a T of that size. `DivisionsRemain` is the part that
does not depend on the rounding, and the one the code relies on.

**Only model-checked.** `OrdersOnlyWhileAllowed`; `TWithinDivisions` as far
as `DivisionsRemain` does not state it. No liveness property is stated.

## 6. Abstractions

**Taken as given, live trading.**

- One profile: profiles share no row of the tables of `Store`. Several profiles
  appear in `CapitalLedger`, where they share the events of the account.
- The broker lists an order in its history as soon as it has accepted it, reports
  an order that expires at the close as cancelled or with nothing remaining, and
  gives each execution one row with a number of its own. It never oversells the
  holding.
- The New York date of a tick is the date under which the broker lists an order it
  accepts then. Dates of commands started by hand are free.
- The pages of a history answer are taken as of one moment. The loop that collects them is
  in `ApiLimits`.
- Prices, cash, T and REVERSE mode are left out of the plan: a buy plan is one buy of
  `BuyQty` shares, a sell plan the quarter and the rest. Notional limits,
  orderable amounts and failed inquiries are free refusals (`ExecGate`,
  `ExecCheck`, `PlanRead`); capability settings and audit rows do not appear.
- The two reads at the start of `plan_phase`, and the reads of the readiness
  checks of `automation on`, are taken as one. What is stored later is compared
  under the optimistic lock or not at all, as in the code.
- The emergency stop is read once per run, with the gates, as in the code.
- `finish_automation` is left out: nothing reads the status of a claim.
- Malformed broker rows, which raise before anything is written, are left out.

**Capital.** The rows of `capital_allocations` are only read as sums and kept as
sums. Between the first buy and the sell-out of a cycle, `cash` stands for cash
plus the cost of the shares. A reconciliation that folds several fills raises the
version once in the model and once per fill in the code; only equality with the
version read is ever compared. A withdrawal is never authorized, which is what
`normalize_capital_rows` produces. Commands that are a single transaction are run
by a process that is free (`SomeoneFree`), so with one process everything happens
one at a time.

**Market data.** A collection sees at most one session complete, as it lasts
minutes (`NextSession`). The broker may leave out any session of an answer.

**API limits.** `revoke`, which no command calls, is left out.

**Observed while modelling, harmless or intended.** The order of a run under way
that is not recorded yet looks unknown to a reconciliation beside it and locks the
profile. A fill between the history and the holding call does the same. With
commands at the same time a final order status may be overwritten by
CANCEL_REQUESTED until the next reconciliation. A tick that dies after its claim
leaves the phase out for the day. `realized_pnl` of a cycle contains the capital
added while it was open. An `UNKNOWN` intent is resolved by no command, nor is an order
of status `UNKNOWN`.

**Strategy and backtest.** Prices, cash and T are integers with a few units to the
tick, where the code has 28 digits: orders of the model may differ from those of
the code by a share where a quotient is close to a whole number. The properties
leave room for the rounding where it accumulates (`AverageWithinPaid`). A candle
has a high and a close; the open is not used by the code and the low only by
LIMIT buys, which the strategy does not plan. Replayed files record fills that
the market of the session allowed. Benchmarks, daily rows, statistics and the
weather overlay of the report are left out.

**Schema and weather.** Indexes, tables of version 1 that keep their form, and the
removal of two obsolete tables are left out. The signal of a session depends on an
update only by how much of its year the window has. The prices are
adjusted and enter as ratios; the one absolute threshold, the average dollar volume of the
leveraged ETF, is taken not to change sides between two updates. The signals
`strong_green` and `yellow` behave like `green`. Holes in the candles
end the command before anything is saved (`EndCommand`).

**Not modelled.** Backup and restore copy the whole file with SQLite's own backup
and have no steps of their own. Configuration, the API envelope and the redaction
helpers hold no state. The dashboard is a view that starts the runners of the
backtest and of the collection, one at a time, and shows what they print. The
setup, report and diagnosis commands of `cli.py` change no order, position or
capital. The arithmetic of the weather indicators is a long list of thresholds
without state, and the statistics of a backtest are derived from its days.

## 7. The plan

1. Concurrent operations in `LiveTrading`: automation on beside a lock, the flag of
   an `UNKNOWN` intent beside a reconciliation, several profiles in one tick.
2. The daily snapshots of `cycle_sessions` and the position report.
3. `Schema` with orders recorded while a late second migration runs.
4. Proof: `OpenSellsCovered` for several processes over several sessions.
