---------------------------- MODULE MarketData ----------------------------
(***************************************************************************)
(* collect_market_data (market_data.py): one file of adjusted daily        *)
(* candles per symbol and a manifest, metadata.json, with the date range   *)
(* and hash of each.  The dashboard's runner and `weather update` start    *)
(* collections; nothing keeps two of them apart, and the dashboard kills   *)
(* its runner after two minutes.                                           *)
(*                                                                         *)
(* Days are trading sessions.  What a candle says is abstracted to the     *)
(* number of later corporate actions its adjusted prices account for, so   *)
(* the candles of a day are equal exactly when they are on the same price  *)
(* basis.  A file is a function from days to candles, with an empty domain *)
(* while it does not exist; the hash of a file is the file.                *)
(***************************************************************************)
EXTENDS Integers, Sequences, FiniteSetsExt, Functions

CONSTANTS
    Setups,      \* what is collected, and by whom
    Bootstrap,   \* first day that is asked for (BOOTSTRAP_START_DATES)
    InitialDay,  \* last completed session at first
    MaxDay,      \* bound on the sessions
    Crashes      \* TRUE when processes may be killed

ASSUME MarketDataAssumption ==
    /\ Bootstrap \in Nat /\ InitialDay \in Nat /\ MaxDay \in Nat
    /\ Bootstrap <= InitialDay /\ InitialDay <= MaxDay
    /\ \A s \in Setups : s.symbols \in Seq(Range(s.symbols)) /\ IsFiniteSet(s.collectors)
    /\ Crashes \in BOOLEAN

VARIABLES
    setup,     \* the symbols in the order in which they are collected, and
               \* the processes that may collect at the same time
    today,     \* latest completed session
    actions,   \* per symbol, days with a corporate action
    file,      \* <symbol>_adjusted_daily.csv
    manifest,  \* metadata.json: per symbol the content it describes
    proc       \* collectors: program counter and locals

vars == <<setup, today, actions, file, manifest, proc>>

COLLECTED_SYMBOLS == setup.symbols
Collectors == setup.collectors
Symbols == Range(COLLECTED_SYMBOLS)
Days == Bootstrap..MaxDay
Rows == UNION {[D -> 0..MaxDay] : D \in SUBSET Days}
NoFile == [d \in {} |-> 0]
First(rows) == Min(DOMAIN rows)
Last(rows) == Max(DOMAIN rows)

(* Type invariant.                                                         *)
TypeOK ==
    /\ setup \in Setups
    /\ today \in InitialDay..MaxDay
    /\ actions \in [Symbols -> SUBSET (InitialDay + 1..MaxDay)]
    /\ file \in [Symbols -> Rows]
    /\ manifest \in [Symbols -> Rows]
    /\ proc \in [Collectors ->
         [pc : {"idle", "read", "fetch", "replace"},
          target : 0..MaxDay, k : Nat,          \* sessions up to; symbol
          rows : Rows,                          \* the file as it was read
          prepared : [Symbols -> Rows],         \* NoFile: nothing to write
          metadata : [Symbols -> Rows]]]

Nothing == [s \in Symbols |-> NoFile]
Idle == [pc |-> "idle", target |-> 0, k |-> 1, rows |-> NoFile,
         prepared |-> Nothing, metadata |-> Nothing]

(* The data in the repository: files described by the manifest, complete,  *)
(* truncated at the front, or missing.                                     *)
Init ==
    /\ setup \in Setups
    /\ today = InitialDay
    /\ actions = [s \in Symbols |-> {}]
    /\ file \in [Symbols -> {[d \in a..InitialDay |-> 0] :
                               a \in Bootstrap..InitialDay + 1}]
    /\ manifest = file
    /\ proc = [c \in Collectors |-> Idle]

At(c, label) == proc[c].pc = label
End(c) == proc' = [proc EXCEPT ![c] = Idle]
Symbol(c) == COLLECTED_SYMBOLS[proc[c].k]

(***************************************************************************)
(* The loop over the symbols.                                              *)
(***************************************************************************)

(* Mutant: the session in progress counts as completed.                    *)
StartInSession(c) ==
    /\ At(c, "idle")
    /\ proc' = [proc EXCEPT ![c] = [Idle EXCEPT !.pc = "read",
                                                !.target = today + 1]]
    /\ UNCHANGED <<setup, today, actions, file, manifest>>

Start(c) ==
    /\ At(c, "idle")
    /\ proc' = [proc EXCEPT ![c] = [Idle EXCEPT !.pc = "read",
                                                !.target = today]]
    /\ UNCHANGED <<setup, today, actions, file, manifest>>

NeedsBackfill(rows) == First(rows) > Bootstrap
(* Mutant: a file that exists needs no update.                             *)
UpToDateIfThere(rows, target) == rows # NoFile

UpToDate(rows, target) ==
    rows # NoFile /\ Last(rows) >= target /\ ~NeedsBackfill(rows)

Read(c) ==
    /\ At(c, "read") /\ proc[c].k <= Len(COLLECTED_SYMBOLS)
    /\ proc' = IF UpToDate(file[Symbol(c)], proc[c].target)
               THEN [proc EXCEPT ![c].k = @ + 1]
               ELSE [proc EXCEPT ![c].pc = "fetch", ![c].rows = file[Symbol(c)]]
    /\ UNCHANGED <<setup, today, actions, file, manifest>>

(* Adjusted prices of a day as the broker shows them now.                  *)
Price(s, d) == Cardinality({x \in actions[s] : x > d})

Whole(rows) == rows = NoFile \/ NeedsBackfill(rows)
FetchStart(rows) == IF Whole(rows) THEN Bootstrap ELSE Last(rows)
CoverageStart(rows, fetched) ==
    IF Whole(rows) THEN First(fetched) ELSE Last(rows)

(* Mutants: sessions may be missing; stored prices are taken as they are.  *)
CoversSome(rows, fetched, target) == fetched # NoFile

OverlapUnchecked(rows, fetched, target) == TRUE

(* The checks: something was returned, it reaches back to the stored       *)
(* first session, no session is missing, and stored prices are confirmed.  *)
Covers(rows, fetched, target) ==
    /\ fetched # NoFile
    /\ rows # NoFile /\ NeedsBackfill(rows)
         => CoverageStart(rows, fetched) <= First(rows)
    /\ CoverageStart(rows, fetched)..target \subseteq DOMAIN fetched

OverlapMatches(rows, fetched, target) ==
    \A d \in DOMAIN rows :
       (IF NeedsBackfill(rows) THEN d <= target ELSE d = Last(rows))
         => d \in DOMAIN fetched /\ rows[d] = fetched[d]

(* Mutant: the new sessions replace the stored ones.                       *)
MergedNewOnly(rows, fetched, target) == fetched

Merged(rows, fetched, target) ==
    LET kept == IF Whole(rows) THEN {d \in DOMAIN rows : d > target}
                               ELSE DOMAIN rows IN
    [d \in kept \union DOMAIN fetched |->
        IF d \in kept THEN rows[d] ELSE fetched[d]]

(* The broker may leave out any session, or fail; an unmet check raises,   *)
(* before anything is written.                                             *)
Fetch(c) ==
    LET l == proc[c]
        asked == FetchStart(l.rows)..l.target IN
    /\ At(c, "fetch")
    /\ \E returned \in SUBSET asked :
          LET fetched == [d \in returned |-> Price(Symbol(c), d)] IN
          /\ Covers(l.rows, fetched, l.target)
          /\ OverlapMatches(l.rows, fetched, l.target)
          /\ proc' = [proc EXCEPT
               ![c].pc = "read", ![c].k = @ + 1, ![c].rows = NoFile,
               ![c].prepared[Symbol(c)] = Merged(l.rows, fetched, l.target)]
    /\ UNCHANGED <<setup, today, actions, file, manifest>>

FetchFails(c) ==
    /\ At(c, "fetch")
    /\ End(c)
    /\ UNCHANGED <<setup, today, actions, file, manifest>>

(***************************************************************************)
(* _commit_files.                                                          *)
(***************************************************************************)

Prepared(c) == {s \in Symbols : proc[c].prepared[s] # NoFile}

NothingToCommit(c) ==
    /\ At(c, "read") /\ proc[c].k > Len(COLLECTED_SYMBOLS)
    /\ Prepared(c) = {}
    /\ End(c)
    /\ UNCHANGED <<setup, today, actions, file, manifest>>

(* Mutant: the manifest is written before the files.                       *)
ReadMetadataFirst(c) ==
    /\ At(c, "read") /\ proc[c].k > Len(COLLECTED_SYMBOLS)
    /\ Prepared(c) # {}
    /\ manifest' = [s \in Symbols |-> IF s \in Prepared(c)
                                     THEN proc[c].prepared[s]
                                     ELSE manifest[s]]
    /\ proc' = [proc EXCEPT ![c].pc = "replace", ![c].k = 1,
                            ![c].metadata = manifest']
    /\ UNCHANGED <<setup, today, actions, file>>

(* The manifest is read, and rewritten in memory for the prepared files.   *)
ReadMetadata(c) ==
    /\ At(c, "read") /\ proc[c].k > Len(COLLECTED_SYMBOLS)
    /\ Prepared(c) # {}
    /\ proc' = [proc EXCEPT
         ![c].pc = "replace", ![c].k = 1,
         ![c].metadata = [s \in Symbols |-> IF s \in Prepared(c)
                                            THEN proc[c].prepared[s]
                                            ELSE manifest[s]]]
    /\ UNCHANGED <<setup, today, actions, file, manifest>>

(* os.replace, one file after the other in the order of collection.        *)
Replace(c) ==
    /\ At(c, "replace") /\ proc[c].k <= Len(COLLECTED_SYMBOLS)
    /\ file' = IF Symbol(c) \in Prepared(c)
               THEN [file EXCEPT ![Symbol(c)] = proc[c].prepared[Symbol(c)]]
               ELSE file
    /\ proc' = [proc EXCEPT ![c].k = @ + 1]
    /\ UNCHANGED <<setup, today, actions, manifest>>

(* ... and the manifest last.                                              *)
ReplaceMetadata(c) ==
    /\ At(c, "replace") /\ proc[c].k > Len(COLLECTED_SYMBOLS)
    /\ manifest' = proc[c].metadata
    /\ End(c)
    /\ UNCHANGED <<setup, today, actions, file>>

(***************************************************************************)
(* The world around.                                                       *)
(***************************************************************************)

(* Another session completes; a corporate action may take effect with it.  *)
(* A collection lasts minutes: it sees one session complete at most.       *)
NextSession ==
    /\ today < MaxDay
    /\ \A c \in Collectors : ~At(c, "idle") => proc[c].target = today
    /\ today' = today + 1
    /\ \E acting \in SUBSET Symbols :
          actions' = [s \in Symbols |-> IF s \in acting
                                        THEN actions[s] \union {today + 1}
                                        ELSE actions[s]]
    /\ UNCHANGED <<setup, file, manifest, proc>>

(* The dashboard's timeout, or a replacement the file system refuses.      *)
Crash(c) ==
    /\ Crashes /\ ~At(c, "idle")
    /\ End(c)
    /\ UNCHANGED <<setup, today, actions, file, manifest>>

Next ==
    \/ \E c \in Collectors :
          \/ Start(c) \/ Read(c) \/ Fetch(c) \/ FetchFails(c)
          \/ NothingToCommit(c) \/ ReadMetadata(c) \/ Replace(c)
          \/ ReplaceMetadata(c) \/ Crash(c)
    \/ NextSession

Spec == Init /\ [][Next]_vars

(***************************************************************************)
(* Properties.                                                             *)
(***************************************************************************)

(* No file has a gap: a session between the first and the last is never    *)
(* missing, whatever the broker left out and whoever else collected.       *)
ContiguousSessions ==
    \A s \in Symbols : \A a, b \in DOMAIN file[s] : a..b \subseteq DOMAIN file[s]

(* "Refusing to mix price bases": all prices of a file are as the broker   *)
(* showed them at one moment, although files are extended piece by piece   *)
(* and only the last stored session is compared.                           *)
OneBasis ==
    \A s \in Symbols : \E t \in InitialDay..today : \A d \in DOMAIN file[s] :
       file[s][d] = Cardinality({x \in actions[s] : d < x /\ x <= t})

Alone == Cardinality(Collectors) = 1

(* One collection at a time, killed or not, never takes a stored session   *)
(* out of a file.                                                          *)
FilesNeverRegress ==
    [][Alone =>
         \A s \in Symbols : DOMAIN file[s] \subseteq DOMAIN file'[s]]_vars

Completes(c) == NothingToCommit(c) \/ ReplaceMetadata(c)

(* A collection that nobody interferes with and that reports success has   *)
(* brought every file to its target, also when an earlier one was killed   *)
(* between two replacements.                                               *)
CompletedMeansCurrent ==
    [][\A c \in Collectors : Alone /\ Completes(c) =>
         \A s \in Symbols : /\ file'[s] # NoFile
                            /\ Last(file'[s]) >= proc[c].target]_vars

(* _commit_files writes the manifest last: wherever one collection is      *)
(* killed, the manifest claims no session that its file does not have.     *)
ManifestNeverAhead ==
    Alone => \A s \in Symbols : DOMAIN manifest[s] \subseteq DOMAIN file[s]
=============================================================================
