---------------------------- MODULE MCResearchDesk ----------------------------
(***************************************************************************)
(* The work that precedes a paper day: fetching and storing research       *)
(* sources from two terminals, the hand-off bundle of the KR intake, and   *)
(* the manual Scout, Allocator and Analysis rounds.                        *)
(*                                                                         *)
(* They share no state here. A behaviour runs one of them, named by part,  *)
(* and the others are off.                                                 *)
(***************************************************************************)
EXTENDS Integers, FiniteSets, Sequences, TLC

CONSTANTS
    Running,    \* the components to run
    n1, n2, f1,             \* snapshot file names and a staging file
    Scout, Allocator,
    None

VARIABLES
    part,       \* the component that runs
    deskSnaps, deskFiles, deskStore, deskDateMd, deskFetch, deskIntake, deskLeft,
    bundleFiles, bundleInput, bundleGen, bundlePreflight, bundleValidator, bundleBuilder,
    bundleVerifier, bundleRuns, bundleTampers,
    roundStore, roundDateMd, roundUniverse, roundNow, roundFiles, roundTool,
    roundFinished, roundAnswers, roundForced, roundUpsets

deskVars ==
    <<deskSnaps, deskFiles, deskStore, deskDateMd, deskFetch, deskIntake, deskLeft>>
bundleVars ==
    <<bundleFiles, bundleInput, bundleGen, bundlePreflight, bundleValidator,
      bundleBuilder, bundleVerifier, bundleRuns, bundleTampers>>
roundVars ==
    <<roundStore, roundDateMd, roundUniverse, roundNow, roundFiles, roundTool,
      roundFinished, roundAnswers, roundForced, roundUpsets>>


Symmetry == Permutations({n1, n2})

(* Two disclosures and a price of one symbol to fetch; the store may start   *)
(* with a hand-written record numbered 9, so that allocation crosses from    *)
(* one digit to two, and a macro observation.                                *)
Disclosure(t) == [src |-> "dart", subject |-> "s1", day |-> 1, ts |-> t]
Manual(t) == [src |-> "manual", subject |-> "s1", day |-> 1, ts |-> t]
Disclosures == {Disclosure(1), Disclosure(2)}
Facts == Disclosures \cup {[src |-> "price", subject |-> "s1", day |-> 1, ts |-> 1]}
Seed == {[id |-> <<1, 9>>, fact |-> Manual(1)],
         [id |-> <<1, 2>>, fact |-> [src |-> "fred", subject |-> "x1", day |-> 1, ts |-> 1]]}
ByHand == <<[id |-> <<1, 3>>, fact |-> Manual(1)], [id |-> <<1, 3>>, fact |-> Manual(2)]>>
ProfileCaps == [global |-> 5, price |-> 1, disclosure |-> 5]
NoOwn == [global |-> None, price |-> None, disclosure |-> None]
Uncapped == [profile |-> None, own |-> NoOwn]
BudgetArgs == {[profile |-> "kr-real-smoke", own |-> [NoOwn EXCEPT !.disclosure = 1]],
               [profile |-> None, own |-> [NoOwn EXCEPT !.global = 0]]}

(* Inputs of the hand-off with and without listed sources and broken ones;   *)
(* manifests of two or of all the artifacts.                                 *)
HandoffInput(price, dart, combined, store) ==
    [toml |-> "ok", universe |-> "ok", mapping |-> "ok", covered |-> TRUE, promotes |-> FALSE,
     optional |-> [price |-> price, dart |-> dart, combined |-> combined, store |-> store]]
HandoffInputs ==
    {HandoffInput("unlisted", "unlisted", "unlisted", "unlisted"),
     [HandoffInput("ok", "unlisted", "ok", "bad") EXCEPT !.promotes = TRUE],
     [HandoffInput("ok", "ok", "ok", "ok") EXCEPT !.toml = "bad"],
     [HandoffInput("ok", "ok", "ok", "ok") EXCEPT !.covered = FALSE],
     HandoffInput("ok", "missing", "unlisted", "ok")}
AllRoles == {"summary", "md", "plan", "report"}
PreflightArgs ==
    {[outs |-> {"plan", "summary", "md"}, emit |-> TRUE, force |-> f] : f \in BOOLEAN}
    \cup {[outs |-> {"plan", "summary"}, emit |-> FALSE, force |-> TRUE]}
ValidatorArgs == {[out |-> TRUE, force |-> TRUE], [out |-> FALSE, force |-> FALSE]}
BuilderArgs == {[roles |-> AllRoles, base |-> FALSE, force |-> FALSE],
                [roles |-> {"plan", "report"}, base |-> TRUE, force |-> TRUE],
                [roles |-> AllRoles, base |-> TRUE, force |-> FALSE]}
VerifierArgs == {[out |-> b, base |-> b, force |-> FALSE] : b \in BOOLEAN}
HandoffRuns == [preflight |-> 2, validator |-> 1, builder |-> 1, verifier |-> 1]

(* Two universes of one symbol each, a record without symbol, a price of     *)
(* each symbol and a disclosure that names a symbol only.                    *)
A == [market |-> "KR", symbol |-> "a"]
B == [market |-> "US", symbol |-> "b"]
MaxAge == [price |-> 0, news |-> 1, disclosure |-> 1]
Rec(i, k, t, m, s) == [id |-> i, kind |-> k, ts |-> t, market |-> m, symbol |-> s]
FirstRecords ==
    {Rec(1, "news", 0, None, None), Rec(2, "price", 0, "KR", "a"), Rec(3, "price", 0, "US", "b")}
Records == FirstRecords \cup {Rec(4, "disclosure", 1, None, "a")}
Universes == {[name |-> "ua", base |-> "KR", enabled |-> {A}], [name |-> "ub", base |-> "MIXED", enabled |-> {B}]}
Portfolio(lo, hi) ==
    [snapshotNav |-> 100, nav |-> 100, snapshotCash |-> 30, cash |-> 30, maxPosition |-> 10,
     minCash |-> lo, maxCash |-> hi, allowedMarkets |-> {"KR"}, paperOnly |-> TRUE]
Portfolios == {Portfolio(10, 30), Portfolio(25, 30)}
Exports == {{1, 3}, {1, 2, 4}, {}}
ScoutArgs ==
    {[scope |-> None, kinds |-> None, max |-> None, coverage |-> FALSE, force |-> f] : f \in BOOLEAN}
    \cup {[scope |-> "US", kinds |-> {"price", "disclosure"}, max |-> 1, coverage |-> TRUE, force |-> FALSE]}
AllocatorArgs == {[summary |-> ~f, universe |-> ~f, force |-> f] : f \in BOOLEAN}
Band(t) == [target |-> t, tolerance |-> 5]
AnalysisArgs ==
    {[pair |-> p, summary |-> ~f, universe |-> f, tolerance |-> None, force |-> f] :
        p \in {A, B}, f \in BOOLEAN}
    \cup {[pair |-> A, summary |-> TRUE, universe |-> TRUE, tolerance |-> Band(10), force |-> FALSE]}
ScoutChecks == {[store |-> f, force |-> f] : f \in BOOLEAN}
AllocatorChecks == {[force |-> f] : f \in BOOLEAN}
AnalysisChecks ==
    {[raw |-> r, input |-> i, tolerance |-> None, force |-> FALSE] : r, i \in {A, B}}
    \cup {[raw |-> A, input |-> A, tolerance |-> Band(20), force |-> TRUE]}
Cites(u, c) == [universe |-> u, schema |-> TRUE, cites |-> c]
ScoutDrafts == {Cites("ua", {2}), Cites("ub", {1, 3})}
AllocatorDrafts ==
    {Cites("ua", {2}) @@ [figures |->
        [kr |-> 75, us |-> 0, gold |-> 25, mode |-> "exception", aa |-> [kr |-> 75, us |-> 0, gold |-> 25],
         cash |-> 10, recommended |-> 10, min |-> None, max |-> None, passed |-> TRUE]]}
AnalysisDrafts ==
    {Cites("ua", {2}) @@ [pair |-> A, weight |-> 12], Cites("ub", {1, 2}) @@ [pair |-> B, weight |-> 12]}

(* Rounds that are done again: the scout for the other universe, after the   *)
(* allocator.                                                                *)
RedoneScoutArgs == {a \in ScoutArgs : a.scope = None}
RedoneAllocatorArgs == {a \in AllocatorArgs : ~a.force}
RedoneAnalysisArgs == {a \in AnalysisArgs : a.pair = B /\ ~a.force}
RedoneAnalysisChecks == {a \in AnalysisChecks : a.raw = B /\ a.input = B}
RedoneAnalysisDrafts == {d \in AnalysisDrafts : d.pair = B}

-----------------------------------------------------------------------------
Intake == INSTANCE ResearchIntake WITH
        snaps <- deskSnaps, files <- deskFiles, store <- deskStore, dateMd <- deskDateMd,
        fetch <- deskFetch, intake <- deskIntake, left <- deskLeft, Facts <- Facts,
        Names <- {n1, n2}, Files <- {f1}, OperatorIds <- {<<1, 1>>}, Seed <- Seed,
        ByHand <- ByHand, BudgetArgs <- BudgetArgs, ProfileCaps <- ProfileCaps,
        MaxList <- 2, MaxFetches <- 2, MaxIntakes <- 2, MaxCrashes <- 0

Killed == INSTANCE ResearchIntake WITH
        snaps <- deskSnaps, files <- deskFiles, store <- deskStore, dateMd <- deskDateMd,
        fetch <- deskFetch, intake <- deskIntake, left <- deskLeft, Facts <- Disclosures,
        Names <- {n1, n2}, Files <- {f1}, OperatorIds <- {}, Seed <- Seed,
        ByHand <- ByHand, BudgetArgs <- {Uncapped}, ProfileCaps <- ProfileCaps,
        MaxList <- 2, MaxFetches <- 2, MaxIntakes <- 2, MaxCrashes <- 1

Handoff == INSTANCE KrHandoff WITH
        files <- bundleFiles, input <- bundleInput, gen <- bundleGen,
        preflight <- bundlePreflight, validator <- bundleValidator,
        builder <- bundleBuilder, verifier <- bundleVerifier, runs <- bundleRuns,
        tampers <- bundleTampers, Inputs <- HandoffInputs,
        PreflightArgs <- PreflightArgs, ValidatorArgs <- ValidatorArgs,
        BuilderArgs <- BuilderArgs, VerifierArgs <- VerifierArgs, Outside <- {"md"},
        MaxRuns <- HandoffRuns, MaxTampers <- 1, MaxEdits <- 1

Rounds == INSTANCE ManualRounds WITH
        store <- roundStore, dateMd <- roundDateMd, universe <- roundUniverse,
        now <- roundNow, files <- roundFiles, tool <- roundTool,
        finished <- roundFinished, answers <- roundAnswers, forced <- roundForced,
        upsets <- roundUpsets, Pairs <- {A, B}, InitStore <- FirstRecords,
        MaxAnswers <- 3, MaxForced <- 1, MaxUpsets <- 1

Redone == INSTANCE ManualRounds WITH
        store <- roundStore, dateMd <- roundDateMd, universe <- roundUniverse,
        now <- roundNow, files <- roundFiles, tool <- roundTool,
        finished <- roundFinished, answers <- roundAnswers, forced <- roundForced,
        upsets <- roundUpsets, Pairs <- {B}, Records <- FirstRecords,
        InitStore <- FirstRecords, Exports <- {}, Portfolios <- {Portfolio(10, 30)},
        ScoutArgs <- RedoneScoutArgs, AllocatorArgs <- RedoneAllocatorArgs,
        AnalysisArgs <- RedoneAnalysisArgs, AllocatorChecks <- {[force |-> FALSE]},
        AnalysisChecks <- RedoneAnalysisChecks, AnalysisDrafts <- RedoneAnalysisDrafts,
        MaxAnswers <- 4, MaxForced <- 2, MaxUpsets <- 1

Off == "off"

deskRests ==
    /\ deskSnaps = Off /\ deskFiles = Off /\ deskStore = Off /\ deskDateMd = Off
    /\ deskFetch = Off /\ deskIntake = Off /\ deskLeft = Off

bundleRests ==
    /\ bundleFiles = Off /\ bundleInput = Off /\ bundleGen = Off /\ bundlePreflight = Off
    /\ bundleValidator = Off /\ bundleBuilder = Off /\ bundleVerifier = Off
    /\ bundleRuns = Off /\ bundleTampers = Off

roundRests ==
    /\ roundStore = Off /\ roundDateMd = Off /\ roundUniverse = Off /\ roundNow = Off
    /\ roundFiles = Off /\ roundTool = Off /\ roundFinished = Off /\ roundAnswers = Off
    /\ roundForced = Off /\ roundUpsets = Off

RunInit ==
    /\ part \in Running
    /\ IF part = "intake" THEN Intake!Init ELSE IF part = "killed" THEN Killed!Init ELSE deskRests
    /\ IF part = "handoff" THEN Handoff!Init ELSE bundleRests
    /\ IF part = "rounds" THEN Rounds!Init ELSE IF part = "redone rounds" THEN Redone!Init ELSE roundRests

RunNext ==
    \/ part = "intake" /\ Intake!Next /\ UNCHANGED <<part, bundleVars, roundVars>>
    \/ part = "killed" /\ Killed!Next /\ UNCHANGED <<part, bundleVars, roundVars>>
    \/ part = "handoff" /\ Handoff!Next /\ UNCHANGED <<part, deskVars, roundVars>>
    \/ part = "rounds" /\ Rounds!Next /\ UNCHANGED <<part, deskVars, bundleVars>>
    \/ part = "redone rounds" /\ Redone!Next /\ UNCHANGED <<part, deskVars, bundleVars>>

runVars == <<part, deskVars, bundleVars, roundVars>>

RunSpec == RunInit /\ [][RunNext]_runVars

-----------------------------------------------------------------------------
(* What an intake refused it did not save, and it refuses for a cause; after *)
(* an intake Date.md shows each saved record unless its group's budget went  *)
(* to newer ones; a complete Date.md quotes committed rows in order;         *)
(* everything staged or stored goes back to a raw snapshot on disk; a        *)
(* Date-ID that a decision may cite keeps naming the same fact, a staging    *)
(* file is stored whole or not at all, and files are replaced only by forced *)
(* runs, although two scripts interleave and either may be killed            *)
(* (_run_normal, _cap_group, fetch_source, save_record).                     *)
SourcesAreAccountedFor ==
    /\ [](/\ part = "intake" =>
                /\ Intake!RefusedSavesNothing
                /\ Intake!RefusalHasCause
                /\ Intake!SavedIsShown
                /\ Intake!NewestKept
          /\ part = "killed" => Killed!DateMdQuotesStore /\ Killed!TracesToSnapshot)
    /\ [][/\ part = "intake" => Intake!CitedIdIsStable /\ Intake!UnforcedKeeps
         /\ part = "killed" => Killed!AllOrNothing /\ Killed!CitedIdIsStable]_runVars


=============================================================================
