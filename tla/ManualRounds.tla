------------------------------ MODULE ManualRounds ------------------------------
(***************************************************************************)
(* The manual decision rounds of a paper day: Scout, Allocator, then one    *)
(* Analysis per symbol.  In each round ops/build_*_manual_packet.py writes  *)
(* an input and a prompt, a person has a language model answer the prompt   *)
(* and saves its raw answer, and ops/validate_*_raw_json.py writes the      *)
(* validated decision.  Every tool writes three plain files one after the   *)
(* other and may die in between; the store grows, Date.md is exported anew  *)
(* and the universe file is replaced while the rounds go on.                *)
(***************************************************************************)
EXTENDS Integers, FiniteSets, Sequences, TLC

-----------------------------------------------------------------------------
(***************************************************************************)
(* The pure rules that the manual decision rounds share: which source       *)
(* records a round may see, what makes a cited Date-ID acceptable now, and  *)
(* the business rules on the figures of an allocator or an analysis         *)
(* decision.  Percentages are whole numbers; a source record is             *)
(*   [id, kind, ts, market, symbol], market and symbol None when absent;    *)
(* a universe is [name, base, enabled], enabled a set of [market, symbol].  *)
(***************************************************************************)

CONSTANTS
    None,
    MaxAge          \* fact type -> ticks a record stays fresh

Ids(records) == {r.id : r \in records}

(* domain/staleness.py: a record of the future raises, else it is stale by age. *)
Age(r, now) == now - r.ts
IsFuture(r, now) == r.ts > now
IsStale(r, now) == Age(r, now) > MaxAge[r.kind]

(* data/date_id_validator.py: the first thing wrong with one Date-ID. *)
SingleDateIdIssue(store, id, now) ==
    IF id \notin Ids(store) THEN "DATE_ID_MISSING"
    ELSE LET r == CHOOSE q \in store : q.id = id
         IN  IF IsFuture(r, now) THEN "DATE_ID_FUTURE_SOURCE"
             ELSE IF IsStale(r, now) THEN "DATE_ID_STALE" ELSE "ok"

DateIdIssues(store, ids, now) == {SingleDateIdIssue(store, id, now) : id \in ids} \ {"ok"}

-----------------------------------------------------------------------------
(* Selecting the records of a Scout round.                                  *)

ResolveMarketScope(universe, cliScope) == IF cliScope # None THEN cliScope ELSE universe.base

EnabledPairs(universe, scope) ==
    IF scope \in {"KR", "US"} THEN {p \in universe.enabled : p.market = scope} ELSE universe.enabled

Pair(r) == [market |-> r.market, symbol |-> r.symbol]

IsGlobal(r) == r.symbol = None /\ r.market = None

(* A disclosure may name its symbol without a market; nothing else may.     *)
SelectStoreRecords(store, ids, pairs) ==
    {r \in store :
        /\ r.id \in ids
        /\ \/ IsGlobal(r)
           \/ r.symbol # None /\ r.market # None /\ Pair(r) \in pairs
           \/ /\ r.kind = "disclosure" /\ r.symbol # None /\ r.market = None
              /\ \E p \in pairs : p.symbol = r.symbol}

FilterRecords(records, kinds) == IF kinds = None THEN records ELSE {r \in records : r.kind \in kinds}

(* The order of the sort: newest first, equal timestamps by Date-ID. *)
Before(r, q) == r.ts > q.ts \/ (r.ts = q.ts /\ r.id < q.id)

FirstOf(records, n) ==
    IF n = None THEN records
    ELSE {r \in records : Cardinality({q \in records : Before(q, r)}) < n}

BuildInput(universe, records, kinds, n) ==
    [universe |-> universe.name, records |-> FirstOf(FilterRecords(records, kinds), n)]

(* ops/run_date_md_smoke.py: the symbols that some record of the store names. *)
ReferencedPairs(store) == {Pair(r) : r \in {q \in store : q.symbol # None /\ q.market # None}}

MissingSymbols(universe, store) == universe.enabled \ ReferencedPairs(store)

SmokeOk(universe, ids, store, requireCoverage) ==
    /\ ids # {} /\ ids \subseteq Ids(store)
    /\ requireCoverage => MissingSymbols(universe, store) = {}

-----------------------------------------------------------------------------
(* The figures of an allocator decision: [kr, us, gold, mode, aa, cash,     *)
(* recommended, min, max, passed]; aa are the weights the asset allocator   *)
(* states, min and max may be None.                                         *)

TargetWeightsSum(w) == w.kr + w.us + w.gold
IsTargetWeightsSumValid(w) == TargetWeightsSum(w) = 100
IsCashTargetInBand(cash) == 10 <= cash /\ cash <= 30
IsGoldInBand(gold, mode) == IF mode = "normal" THEN 18 <= gold /\ gold <= 22 ELSE 15 <= gold /\ gold <= 25

Weights(f) == [kr |-> f.kr, us |-> f.us, gold |-> f.gold]

(* The bounds the schema itself enforces. *)
CashPolicyOk(f) ==
    /\ f.min # None /\ f.max # None => f.min <= f.max
    /\ f.min # None => f.cash >= f.min
    /\ f.max # None => f.cash <= f.max

AllocatorBusinessIssues(f) ==
    (IF IsTargetWeightsSumValid(Weights(f)) THEN {} ELSE {"TARGET_WEIGHTS_SUM_INVALID"})
    \cup (IF IsGoldInBand(f.gold, f.mode) THEN {} ELSE {"GOLD_BAND_VIOLATION"})
    \cup (IF IsCashTargetInBand(f.cash) THEN {} ELSE {"CASH_TARGET_BAND_VIOLATION"})
    \cup (IF Weights(f) = f.aa THEN {} ELSE {"TARGET_WEIGHTS_MISMATCH"})
    \cup (IF f.cash = f.recommended THEN {} ELSE {"CASH_TARGET_MISMATCH"})
    \cup (IF f.passed THEN {} ELSE {"CONSISTENCY_CHECK_FAILED"})

AllocatorValid(store, d, now) ==
    AllocatorBusinessIssues(d.figures) = {} /\ DateIdIssues(store, d.cites, now) = {}

(* A tolerance context: None, or [target, tolerance]. *)
IsWithinAllocatorTolerance(weight, t) == t.target - t.tolerance <= weight /\ weight <= t.target + t.tolerance

AnalysisBusinessIssues(d, tolerance) ==
    IF tolerance = None THEN {}
    ELSE IF IsWithinAllocatorTolerance(d.weight, tolerance) THEN {} ELSE {"ALLOCATOR_TOLERANCE_VIOLATION"}

AnalysisValid(store, d, tolerance, now) ==
    AnalysisBusinessIssues(d, tolerance) = {} /\ DateIdIssues(store, d.cites, now) = {}

-----------------------------------------------------------------------------

CONSTANTS
    Scout, Allocator,   \* the first two rounds; an analysis round is its pair
    Records,        \* source records, one per Date-ID
    InitStore,      \* the records at the start
    Universes,      \* universe files; a name stands for one content
    Portfolios,     \* portfolio states
    Exports,        \* sets of Date-IDs a later Date.md may list
    Pairs,          \* the [market, symbol] an analysis round may be for
    ScoutArgs, AllocatorArgs, AnalysisArgs,      \* command lines of the packet builders
    ScoutChecks, AllocatorChecks, AnalysisChecks,\* command lines of the validators
    ScoutDrafts, AllocatorDrafts, AnalysisDrafts,\* what a model may answer
    MaxAnswers, MaxForced,
    MaxUpsets       \* deaths of a tool and changes of the store, Date.md, the universe or the clock

VARIABLES
    store, dateMd, universe, now,
    files,          \* round -> kind of file -> None or its content
    tool,           \* the running tool, Idle when none runs
    finished,       \* answers whose validation wrote all its files
    answers, forced, upsets

vars == <<store, dateMd, universe, now, files, tool, finished, answers, forced, upsets>>

Rounds == {Scout, Allocator} \cup Pairs
PacketFiles == <<"input", "prompt", "packet">>
ValidationFiles == <<"validated", "txt", "summary">>
Kinds == {"input", "prompt", "packet", "raw", "validated", "txt", "summary"}

Idle == [round |-> None, content |-> None, left |-> <<>>]

Init ==
    /\ store = InitStore /\ dateMd = Ids(InitStore)
    /\ universe \in Universes
    /\ now = 0
    /\ files = [r \in Rounds |-> [k \in Kinds |-> None]]
    /\ tool = Idle /\ finished = {}
    /\ answers = 0 /\ forced = 0 /\ upsets = 0

-----------------------------------------------------------------------------
(* Around the tools.  A tool has read everything before it writes, so what  *)
(* changes while it writes might as well change when it has ended.          *)

Intake(r) ==
    /\ tool = Idle /\ upsets < MaxUpsets /\ r.id \notin Ids(store)
    /\ store' = store \cup {r} /\ upsets' = upsets + 1
    /\ UNCHANGED <<dateMd, universe, now, files, tool, finished, answers, forced>>

Export(ids) ==
    /\ tool = Idle /\ upsets < MaxUpsets /\ ids # dateMd /\ ids \subseteq Ids(store)
    /\ dateMd' = ids /\ upsets' = upsets + 1
    /\ UNCHANGED <<store, universe, now, files, tool, finished, answers, forced>>

ReplaceUniverse(u) ==
    /\ tool = Idle /\ upsets < MaxUpsets /\ u # universe
    /\ universe' = u /\ upsets' = upsets + 1
    /\ UNCHANGED <<store, dateMd, now, files, tool, finished, answers, forced>>

Tick ==
    /\ tool = Idle /\ upsets < MaxUpsets
    /\ now' = now + 1 /\ upsets' = upsets + 1
    /\ UNCHANGED <<store, dateMd, universe, files, tool, finished, answers, forced>>

(* The person saves what the model answered to the round's prompt; every    *)
(* answer carries an id of its own, as the prompt asks.                     *)
Answer(round, draft) ==
    /\ tool = Idle /\ answers < MaxAnswers
    /\ files[round]["prompt"] # None
    /\ answers' = answers + 1
    /\ files' = [files EXCEPT ![round]["raw"] = draft @@ [id |-> answers + 1]]
    /\ UNCHANGED <<store, dateMd, universe, now, tool, finished, forced, upsets>>

-----------------------------------------------------------------------------
(* Writing: all three outputs must be absent unless forced, then one after  *)
(* the other is written over.                                               *)


PreflightOutDir(round, names, force) ==
    force \/ \A i \in 1..Len(names) : files[round][names[i]] = None

Begin(round, names, content, force, valid) ==
    /\ tool = Idle
    /\ valid /\ PreflightOutDir(round, names, force)
    /\ tool' = [round |-> round, content |-> content @@ [forced |-> force], left |-> names]
    /\ forced' = IF force THEN forced + 1 ELSE forced
    /\ forced' <= MaxForced
    /\ UNCHANGED <<store, dateMd, universe, now, files, finished, answers, upsets>>

(* A packet's text files and the text of a validation only say that they    *)
(* were written; the other files hold the data.                             *)
Written(kind, content) == IF kind \in {"packet", "txt"} THEN "written" ELSE content.data

WriteNext ==
    /\ tool.left # <<>>
    /\ files' = [files EXCEPT ![tool.round][Head(tool.left)] = Written(Head(tool.left), tool.content)]
    /\ tool' = IF Len(tool.left) = 1 THEN Idle ELSE [tool EXCEPT !.left = Tail(@)]
    /\ finished' = IF tool.left = <<"summary">> THEN finished \cup {tool.content.data.id} ELSE finished
    /\ UNCHANGED <<store, dateMd, universe, now, answers, forced, upsets>>

Crash ==
    /\ upsets < MaxUpsets /\ tool # Idle
    /\ tool' = Idle /\ upsets' = upsets + 1
    /\ UNCHANGED <<store, dateMd, universe, now, files, finished, answers, forced>>

-----------------------------------------------------------------------------
(* What the tools read.                                                     *)

LoadDateMdIds == dateMd
StoreConsistent == LoadDateMdIds # {} /\ LoadDateMdIds \subseteq Ids(store)

PortfolioLoads(p) ==
    /\ p.snapshotNav = p.nav /\ p.snapshotCash = p.cash
    /\ p.maxPosition > 0 /\ p.minCash <= p.maxCash
    /\ p.allowedMarkets # {} /\ p.paperOnly

(* The summary of a validation, when its path is given, must be of the      *)
(* decision in the validated file.                                          *)
ValidationSummaryOk(round, given) ==
    given => /\ files[round]["summary"] # None
             /\ files[round]["summary"].id = files[round]["validated"].id

UniverseAgrees(given, name) == given => universe.name = name

UniverseSymbolEnabled(given, name, pair) == given => universe.name = name /\ pair \in universe.enabled

-----------------------------------------------------------------------------
(* Scout.                                                                   *)

ScoutInput(a) ==
    BuildInput(universe,
               SelectStoreRecords(store, LoadDateMdIds, EnabledPairs(universe, ResolveMarketScope(universe, a.scope))),
               a.kinds, a.max)

BuildScoutPacket(a) ==
    Begin(Scout, PacketFiles, [data |-> ScoutInput(a)], a.force,
          /\ a.max # 0
          /\ SmokeOk(universe, LoadDateMdIds, store, a.coverage)
          /\ ScoutInput(a).records # {})

ScoutMembership(summary, input) ==
    /\ summary.universe = input.universe
    /\ summary.cites \subseteq Ids(input.records)
    /\ summary.cites \subseteq LoadDateMdIds

ValidateScout(a) ==
    LET raw == files[Scout]["raw"]
        input == files[Scout]["input"]
    IN  /\ raw # None /\ input # None
        /\ Begin(Scout, ValidationFiles, [data |-> raw], a.force,
                 /\ raw.schema
                 /\ LoadDateMdIds # {} /\ (a.store => StoreConsistent)
                 /\ ScoutMembership(raw, input))

-----------------------------------------------------------------------------
(* Allocator.                                                               *)

AllocatorAllowed(scout) == scout.cites \cap LoadDateMdIds

AllocatorInput(scout, p) ==
    [universe |-> scout.universe, allowed |-> AllocatorAllowed(scout),
     minCash |-> p.minCash, maxCash |-> p.maxCash]

BuildAllocatorPacket(a, p) ==
    LET scout == files[Scout]["validated"]
    IN  /\ scout # None
        /\ Begin(Allocator, PacketFiles, [data |-> AllocatorInput(scout, p), built |-> [scout |-> scout.id, given |-> a.summary]], a.force,
                 /\ PortfolioLoads(p) /\ StoreConsistent
                 /\ ValidationSummaryOk(Scout, a.summary)
                 /\ UniverseAgrees(a.universe, scout.universe)
                 /\ scout.cites \subseteq LoadDateMdIds
                 /\ AllocatorAllowed(scout) # {})

(* The figures the prompt shows as an example, and the answer that keeps    *)
(* them and cites the first allowed Date-ID.                                *)
SkeletonFigures(input) ==
    [kr |-> 80, us |-> 0, gold |-> 20, mode |-> "normal", aa |-> [kr |-> 80, us |-> 0, gold |-> 20],
     cash |-> 20, recommended |-> 20, min |-> input.minCash, max |-> input.maxCash, passed |-> TRUE]

Skeleton(input) ==
    [universe |-> input.universe, schema |-> TRUE, figures |-> SkeletonFigures(input),
     cites |-> {CHOOSE id \in input.allowed : \A j \in input.allowed : id <= j}]

AllocatorMembership(d, input) ==
    /\ d.universe = input.universe
    /\ d.cites \subseteq input.allowed
    /\ d.cites \subseteq LoadDateMdIds

AllocatorAccepts(d, input) ==
    /\ d.schema /\ CashPolicyOk(d.figures)
    /\ StoreConsistent
    /\ AllocatorMembership(d, input)
    /\ AllocatorValid(store, d, now)

ValidateAllocator(a) ==
    LET raw == files[Allocator]["raw"]
        input == files[Allocator]["input"]
    IN  /\ raw # None /\ input # None
        /\ Begin(Allocator, ValidationFiles, [data |-> raw], a.force, AllocatorAccepts(raw, input))

-----------------------------------------------------------------------------
(* Analysis.                                                                *)

ToleranceComplete(t) == t # None => t.target # None /\ t.tolerance # None

UniversesAgree(scout, alloc) == scout.universe = alloc.universe

AnalysisInput(a, scout, alloc) ==
    [universe |-> scout.universe, pair |-> a.pair, allowed |-> scout.cites \cup alloc.cites, tolerance |-> a.tolerance]

BuildAnalysisPacket(a, p) ==
    LET scout == files[Scout]["validated"]
        alloc == files[Allocator]["validated"]
    IN  /\ scout # None /\ alloc # None
        /\ Begin(a.pair, PacketFiles, [data |-> AnalysisInput(a, scout, alloc), built |-> [alloc |-> alloc.id, given |-> a.summary]], a.force,
                 /\ ToleranceComplete(a.tolerance)
                 /\ PortfolioLoads(p) /\ StoreConsistent
                 /\ UniversesAgree(scout, alloc)
                 /\ ValidationSummaryOk(Allocator, a.summary)
                 /\ UniverseSymbolEnabled(a.universe, scout.universe, a.pair)
                 /\ scout.cites \cup alloc.cites \subseteq LoadDateMdIds
                 /\ scout.cites \cup alloc.cites # {})

(* The command line's tolerance replaces the one of the input. *)
ResolveTolerance(cli, input) == IF cli # None THEN cli ELSE input.tolerance

AnalysisMembership(d, input) ==
    /\ d.universe = input.universe
    /\ d.pair = input.pair
    /\ d.cites \subseteq input.allowed
    /\ d.cites \subseteq LoadDateMdIds

(* The raw answer and the input are named apart on the command line, so     *)
(* they may be of two symbols; the files written are named by the input.    *)
ValidateAnalysis(a) ==
    LET raw == files[a.raw]["raw"]
        input == files[a.input]["input"]
    IN  /\ raw # None /\ input # None
        /\ Begin(input.pair, ValidationFiles, [data |-> raw], a.force,
                 /\ raw.schema /\ StoreConsistent
                 /\ AnalysisMembership(raw, input)
                 /\ ToleranceComplete(a.tolerance)
                 /\ AnalysisValid(store, raw, ResolveTolerance(a.tolerance, input), now))

-----------------------------------------------------------------------------
Next ==
    \/ \E r \in Records : Intake(r)
    \/ \E ids \in Exports : Export(ids)
    \/ \E u \in Universes : ReplaceUniverse(u)
    \/ Tick
    \/ \E d \in ScoutDrafts : Answer(Scout, d)
    \/ \E d \in AllocatorDrafts : Answer(Allocator, d)
    \/ \E d \in AnalysisDrafts, s \in Pairs : Answer(s, d)
    \/ files[Allocator]["prompt"] # None /\ Answer(Allocator, Skeleton(files[Allocator]["prompt"]))
    \/ \E a \in ScoutArgs : BuildScoutPacket(a)
    \/ \E a \in ScoutChecks : ValidateScout(a)
    \/ \E a \in AllocatorArgs, p \in Portfolios : BuildAllocatorPacket(a, p)
    \/ \E a \in AllocatorChecks : ValidateAllocator(a)
    \/ \E a \in AnalysisArgs, p \in Portfolios : BuildAnalysisPacket(a, p)
    \/ \E a \in AnalysisChecks : ValidateAnalysis(a)
    \/ WriteNext
    \/ Crash

Spec == Init /\ [][Next]_vars

-----------------------------------------------------------------------------
InScope(id, name) ==
    \E r \in store, u \in Universes :
        /\ r.id = id /\ u.name = name
        /\ IsGlobal(r) \/ \E p \in u.enabled : p.symbol = r.symbol

(* Whatever a validated decision of a round cites is a record of the store, *)
(* and one of the universe the decision is for or of no symbol at all: the  *)
(* checks of three validators and two packet builders, made at different    *)
(* times, let no citation of another universe through.                      *)
CitationsInScope ==
    \A r \in Rounds : files[r]["validated"] # None =>
        \A id \in files[r]["validated"].cites : InScope(id, files[r]["validated"].universe)

(* A packet that was built with its predecessor's validation summary is of  *)
(* a decision whose validation wrote all three of its files, even when an   *)
(* earlier validation of the round left an older summary behind.            *)
PredecessorFinished ==
    tool # Idle /\ "built" \in DOMAIN tool.content /\ tool.content.built.given =>
        IF tool.round = Allocator THEN tool.content.built.scout \in finished
        ELSE tool.content.built.alloc \in finished

(* The validated file named after a symbol holds a decision on that symbol, *)
(* whichever raw answer and input the command line names.                   *)
FileNamesDecision ==
    \A s \in Pairs : files[s]["validated"] # None => files[s]["validated"].pair = s

(* An answer that keeps the figures the allocator's prompt shows passes the *)
(* validator exactly when the portfolio's cash bounds admit 20 percent, as  *)
(* long as the cited record is still listed and fresh.                      *)
SkeletonAccepted ==
    LET input == files[Allocator]["input"]
    IN  input # None /\ StoreConsistent =>
          LET d == Skeleton(input)
          IN  d.cites \subseteq dateMd /\ DateIdIssues(store, d.cites, now) = {} =>
                (AllocatorAccepts(d, input) <=> input.minCash <= 20 /\ 20 <= input.maxCash)

(* A tool that was not forced replaces no file of its round, not even one   *)
(* that a run which died left alone in the directory.                       *)
UnforcedKeeps ==
    \A r \in Rounds : \A k \in Kinds \ {"raw"} :
      files[r][k] # None /\ files'[r][k] # files[r][k] => tool.content.forced
==============================================================================
