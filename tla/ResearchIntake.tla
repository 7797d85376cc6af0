--------------------------- MODULE ResearchIntake ---------------------------
(* The research source pipeline: ops/fetch_research_sources.py turns a live  *)
(* answer or a saved raw snapshot into a staging JSONL file of records with  *)
(* Date-IDs, and ops/research_source_intake.py saves such a file into the    *)
(* SQLite Date-ID store and regenerates Date.md from the store.  The two     *)
(* scripts run in two terminals, so their steps interleave; either may be    *)
(* killed between two steps.  Plain file writes truncate first, so a killed  *)
(* write leaves a prefix of the file.                                        *)
EXTENDS Integers, Sequences, FiniteSets, SequencesExt

CONSTANTS Facts,          \* what the providers know: [src, subject, day, ts]
          Names,          \* snapshot file names (second of the fetch and hash)
          Files,          \* staging JSONL files
          OperatorIds,    \* Date-IDs an operator passes with --date-id
          Seed,           \* records already in the store
          ByHand,         \* staging lines an operator wrote by hand
          BudgetArgs,     \* the cap flags of a command: [profile, own]
          ProfileCaps,    \* the caps of the kr-real-smoke profile
          MaxList,        \* longest disclosure list a provider returns
          MaxFetches, MaxIntakes, MaxCrashes, None

VARIABLES snaps,      \* Names -> snapshot file
          files,      \* Files -> staging file
          store,      \* [here, rows]: the committed rows of the Date-ID store
          dateMd,     \* the Date.md file
          fetch,      \* the run of fetch_research_sources.py
          intake,     \* the run of research_source_intake.py
          left        \* bounds on runs and crashes

vars == <<snaps, files, store, dateMd, fetch, intake, left>>

---------------------------------------------------------------------------
(* Records and Date-IDs.  A Date-ID is <<day, sequence>>; the store and the  *)
(* exporter order it as the text YYMMDD-N, so sequence 10 precedes 9.        *)

Symbol(f) == IF f.src = "fred" THEN None ELSE f.subject
MarketOf(f) == IF f.src \in {"price", "manual"} THEN "KR" ELSE None

Digits(n) == IF n < 10 THEN <<n>> ELSE <<n \div 10, n % 10>>

TextLess(a, b) ==
  \/ a[1] < b[1]
  \/ /\ a[1] = b[1]
     /\ LET x == Digits(a[2])
            y == Digits(b[2])
        IN \/ x[1] < y[1]
           \/ /\ x[1] = y[1]
              /\ \/ Len(x) < Len(y)
                 \/ Len(x) = 2 /\ Len(y) = 2 /\ x[2] < y[2]

NextSequence(rows, day) ==
  LET used == {r.id[2] : r \in {x \in rows : x.id[1] = day}}
  IN 1 + (CHOOSE m \in used \cup {0} : \A u \in used : u <= m)

AllocateDateIds(facts, rows) ==
  [i \in 1..Len(facts) |->
    <<facts[i].day,
      NextSequence(rows, facts[i].day)
        + Cardinality({j \in 1..(i - 1) : facts[j].day = facts[i].day})>>]

---------------------------------------------------------------------------
(* The context budget: which records of the store Date.md shows.             *)

ResolveCaps(arg) ==
  LET base == IF arg.profile = "kr-real-smoke" THEN ProfileCaps
              ELSE [global |-> None, price |-> None, disclosure |-> None]
      caps == [g \in DOMAIN base |->
                 IF arg.own[g] # None THEN arg.own[g] ELSE base[g]]
  IN IF \A g \in DOMAIN caps : caps[g] = None THEN None ELSE caps

CapsRefused(arg, mode) ==
  \/ \E g \in DOMAIN arg.own : arg.own[g] # None /\ arg.own[g] <= 0
  \/ ResolveCaps(arg) # None /\ mode = "validate-only"

NewestFirst(a, b) ==
  \/ a.fact.ts > b.fact.ts
  \/ a.fact.ts = b.fact.ts /\ TextLess(a.id, b.id)

SelectTopN(records, limit) ==
  {r \in records : Cardinality({s \in records : NewestFirst(s, r)}) < limit}

IsGlobal(r) == Symbol(r.fact) = None /\ MarketOf(r.fact) = None
IsPrice(r) == r.fact.src = "price"
IsDisclosure(r) == r.fact.src = "dart"

GroupKey(budget, r) ==
  CASE budget = "global" -> r.fact.src
    [] budget = "price" -> <<MarketOf(r.fact), Symbol(r.fact)>>
    [] budget = "disclosure" -> Symbol(r.fact)

CapGrouped(records, budget, cap) ==
  IF cap = None THEN records
  ELSE UNION {SelectTopN({r \in records : GroupKey(budget, r) = k}, cap) :
                k \in {GroupKey(budget, r) : r \in records}}

SelectContextRecords(rows, caps) ==
  CapGrouped({r \in rows : IsGlobal(r)}, "global", caps.global)
    \cup CapGrouped({r \in rows : IsPrice(r)}, "price", caps.price)
    \cup CapGrouped({r \in rows : IsDisclosure(r)}, "disclosure", caps.disclosure)
    \cup {r \in rows : ~IsGlobal(r) /\ ~IsPrice(r) /\ ~IsDisclosure(r)}

RecordsForExport(rows, caps) ==
  IF caps = None THEN rows ELSE SelectContextRecords(rows, caps)

RenderDateMd(records) ==
  SetToSortSeq(records, LAMBDA a, b : TextLess(a.id, b.id))

---------------------------------------------------------------------------
(* Files.  `torn` marks a file a killed write cut in the middle of a line.   *)

NoFile == [here |-> FALSE, recs |-> <<>>, torn |-> FALSE, at |-> -1]
NoSnapshot == [here |-> FALSE, src |-> None, subject |-> None, facts |-> <<>>,
               torn |-> FALSE]

IdleFetch == [pc |-> "idle", mode |-> None, src |-> None, subject |-> None,
              dateId |-> None, snap |-> None, out |-> None, force |-> FALSE,
              limit |-> MaxList, facts |-> <<>>, recs |-> <<>>, at |-> -1]
IdleIntake == [pc |-> "idle", mode |-> None, file |-> None, force |-> FALSE,
               caps |-> None, recs |-> <<>>, at |-> -1, next |-> 1,
               rows |-> {}, committed |-> FALSE, stage |-> None]

Init ==
  /\ snaps = [n \in Names |-> NoSnapshot]
  /\ files \in [Files -> {NoFile, [NoFile EXCEPT !.here = TRUE, !.recs = ByHand]}]
  /\ store \in {[here |-> FALSE, rows |-> {}], [here |-> TRUE, rows |-> Seed]}
  /\ dateMd = NoFile
  /\ fetch = IdleFetch
  /\ intake = IdleIntake
  /\ left = [fetches |-> MaxFetches, intakes |-> MaxIntakes, crashes |-> MaxCrashes]

\* The steps each command takes, and what it asks for first.
RunReplay == [steps |-> <<"normalize", "write">>, key |-> FALSE, byStore |-> FALSE]
RunReplayDart == [RunReplay EXCEPT !.byStore = TRUE]
RunLiveSmokePrice == [steps |-> <<"request", "snapshot", "normalize", "write">>,
                      key |-> FALSE, byStore |-> FALSE]
RunLiveSmokeFred == [RunLiveSmokePrice EXCEPT !.key = TRUE]
RunLiveSmokeDart == [RunLiveSmokePrice EXCEPT !.key = TRUE, !.byStore = TRUE]

FetchRun(mode, src) ==
  IF mode = "replay" THEN IF src = "dart" THEN RunReplayDart ELSE RunReplay
  ELSE IF src = "fred" THEN RunLiveSmokeFred
  ELSE IF src = "price" THEN RunLiveSmokePrice ELSE RunLiveSmokeDart

After(steps, step) ==
  LET i == CHOOSE i \in DOMAIN steps : steps[i] = step
  IN IF i < Len(steps) THEN steps[i + 1] ELSE "idle"

AfterFetch(step) == After(FetchRun(fetch.mode, fetch.src).steps, step)

\* The fetch reports its outcome, which nothing later reads, and ends.
FetchStops == fetch' = IdleFetch

\* A run that numbers by the store takes no --date-id and a positive limit,
\* the others need the --date-id.
FetchArgsRefused(cmd, dateId, limit, key) ==
  \/ cmd.byStore = (dateId # None)
  \/ cmd.byStore /\ limit <= 0
  \/ cmd.key /\ ~key

StartFetch(mode, src, subject, dateId, limit, key, name, out, force) ==
  /\ fetch.pc = "idle" /\ left.fetches > 0
  /\ left' = [left EXCEPT !.fetches = @ - 1]
  /\ IF FetchArgsRefused(FetchRun(mode, src), dateId, limit, key) THEN FetchStops
     ELSE fetch' = [IdleFetch EXCEPT
            !.pc = Head(FetchRun(mode, src).steps),
            !.mode = mode, !.src = src, !.subject = subject, !.dateId = dateId,
            !.limit = IF FetchRun(mode, src).byStore THEN limit ELSE MaxList,
            !.snap = name, !.out = out, !.force = force]
  /\ UNCHANGED <<snaps, files, store, dateMd, intake>>

Known(src, subject) == {f \in Facts : f.src = src /\ f.subject = subject}

\* A status-000 body with a list of any length, each item once.
DartAnswers(subject) ==
  {s \in SeqOf(Known("dart", subject), MaxList) :
     \A i, j \in DOMAIN s : s[i] = s[j] => i = j}
\* The first observation, which has a value and a date.
FredAnswers(subject) == {<<f>> : f \in Known("fred", subject)}
\* The last valid close.
PriceAnswers(subject) == {<<f>> : f \in Known("price", subject)}

Answers(src, subject) ==
  IF src = "dart" THEN DartAnswers(subject)
  ELSE IF src = "fred" THEN FredAnswers(subject) ELSE PriceAnswers(subject)

\* The provider answers or the request fails (HTTP status, network, bad body).
Request ==
  /\ fetch.pc = "request"
  /\ \/ \E answer \in Answers(fetch.src, fetch.subject) :
          fetch' = [fetch EXCEPT !.pc = AfterFetch("request"), !.facts = answer]
     \/ FetchStops
  /\ UNCHANGED <<snaps, files, store, dateMd, intake, left>>

SnapshotOf(f) == [here |-> TRUE, src |-> f.src, subject |-> f.subject,
                  facts |-> f.facts, torn |-> FALSE]

PersistSnapshot ==
  /\ fetch.pc = "snapshot"
  /\ IF snaps[fetch.snap].here
     THEN FetchStops /\ UNCHANGED snaps
     ELSE /\ snaps' = [snaps EXCEPT ![fetch.snap] = SnapshotOf(fetch)]
          /\ fetch' = [fetch EXCEPT !.pc = AfterFetch("snapshot"), !.facts = <<>>]
  /\ UNCHANGED <<files, store, dateMd, intake, left>>

\* The snapshot is JSON of the right source and about the requested subject.
SnapshotMatches(snap, f) ==
  ~snap.torn /\ snap.src = f.src /\ snap.subject = f.subject

\* Dart opens (and so creates) the store and numbers on from its rows; fred
\* and price take the operator's Date-ID and never open it.
Normalize ==
  /\ fetch.pc = "normalize"
  /\ LET snap == snaps[fetch.snap]
         facts == SubSeq(snap.facts, 1,
                         IF fetch.limit < Len(snap.facts) THEN fetch.limit
                         ELSE Len(snap.facts))
         rows == store.rows
         ids == IF fetch.src = "dart" THEN AllocateDateIds(facts, rows)
                ELSE [i \in 1..Len(facts) |-> fetch.dateId]
     IN IF ~snap.here THEN FetchStops
        ELSE IF ~SnapshotMatches(snap, fetch) THEN FetchStops
        ELSE fetch' = [fetch EXCEPT !.pc = AfterFetch("normalize"),
               !.recs = [i \in 1..Len(facts) |-> [id |-> ids[i], fact |-> facts[i]]],
               !.at = IF fetch.src = "dart" THEN Cardinality(rows) ELSE -1]
  /\ store' = IF fetch.src = "dart" THEN [store EXCEPT !.here = TRUE] ELSE store
  /\ UNCHANGED <<snaps, files, dateMd, intake, left>>

\* write_text opens with truncation, then writes and closes.
WriteJsonl ==
  /\ fetch.pc = "write"
  /\ IF files[fetch.out].here /\ ~fetch.force
     THEN FetchStops /\ UNCHANGED files
     ELSE /\ files' = [files EXCEPT ![fetch.out] = [NoFile EXCEPT !.here = TRUE]]
          /\ fetch' = [fetch EXCEPT !.pc = "writing"]
  /\ UNCHANGED <<snaps, store, dateMd, intake, left>>

CloseJsonl ==
  /\ fetch.pc = "writing"
  /\ files' = [files EXCEPT ![fetch.out] =
                 [here |-> TRUE, recs |-> fetch.recs, torn |-> FALSE, at |-> fetch.at]]
  /\ FetchStops
  /\ UNCHANGED <<snaps, store, dateMd, intake, left>>

---------------------------------------------------------------------------
(* research_source_intake.py                                                 *)

\* The report: the stage, and of the run what the report is about.
IntakeStops(stage) ==
  intake' = [IdleIntake EXCEPT !.stage = stage, !.mode = intake.mode,
               !.committed = intake.committed,
               !.at = IF stage = "store" THEN intake.at ELSE -1,
               !.caps = IF stage = "complete" THEN intake.caps ELSE None,
               !.recs = IF stage = "complete" THEN intake.recs ELSE <<>>,
               !.rows = IF stage = "complete" THEN intake.rows ELSE {}]

RunNormal == <<"parse", "preflight", "save", "load", "export">>
RunExportOnly == <<"preflight", "load", "export">>
RunValidateOnly == <<"parse">>

IntakeSteps(mode) ==
  IF mode = "normal" THEN RunNormal
  ELSE IF mode = "export-only" THEN RunExportOnly ELSE RunValidateOnly

AfterIntake(step) == After(IntakeSteps(intake.mode), step)

StartIntake(mode, file, force, arg) ==
  /\ intake.pc = "idle" /\ left.intakes > 0
  /\ left' = [left EXCEPT !.intakes = @ - 1]
  /\ intake' = IF CapsRefused(arg, mode)
               THEN [IdleIntake EXCEPT !.mode = mode, !.stage = "args"]
               ELSE [IdleIntake EXCEPT !.mode = mode, !.force = force,
                       !.file = IF mode = "export-only" THEN None ELSE file,
                       !.caps = ResolveCaps(arg),
                       !.pc = Head(IntakeSteps(mode))]
  /\ UNCHANGED <<snaps, files, store, dateMd, fetch>>

\* A cut line is no JSON; two lines with one Date-ID are refused.
ParseJsonl ==
  /\ intake.pc = "parse"
  /\ LET file == files[intake.file]
         repeated == \E i, j \in DOMAIN file.recs :
                       i # j /\ file.recs[i].id = file.recs[j].id
     IN IF ~file.here \/ file.torn THEN IntakeStops("parse")
        ELSE IF repeated THEN IntakeStops("validate")
        ELSE IF AfterIntake("parse") = "idle" THEN IntakeStops("complete")
        ELSE intake' = [intake EXCEPT !.pc = AfterIntake("parse"), !.recs = file.recs,
                                      !.at = file.at]
  /\ UNCHANGED <<snaps, files, store, dateMd, fetch, left>>

Preflight ==
  /\ intake.pc = "preflight"
  /\ IF dateMd.here /\ ~intake.force THEN IntakeStops("export")
     ELSE intake' = [intake EXCEPT !.pc = AfterIntake("preflight")]
  /\ UNCHANGED <<snaps, files, store, dateMd, fetch, left>>

\* The rows this run's open transaction holds beside the committed ones.
Pending == {intake.recs[i] : i \in 1..(intake.next - 1)}

\* One INSERT; a Date-ID that is taken raises, and the transaction rolls back.
SaveRecord ==
  /\ intake.pc = "save" /\ intake.next <= Len(intake.recs)
  /\ LET r == intake.recs[intake.next]
     IN IF \E s \in store.rows \cup Pending : s.id = r.id
        THEN IntakeStops("store")
        ELSE intake' = [intake EXCEPT !.next = @ + 1]
  /\ store' = [store EXCEPT !.here = TRUE]
  /\ UNCHANGED <<snaps, files, dateMd, fetch, left>>

CommitShort ==
  /\ intake.pc = "save" /\ intake.next > Len(intake.recs)
  /\ store' = [here |-> TRUE,
               rows |-> store.rows \cup {intake.recs[i] : i \in 1..(Len(intake.recs) - 1)}]
  /\ intake' = [intake EXCEPT !.pc = AfterIntake("save"), !.committed = TRUE]
  /\ UNCHANGED <<snaps, files, dateMd, fetch, left>>

Commit ==
  /\ intake.pc = "save" /\ intake.next > Len(intake.recs)
  /\ store' = [here |-> TRUE, rows |-> store.rows \cup Pending]
  /\ intake' = [intake EXCEPT !.pc = AfterIntake("save"), !.committed = TRUE]
  /\ UNCHANGED <<snaps, files, dateMd, fetch, left>>

LoadRecords ==
  /\ intake.pc = "load"
  /\ IF ~store.here THEN IntakeStops("export")
     ELSE intake' = [intake EXCEPT !.pc = AfterIntake("load"), !.rows = store.rows]
  /\ UNCHANGED <<snaps, files, store, dateMd, fetch, left>>

ExportDateMd ==
  /\ intake.pc = "export"
  /\ dateMd' = [NoFile EXCEPT !.here = TRUE]
  /\ intake' = [intake EXCEPT !.pc = "exporting"]
  /\ UNCHANGED <<snaps, files, store, fetch, left>>

CloseDateMd ==
  /\ intake.pc = "exporting"
  /\ dateMd' = [here |-> TRUE, torn |-> FALSE, at |-> -1,
                recs |-> RenderDateMd(RecordsForExport(intake.rows, intake.caps))]
  /\ IntakeStops("complete")
  /\ UNCHANGED <<snaps, files, store, fetch, left>>

---------------------------------------------------------------------------
(* A killed process.  An open transaction is lost; a file being written      *)
(* keeps a prefix, possibly cut inside a line; a raw snapshot is one line.   *)

CutFiles(recs, at) ==
  {[here |-> TRUE, recs |-> SubSeq(recs, 1, n), torn |-> FALSE, at |-> at] :
     n \in 0..Len(recs)}
  \cup {[NoFile EXCEPT !.here = TRUE, !.torn = TRUE]}

CrashFetch ==
  /\ fetch.pc # "idle" /\ left.crashes > 0
  /\ left' = [left EXCEPT !.crashes = @ - 1]
  /\ IF fetch.pc = "writing"
     THEN \E cut \in CutFiles(fetch.recs, fetch.at) :
            files' = [files EXCEPT ![fetch.out] = cut]
     ELSE UNCHANGED files
  /\ \/ UNCHANGED snaps
     \/ /\ fetch.pc = "snapshot" /\ ~snaps[fetch.snap].here
        /\ snaps' = [snaps EXCEPT ![fetch.snap] =
                       [SnapshotOf(fetch) EXCEPT !.torn = TRUE]]
  /\ FetchStops
  /\ UNCHANGED <<store, dateMd, intake>>

CrashIntake ==
  /\ intake.pc # "idle" /\ left.crashes > 0
  /\ left' = [left EXCEPT !.crashes = @ - 1]
  /\ IF intake.pc = "exporting"
     THEN dateMd' = [NoFile EXCEPT !.here = TRUE, !.torn = TRUE]
     ELSE UNCHANGED dateMd
  /\ IntakeStops("crash")
  /\ UNCHANGED <<snaps, files, store, fetch>>

Sources == {f.src : f \in Facts}

Next ==
  \/ \E mode \in {"live-smoke", "replay"}, src \in Sources,
        subject \in {f.subject : f \in Facts}, dateId \in OperatorIds \cup {None},
        limit \in {0, MaxList}, key \in BOOLEAN, name \in Names, out \in Files,
        force \in BOOLEAN :
       StartFetch(mode, src, subject, dateId, limit, key, name, out, force)
  \/ Request \/ PersistSnapshot \/ Normalize \/ WriteJsonl \/ CloseJsonl
  \/ \E mode \in {"normal", "validate-only", "export-only"}, file \in Files,
        force \in BOOLEAN, arg \in BudgetArgs :
       StartIntake(mode, file, force, arg)
  \/ ParseJsonl \/ Preflight \/ SaveRecord \/ Commit \/ LoadRecords
  \/ ExportDateMd \/ CloseDateMd
  \/ CrashFetch \/ CrashIntake

Spec == Init /\ [][Next]_vars

---------------------------------------------------------------------------
(* Properties                                                                *)

TypeOK ==
  /\ \A n \in Names : snaps[n].here => snaps[n].src \in Sources
  /\ \A f \in Files : \A i \in DOMAIN files[f].recs :
         files[f].recs[i] \in ToSet(ByHand) \/ files[f].recs[i].fact \in Facts
  /\ store.here \/ store.rows = {}
  /\ fetch.pc \in {"idle", "request", "snapshot", "normalize", "write", "writing"}
  /\ intake.pc \in {"idle", "parse", "preflight", "save", "load", "export", "exporting"}
  /\ intake.stage \in {None, "args", "parse", "validate", "export", "store",
                      "complete", "crash"}

\* A Date-ID a decision cites keeps naming the same fact: a committed row is
\* never dropped or altered, and no second row takes its Date-ID, whatever is
\* fetched, saved again or killed (the PRIMARY KEY and save_record).
CitedIdIsStable ==
  \A r \in store.rows : /\ r \in store'.rows
                       /\ \A s \in store'.rows : s.id = r.id => s = r

\* A normal intake stores a staging file whole or not at all, also when a
\* later line collides or the process dies between two inserts.
AllOrNothing ==
  store'.rows # store.rows => store'.rows = store.rows \cup ToSet(intake.recs)

\* An intake that reports an error has saved nothing, so the operator may
\* correct the file or the flags and run it again.
RefusedSavesNothing ==
  intake.stage \in {"args", "parse", "validate", "export", "store"} => ~intake.committed

\* A file of allocated Date-IDs is refused by the store only when the store
\* has grown since the allocation: numbering on from the stored maximum,
\* with the batch's own reservations, never collides by itself.
RefusalHasCause ==
  intake.stage = "store" /\ intake.at >= 0 => Cardinality(store.rows) > intake.at

DateMdWritten == dateMd.here /\ ~dateMd.torn /\ intake.pc # "exporting"

\* Whatever else has happened since, a completely written Date.md quotes only
\* committed rows, each once and in the order of the Date-ID text.
DateMdQuotesStore ==
  DateMdWritten =>
    /\ ToSet(dateMd.recs) \subseteq store.rows
    /\ \A i, j \in DOMAIN dateMd.recs :
         i < j => TextLess(dateMd.recs[i].id, dateMd.recs[j].id)

\* After an intake that saved a file, each record of the file is in Date.md
\* unless the budget of its group is spent on records at least as new.
SavedIsShown ==
  intake.mode = "normal" /\ intake.stage = "complete" =>
    \A r \in ToSet(intake.recs) \ ToSet(dateMd.recs) :
      /\ intake.caps # None
      /\ \E s \in ToSet(dateMd.recs) : s.fact.src = r.fact.src /\ s.fact.ts >= r.fact.ts

GroupOf(r, rows) ==
  {s \in rows : s.fact.src = r.fact.src /\ Symbol(s.fact) = Symbol(r.fact)}
CapOf(r, caps) ==
  IF caps = None THEN None
  ELSE IF r.fact.src = "fred" THEN caps.global
  ELSE IF r.fact.src = "price" THEN caps.price
  ELSE IF r.fact.src = "dart" THEN caps.disclosure ELSE None

\* The budget holds and drops only from the old end: a group shows at most
\* its cap, and a row of the store is left out only when its group shows cap
\* many rows, none of them older than it.
NewestKept ==
  intake.mode \in {"normal", "export-only"} /\ intake.stage = "complete" =>
    LET shown == ToSet(dateMd.recs)
    IN \A r \in intake.rows :
         LET kept == GroupOf(r, shown)
             cap == CapOf(r, intake.caps)
         IN IF cap = None THEN r \in shown
            ELSE /\ Cardinality(kept) <= cap
                 /\ r \notin shown => /\ Cardinality(kept) = cap
                                      /\ \A s \in kept : s.fact.ts >= r.fact.ts

\* Everything staged, stored or shown can be checked against a raw snapshot
\* on disk that still has it: the raw answer is persisted before it is used
\* and no later fetch overwrites it.
TracesToSnapshot ==
  LET backed == UNION {ToSet(snaps[n].facts) : n \in {m \in Names : ~snaps[m].torn}}
      staged == UNION {ToSet(files[f].recs) : f \in Files}
  IN \A r \in (staged \cup store.rows) \ (Seed \cup ToSet(ByHand)) : r.fact \in backed

\* Without --force-date-md an intake leaves an existing Date.md alone, and
\* without --force a fetch leaves an existing staging file alone.
UnforcedKeeps ==
  /\ dateMd.here /\ intake.pc # "exporting" /\ dateMd' # dateMd => intake.force
  /\ \A f \in Files :
       files[f].here /\ fetch.pc # "writing" /\ files'[f] # files[f] => fetch.force
=============================================================================
