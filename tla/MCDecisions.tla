----------------------------- MODULE MCDecisions -----------------------------
(***************************************************************************)
(* How a decision becomes the active one and is read back: the refresh     *)
(* scheduler with two owners over one store, the four-slot publisher of    *)
(* the attended day, and a published row with its two readers.             *)
(*                                                                         *)
(* They share no state here. A behaviour runs one of them, named by part,  *)
(* and the others stand still.                                             *)
(***************************************************************************)
EXTENDS DecisionRefreshScheduler, Integers, TLC

CONSTANTS
    Running,    \* the components to run
    o1, o2, am, pm, d1, d2,         \* owners, slots and decisions
    None

VARIABLES
    part,       \* the component that runs
    pilotPointer, pilotVersions, pilotSlots, pilotMinted, pilotNow, pilotCursor,
    pilotPublished, pilotRestarts, pilotGap,
    rowPhase, rowCandidate, rowRow, rowPointer, rowAltered, rowRead, rowInspected

pilotVars ==
    <<pilotPointer, pilotVersions, pilotSlots, pilotMinted, pilotNow, pilotCursor,
      pilotPublished, pilotRestarts, pilotGap>>
rowVars ==
    <<rowPhase, rowCandidate, rowRow, rowPointer, rowAltered, rowRead, rowInspected>>


(* The scheduler: one day of two slots; a decision that stays valid, one that *)
(* expires early, two of one instant, and an invalid one.                    *)
Cand(d, created, expires) ==
    [id |-> d, createdAt |-> created, expiresAt |-> expires, valid |-> TRUE]
SchedulerCandidates == { Cand(d1, 0, 9), Cand(d2, 0, 9), Cand(d1, 1, 2),
                         [Cand(d2, 2, 9) EXCEPT !.valid = FALSE] }
DayKeys == {0} \X {am, pm}
DaySlotAt == am :> 0 @@ pm :> 1
DaySchedule == 0 :> [preOpen |-> 0, open |-> 0, close |-> 3, postCloseEnd |-> 4]
Symmetry == Permutations({o1, o2})

(* A trading day whose first instant is before it opens. *)
NightKeys == {0} \X {am}
NightSlotAt == am :> 1
NightSchedule == 0 :> [preOpen |-> 1, open |-> 1, close |-> 3, postCloseEnd |-> 4]
NightCandidates == {Cand(d1, 0, 9)}

(* The four slots of the attended day, of unequal distance. *)
PilotSlotTime == <<1, 4, 8, 12>>

(* Bundles offered for publication, with and without a plan, that fit their  *)
(* decision or do not, and the changes a stored row may suffer.              *)
Stamp(t) == [at |-> t, offset |-> 9]
RowDecision(sym, act, t) ==
    [id |-> "d1", market |-> "KR", symbol |-> sym, universe |-> "kospi", action |-> act,
     created |-> Stamp(t)]
RowPlan(sym, act, t) ==
    [id |-> "p1", decision |-> "d1", market |-> "KR", symbol |-> sym, universe |-> "kospi",
     action |-> act, created |-> Stamp(t), from |-> Stamp(t), until |-> Stamp(5)]
RowCandidates ==
    {[decision |-> RowDecision(sym, act, t), plan |-> p, from |-> Stamp(f), until |-> Stamp(u),
      schemaOk |-> ok, passed |-> ok, source |-> "src"] :
        sym \in {"A", "B"}, act \in {"buy", "hold", "unknown"}, t \in {1, 3},
        p \in {None, RowPlan("A", "buy", 2), RowPlan("B", "buy", 1), RowPlan("A", "hold", 2)},
        f \in {1, 2}, u \in {1, 5}, ok \in BOOLEAN}

-----------------------------------------------------------------------------
Pilot == INSTANCE PilotDecisions WITH
        pointer <- pilotPointer, versions <- pilotVersions, slots <- pilotSlots,
        minted <- pilotMinted, now <- pilotNow, cursor <- pilotCursor,
        published <- pilotPublished, restarts <- pilotRestarts, gap <- pilotGap,
        SlotKey <- {}, Candidate <- {}, SlotTime <- PilotSlotTime, Validity <- 4,
        MaxTime <- 13, MaxRestarts <- 1

Columns == INSTANCE DecisionIntegrity WITH
        phase <- rowPhase, candidate <- rowCandidate, row <- rowRow, pointer <- rowPointer,
        altered <- rowAltered, read <- rowRead, inspected <- rowInspected,
        Candidate <- {}, Now <- Stamp(3), Market <- "KR", Symbol <- "A", ColumnChange <- {}

RowChanges ==
    LET ch(f, vs) == {[field |-> f, value |-> v] : v \in vs}
        utc(t) == [at |-> t, offset |-> 0]
        texts == {Columns!NotATime, Columns!IsoFormat(utc(1)), Columns!IsoFormat(Stamp(4)),
                  Columns!JsonFormat(utc(1))}
    IN  UNION {ch("publication", {None}), ch("market", {"US"}), ch("symbol", {"A", "B"}),
               ch("decision", {"d2"}), ch("plan", {None, "p2"}), ch("created", texts),
               ch("from", texts), ch("until", texts), ch("hash", {None}),
               ch("source", {"other"}), ch("published", texts)}

Row == INSTANCE DecisionIntegrity WITH
        phase <- rowPhase, candidate <- rowCandidate, row <- rowRow,
        pointer <- rowPointer, altered <- rowAltered, read <- rowRead,
        inspected <- rowInspected, Candidate <- RowCandidates, Now <- Stamp(3),
        Market <- "KR", Symbol <- "A", ColumnChange <- RowChanges

Off == "off"

rowRests ==
    /\ rowPhase = Off /\ rowCandidate = Off /\ rowRow = Off /\ rowPointer = Off
    /\ rowAltered = Off /\ rowRead = Off /\ rowInspected = Off

RunInit ==
    /\ part \in Running
    /\ Init
    /\ Pilot!Init
    /\ IF part = "row" THEN Row!Init ELSE rowRests

RunNext ==
    \/ part = "scheduler" /\ Next /\ UNCHANGED <<part, pilotVars, rowVars>>
    \/ part = "pilot" /\ Pilot!Next /\ UNCHANGED <<part, vars, rowVars>>
    \/ part = "row" /\ Row!Next /\ UNCHANGED <<part, vars, pilotVars>>

runVars == <<part, vars, pilotVars, rowVars>>

RunSpec == RunInit /\ [][RunNext]_runVars

-----------------------------------------------------------------------------
(* A process that is there from the start of the day and applies an update   *)
(* in every interval between two slots has the decision of the latest slot   *)
(* active, published once (publish_due).                                     *)
PunctualFollowsSlots == part = "pilot" => Pilot!PunctualFollowsSlots

(* What publish accepted its reader returns; a row of which a bound column   *)
(* or the bundle was changed no reader returns; and the read-only inspector  *)
(* never passes what the runtime reader cannot load ("never report           *)
(* integrity_ok for a bundle the runtime reader cannot load",                *)
(* sqlite_inspector.py:776).                                                 *)
StoredDecisionIsSound ==
    part = "row" =>
        /\ Row!PublishedIsReadable
        /\ Row!AlteredRowRefused
        /\ Row!InspectorNeverLenient
        /\ Row!SoundDecisionIsConfigured
=============================================================================
