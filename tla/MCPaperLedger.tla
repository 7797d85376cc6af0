---------------------------- MODULE MCPaperLedger ----------------------------
(***************************************************************************)
(* Paper money: the broker over a ledger that two processes have open,     *)
(* once with both and once with one of them seeding it; the one-shot paper *)
(* run with crashes and concurrent reruns, and alone over the figures its  *)
(* risk filter decides on; and the assembly and rehearsal of a run's       *)
(* input.                                                                  *)
(*                                                                         *)
(* They share no state here (PaperLoop takes the broker's call as one      *)
(* step). A behaviour runs one of them, named by part, and the others      *)
(* stand still.                                                            *)
(***************************************************************************)
EXTENDS PaperBroker, TLC

CONSTANTS
    Running,    \* the components to run
    s1, b1, b2, l1, x1, w1,         \* a symbol and the orders
    p1, p2, q1, q2,                 \* processes; only the first one of the q's seeds
    None, Torn

VARIABLES
    part,       \* the component that runs
    seededCash, seededEntries, seededPosition, seededResults, seededFills, seededPc,
    seededOrder, seededPrice, seededVerdict,
    onceCash, onceQty, onceCost, onceBase, onceUsd, onceOrders, onceNavs, onceSubmits,
    onceStore, onceLoops, onceVersion, onceP, onceRuns, onceCrashes,
    prepStore, prepMd, prepUp, prepOut, prepDb, prepLog, prepP, prepEdits, prepTrades,
    prepCrashes

seededVars ==
    <<seededCash, seededEntries, seededPosition, seededResults, seededFills, seededPc,
      seededOrder, seededPrice, seededVerdict>>
onceVars ==
    <<onceCash, onceQty, onceCost, onceBase, onceUsd, onceOrders, onceNavs, onceSubmits,
      onceStore, onceLoops, onceVersion, onceP, onceRuns, onceCrashes>>
prepVars ==
    <<prepStore, prepMd, prepUp, prepOut, prepDb, prepLog, prepP, prepEdits, prepTrades,
      prepCrashes>>


(* Orders of the broker: buys and sells that compete for the cash and the    *)
(* position, a limit that may not be met, and one without a quantity.        *)
Market(side, qty) == [symbol |-> s1, side |-> side, type |-> "MARKET", limit |-> 0,
                      qty |-> qty, sized |-> TRUE, matching |-> TRUE]
Intents ==
    b1 :> [Market("BUY", 1) EXCEPT !.type = "LIMIT", !.limit = 1]
    @@ b2 :> Market("BUY", 2)
    @@ l1 :> Market("SELL", 1)
    @@ x1 :> [Market("SELL", 2) EXCEPT !.type = "LIMIT", !.limit = 2]
    @@ w1 :> [Market("BUY", 1) EXCEPT !.sized = FALSE]
FewIntents == Restrict(Intents, {b1, b2, l1})
Symmetry == Permutations({p1, p2})

(* Inputs of a paper run: with shared run and decision ids, and with their   *)
(* own.                                                                      *)
T(r, d, a) == [run |-> r, alloc |-> d, analysis |-> a]
SharedTriples == {T("r1", "d1", "a1"), T("r1", "d2", "a2"), T("r2", "d2", "a1")}
OwnTriples == {T("r1", "d1", "a1"), T("r2", "d2", "a2")}

(* The files an input is assembled from, in the versions the operator may    *)
(* put there.                                                                *)
D(u, c) == [universe |-> u, cites |-> c]
AnalysisOf(u, s) == D(u, {"i2"}) @@ [symbol |-> s]
UpstreamVersions ==
    [scout |-> {None, D("u1", {"i1", "i2"})},
     alloc |-> {D("u1", {"i1"}), D("u2", {"i2"})},
     analysis |-> {AnalysisOf("u1", "s1"), AnalysisOf("u2", "s2")},
     ctx |-> {[symbol |-> "s1", ok |-> TRUE], [symbol |-> "s2", ok |-> TRUE], [symbol |-> "s1", ok |-> FALSE]}]
FirstFiles == [scout |-> None, alloc |-> D("u1", {"i1"}), analysis |-> AnalysisOf("u1", "s1"),
               ctx |-> [symbol |-> "s1", ok |-> TRUE]]

-----------------------------------------------------------------------------
Seeded == INSTANCE PaperBroker WITH
        cash <- seededCash, entries <- seededEntries, position <- seededPosition,
        results <- seededResults, fills <- seededFills, pc <- seededPc,
        order <- seededOrder, price <- seededPrice, verdict <- seededVerdict,
        Proc <- {q1, q2}, Seeders <- {q1}, Order <- {b1, b2, l1}, IntentOf <- FewIntents

Reruns == INSTANCE PaperLoop WITH
        cash <- onceCash, qty <- onceQty, cost <- onceCost, base <- onceBase,
        usd <- onceUsd, orders <- onceOrders, navs <- onceNavs, submits <- onceSubmits,
        store <- onceStore, loops <- onceLoops, version <- onceVersion, p <- onceP,
        runs <- onceRuns, crashes <- onceCrashes, Proc <- {p1, p2},
        Triples <- SharedTriples, Price <- {1}, Target <- {0, 5},
        Mode <- {"rebalancing"}, InitialCash <- 100, FreshLedger <- TRUE,
        Holding <- {0, 5}, MaxRuns <- 2, MaxCrashes <- 1

Bands == INSTANCE PaperLoop WITH
        cash <- onceCash, qty <- onceQty, cost <- onceCost, base <- onceBase,
        usd <- onceUsd, orders <- onceOrders, navs <- onceNavs, submits <- onceSubmits,
        store <- onceStore, loops <- onceLoops, version <- onceVersion, p <- onceP,
        runs <- onceRuns, crashes <- onceCrashes, Proc <- {q1}, Triples <- OwnTriples,
        Price <- {1, 2}, Target <- {0, 4, 5}, Mode <- {"normal", "mdd_killswitch"},
        InitialCash <- 100, FreshLedger <- FALSE, Holding <- {0}, MaxRuns <- 2,
        MaxCrashes <- 0

Assembly == INSTANCE PaperLoopPrep WITH
        store <- prepStore, md <- prepMd, up <- prepUp, out <- prepOut, db <- prepDb,
        log <- prepLog, p <- prepP, edits <- prepEdits, trades <- prepTrades,
        crashes <- prepCrashes, Proc <- {q1}, Id <- {"i1", "i2", "i3"},
        Upstream <- UpstreamVersions, Init0 <- FirstFiles,
        Stores <- {{"i1"}, {"i1", "i2"}, {"i2", "i3"}}, MaxEdits <- 2, MaxTrades <- 0,
        MaxCrashes <- 1, Force <- {FALSE}

Rehearsal == INSTANCE PaperLoopPrep WITH
        store <- prepStore, md <- prepMd, up <- prepUp, out <- prepOut, db <- prepDb,
        log <- prepLog, p <- prepP, edits <- prepEdits, trades <- prepTrades,
        crashes <- prepCrashes, Proc <- {p1, p2}, Id <- {"i1", "i2"},
        Upstream <- UpstreamVersions, Init0 <- FirstFiles, Stores <- {{"i1", "i2"}},
        MaxEdits <- 0, MaxTrades <- 1, MaxCrashes <- 0, Force <- BOOLEAN

Off == "off"

onceRests ==
    /\ onceCash = Off /\ onceQty = Off /\ onceCost = Off /\ onceBase = Off
    /\ onceUsd = Off /\ onceOrders = Off /\ onceNavs = Off /\ onceSubmits = Off
    /\ onceStore = Off /\ onceLoops = Off /\ onceVersion = Off /\ onceP = Off
    /\ onceRuns = Off /\ onceCrashes = Off

prepRests ==
    /\ prepStore = Off /\ prepMd = Off /\ prepUp = Off /\ prepOut = Off /\ prepDb = Off
    /\ prepLog = Off /\ prepP = Off /\ prepEdits = Off /\ prepTrades = Off
    /\ prepCrashes = Off

RunInit ==
    /\ part \in Running
    /\ Init
    /\ Seeded!Init
    /\ IF part = "reruns" THEN Reruns!Init ELSE IF part = "bands" THEN Bands!Init ELSE onceRests
    /\ IF part = "assembly" THEN Assembly!Init ELSE IF part = "rehearsal" THEN Rehearsal!Init ELSE prepRests

RunNext ==
    \/ part = "broker" /\ Next /\ UNCHANGED <<part, seededVars, onceVars, prepVars>>
    \/ part = "seeded" /\ Seeded!Next /\ UNCHANGED <<part, vars, onceVars, prepVars>>
    \/ part = "reruns" /\ Reruns!Next /\ UNCHANGED <<part, vars, seededVars, prepVars>>
    \/ part = "bands" /\ Bands!Next /\ UNCHANGED <<part, vars, seededVars, prepVars>>
    \/ part = "assembly" /\ Assembly!Next /\ UNCHANGED <<part, vars, seededVars, onceVars>>
    \/ part = "rehearsal" /\ Rehearsal!Next /\ UNCHANGED <<part, vars, seededVars, onceVars>>

runVars == <<part, vars, seededVars, onceVars, prepVars>>

RunSpec == RunInit /\ [][RunNext]_runVars

-----------------------------------------------------------------------------
(* Over crashes, repeated and concurrent runs a decision reaches the broker  *)
(* at most once, and the loop record never contradicts the ledger; what was  *)
(* really bought or sold keeps the bands the risk filter estimated; and with *)
(* one process seeding a fresh ledger each row of the append-only cash       *)
(* ledger is the balance before it plus its delta, the last one being        *)
(* current_cash (runner.py run, risk/filter.py against quantity_resolver.py, *)
(* apply_cash_change).                                                       *)
PaperRunKeepsItsWord ==
    /\ part = "reruns" => Reruns!SubmittedOnce /\ Reruns!RecordMatchesLedger
    /\ part = "bands" => Bands!FilledWithinBands
    /\ part = "seeded" => Seeded!LedgerExplainsCash

=============================================================================
