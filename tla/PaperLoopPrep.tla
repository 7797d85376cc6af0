----------------------------- MODULE PaperLoopPrep -----------------------------
(***************************************************************************)
(* Before a paper run: ops/assemble_paper_loop_input.py puts the validated  *)
(* decisions and the operator's context together into one input, and        *)
(* ops/rehearse_paper_loop_no_write.py lets run_paper_once validate it      *)
(* without writing.  Both read and write plain files one after another,     *)
(* beside an operator who exports Date.md, replaces upstream files and may  *)
(* trade, and may die between any two.                                      *)
(***************************************************************************)
EXTENDS Naturals

CONSTANTS
    Proc, Id, None, Torn,
    Upstream,       \* file -> versions: [universe, cites], the context has [symbol, ok]
    Init0,          \* the files at the start: [scout, alloc, analysis, ctx]
    Stores,         \* contents of the source store at the start
    MaxEdits,       \* files the operator replaces
    MaxTrades,      \* changes of a database by a run that writes
    MaxCrashes,
    Force           \* whether --force may be given

VARIABLES
    store,          \* Date-IDs of the source store, which only grows
    md,             \* Date-IDs of Date.md
    up,             \* the upstream files
    out,            \* input, txt, summary of the assembly: None, Torn or the build
    db,             \* ledger, decision: None or a version
    log,            \* the text of a rehearsal: None or what it says
    p, edits, trades, crashes

vars == <<store, md, up, out, db, log, p, edits, trades, crashes>>

Idle == [pc |-> "idle", tool |-> None, force |-> FALSE, got |-> None, ids |-> {}, before |-> None,
         after |-> None, steady |-> TRUE, changed |-> {}, status |-> None]

Files == {"input", "txt", "summary"}

Init ==
    /\ store \in Stores /\ md = store
    /\ up = Init0
    /\ out = [f \in Files |-> None]
    /\ db \in [{"ledger", "decision"} -> {None, 0}]
    /\ log = None
    /\ p = [a \in Proc |-> Idle] /\ edits = 0 /\ trades = 0 /\ crashes = 0

Busy(a) == p[a].pc \notin {"idle", "done"}

Step(a, r) == p' = [p EXCEPT ![a] = r]
Fail(a, stage) == p' = [p EXCEPT ![a].pc = "done", ![a].status = stage]

-----------------------------------------------------------------------------
(* The operator.                                                            *)

Start(a) ==
    /\ p[a].pc = "idle"
    /\ \E tool \in {"assemble", "rehearse"}, force \in Force :
         Step(a, [Idle EXCEPT !.pc = IF tool = "assemble" THEN "ctx" ELSE "load",
                              !.tool = tool, !.force = force])
    /\ UNCHANGED <<store, md, up, out, db, log, edits, trades, crashes>>

(* Date.md is exported from the store, or one of another store is put in    *)
(* its place.                                                               *)
Edit ==
    /\ edits < MaxEdits /\ edits' = edits + 1
    /\ \/ /\ \E i \in Id \ store : store' = store \cup {i}
          /\ UNCHANGED <<md, up, p>>
       \/ /\ md' \in SUBSET Id
          /\ p' = [a \in Proc |-> [p[a] EXCEPT !.steady = FALSE]]
          /\ UNCHANGED <<store, up>>
       \/ /\ \E f \in DOMAIN Upstream : \E x \in Upstream[f] : up' = [up EXCEPT ![f] = x]
          /\ UNCHANGED <<store, md, p>>
    /\ UNCHANGED <<out, db, log, trades, crashes>>

(* A paper run elsewhere writes a database, which it may create.            *)
Trade(d) ==
    /\ trades < MaxTrades /\ trades' = trades + 1
    /\ db' = [db EXCEPT ![d] = IF @ = None THEN 0 ELSE @ + 1]
    /\ p' = [a \in Proc |-> [p[a] EXCEPT
                !.changed = IF p[a].pc = "idle" THEN {} ELSE @ \cup {<<d, p[a].pc>>}]]
    /\ UNCHANGED <<store, md, up, out, log, edits, crashes>>

Crash(a) ==
    /\ Busy(a) /\ crashes < MaxCrashes /\ crashes' = crashes + 1
    /\ p' = [p EXCEPT ![a] = Idle]
    /\ UNCHANGED <<store, md, up, out, db, log, edits, trades>>

-----------------------------------------------------------------------------
(* What the two tools share.                                                *)

(* _collect_cited_date_id_values                                            *)
CollectCited(x) ==
    x.alloc.cites \cup x.analysis.cites \cup (IF x.scout = None THEN {} ELSE x.scout.cites)


(* _verify_cited_in_date_md, for each of the decisions.                     *)
VerifyCited(x, ids) == CollectCited(x) \subseteq ids

(* _load_date_md_ids                                                        *)
LoadDateMdIds(a, pc) == Step(a, [p[a] EXCEPT !.pc = pc, !.ids = md])

(* _verify_store_consistency reads Date.md once more.                       *)
VerifyStoreConsistency == md \subseteq store

(* _preflight_out_dir                                                       *)
PreflightOutDir(force) == force \/ \A f \in Files : out[f] = None

-----------------------------------------------------------------------------
(* assemble_paper_loop_input.py                                             *)

(* load_paper_loop_context and the three loaders, a file at a time.         *)
Load(a) ==
    LET next == [ctx |-> "alloc", alloc |-> "analysis", analysis |-> "scout", scout |-> "md"]
        f == p[a].pc
    IN  /\ f \in DOMAIN next
        /\ IF f = "ctx" /\ ~up.ctx.ok THEN Fail(a, "context")
           ELSE Step(a, [p[a] EXCEPT !.pc = next[f],
                          !.got = IF f = "ctx" THEN [scout |-> None, alloc |-> None,
                                                     analysis |-> None, ctx |-> up.ctx]
                                  ELSE [@ EXCEPT ![f] = up[f]]])
        /\ UNCHANGED <<store, md, up, out, db, log, edits, trades, crashes>>

ReadMd(a) ==
    /\ p[a].pc = "md"
    /\ LoadDateMdIds(a, "store")
    /\ UNCHANGED <<store, md, up, out, db, log, edits, trades, crashes>>

ReadStore(a) ==
    /\ p[a].pc = "store"
    /\ IF VerifyStoreConsistency THEN Step(a, [p[a] EXCEPT !.pc = "verify"]) ELSE Fail(a, "store")
    /\ UNCHANGED <<store, md, up, out, db, log, edits, trades, crashes>>

(* _verify_universe_consistency                                             *)
UniverseConsistent(x) ==
    /\ x.analysis.universe = x.alloc.universe
    /\ x.scout # None => x.scout.universe = x.alloc.universe

(* _verify_symbol_market_consistency                                        *)
SymbolConsistent(x) == x.ctx.symbol = x.analysis.symbol

Verify(a) ==
    LET x == p[a].got
    IN  /\ p[a].pc = "verify"
        /\ IF ~UniverseConsistent(x) \/ ~SymbolConsistent(x) \/ ~VerifyCited(x, p[a].ids)
           THEN Fail(a, "membership")
           ELSE IF ~PreflightOutDir(p[a].force) THEN Fail(a, "write")
           ELSE Step(a, [p[a] EXCEPT !.pc = "open"])
        /\ UNCHANGED <<store, md, up, out, db, log, edits, trades, crashes>>

(* The input is opened, which empties it, and written; then the text and    *)
(* the summary.                                                             *)
Write(a) ==
    LET next == [open |-> "input", input |-> "txt", txt |-> "summary", summary |-> "done"]
        f == p[a].pc
    IN  /\ p[a].tool = "assemble" /\ f \in DOMAIN next
        /\ out' = IF f = "open" THEN [out EXCEPT !.input = Torn] ELSE [out EXCEPT ![f] = p[a].got]
        /\ Step(a, [p[a] EXCEPT !.pc = next[f], !.status = IF f = "summary" THEN "ok" ELSE None])
        /\ UNCHANGED <<store, md, up, db, log, edits, trades, crashes>>

-----------------------------------------------------------------------------
(* rehearse_paper_loop_no_write.py                                          *)

(* _load_paper_loop_input                                                   *)
LoadInput(a) ==
    /\ p[a].pc = "load"
    /\ IF out.input \in {None, Torn} THEN Fail(a, "input")
       ELSE IF log # None /\ ~p[a].force THEN Fail(a, "write")
       ELSE Step(a, [p[a] EXCEPT !.pc = "r_md", !.got = out.input])
    /\ UNCHANGED <<store, md, up, out, db, log, edits, trades, crashes>>

RehearseMd(a) ==
    /\ p[a].pc = "r_md"
    /\ IF md = {} THEN Fail(a, "date_md") ELSE LoadDateMdIds(a, "r_store")
    /\ UNCHANGED <<store, md, up, out, db, log, edits, trades, crashes>>

RehearseStore(a) ==
    /\ p[a].pc = "r_store"
    /\ IF md = {} THEN Fail(a, "date_md")
       ELSE IF ~VerifyStoreConsistency THEN Fail(a, "store")
       ELSE IF ~VerifyCited(p[a].got, p[a].ids) THEN Fail(a, "membership")
       ELSE Step(a, [p[a] EXCEPT !.pc = "before_ledger", !.changed = {}])
    /\ UNCHANGED <<store, md, up, out, db, log, edits, trades, crashes>>

(* DbFileState.capture of one database after the other.                     *)
Capture(a) ==
    LET next == [before_ledger |-> "before_decision", before_decision |-> "invoke",
                 after_ledger |-> "after_decision", after_decision |-> "unchanged"]
        pc == p[a].pc
        d == IF pc \in {"before_ledger", "after_ledger"} THEN "ledger" ELSE "decision"
        Put(f) == IF d = "ledger" THEN [ledger |-> db.ledger, decision |-> None]
                  ELSE [f EXCEPT !.decision = db.decision]
    IN  /\ pc \in DOMAIN next
        /\ Step(a, IF pc \in {"before_ledger", "before_decision"}
                   THEN [p[a] EXCEPT !.pc = next[pc], !.before = Put(@)]
                   ELSE [p[a] EXCEPT !.pc = next[pc], !.after = Put(@)])
        /\ UNCHANGED <<store, md, up, out, db, log, edits, trades, crashes>>

(* invoke_run_paper_once_no_write: another process loads the input again    *)
(* and writes nothing.                                                      *)
Invoke(a) ==
    /\ p[a].pc = "invoke"
    /\ IF out.input \in {None, Torn} THEN Fail(a, "no_write")
       ELSE Step(a, [p[a] EXCEPT !.pc = "after_ledger"])
    /\ UNCHANGED <<store, md, up, out, db, log, edits, trades, crashes>>

(* _verify_db_unchanged raises for a database that was there.               *)
Modified(before, after) == before # None /\ after # before

(* ... and returns whether one that was not there is still not.             *)
StillAbsent(before, after) == before = None => after = None

(* The three files of the rehearsal; the text is the same in every case.    *)
Unchanged(a) ==
    LET b == p[a].before  c == p[a].after
    IN  /\ p[a].pc = "unchanged"
        /\ IF \E d \in DOMAIN db : Modified(b[d], c[d])
           THEN Fail(a, "invariant") /\ UNCHANGED log
           ELSE /\ log' = [txt |-> [d \in DOMAIN db |-> "PASS"],
                           json |-> [d \in DOMAIN db |-> StillAbsent(b[d], c[d])],
                           before |-> b, after |-> c]
                /\ Fail(a, "ok")
        /\ UNCHANGED <<store, md, up, out, db, edits, trades, crashes>>

-----------------------------------------------------------------------------
Again(a) ==
    /\ p[a].pc = "done"
    /\ p' = [p EXCEPT ![a] = Idle]
    /\ UNCHANGED <<store, md, up, out, db, log, edits, trades, crashes>>

Tool(a) ==
    \/ Load(a) \/ ReadMd(a) \/ ReadStore(a) \/ Verify(a) \/ Write(a)
    \/ LoadInput(a) \/ RehearseMd(a) \/ RehearseStore(a) \/ Capture(a) \/ Invoke(a) \/ Unchanged(a)

Next ==
    \/ Edit
    \/ \E d \in DOMAIN db : Trade(d)
    \/ \E a \in Proc : Start(a) \/ Tool(a) \/ Crash(a) \/ Again(a)

Spec == Init /\ [][Next]_vars

-----------------------------------------------------------------------------
(* Every Date-ID that an assembled input cites is in the source store,      *)
(* unless Date.md was swapped while it was assembled (Date.md is read twice *)
(* and only the first read is compared with what is cited).                 *)
CitedInStore ==
    \A a \in Proc : Write(a) /\ p[a].pc = "open" /\ p[a].steady
        => CollectCited(p[a].got) \subseteq store

(* A complete summary is of the input beside it, over crashes and repeated  *)
(* assemblies, of one operator who never forces (_preflight_out_dir and the *)
(* order of the three writes).                                              *)
SummaryDescribesInput ==
    out.summary # None => out.summary = out.input /\ out.txt = out.input

(* A rehearsal that says ok saw no database change that was there: none was *)
(* written between its own first and last look at it                        *)
(* (_verify_db_unchanged; "no-write invariant", docs/RUNBOOK.md).           *)
OkMeansUnwritten ==
    \A a \in Proc : p[a].tool = "rehearse" /\ p[a].status = "ok" =>
        \A d \in DOMAIN db : p[a].before[d] # None =>
            \A pc \in {"invoke", "after_ledger"} : <<d, pc>> \notin p[a].changed

=============================================================================
