------------------------------ MODULE MCPaperDay ------------------------------
(***************************************************************************)
(* An attended paper day and what surrounds it: two runs that share one    *)
(* lock and may name the same outputs, the readiness check and the two     *)
(* readers of what a run leaves, and the command line with its twelve      *)
(* modes.                                                                  *)
(*                                                                         *)
(* They share no state here. A behaviour runs one of them, named by part,  *)
(* and the others are off.                                                 *)
(***************************************************************************)
EXTENDS AttendedPaperDay, TLC

CONSTANTS
    Running,    \* the components to run
    r1, r2, a, b, i1, i2, x, y      \* runs, directories, inodes and readers

VARIABLES
    part,       \* the component that runs
    diskSummary, diskEvidence, diskEnvelope, diskDb, diskLock, diskTree, diskP, diskV,
    diskCrashes, diskFaults,
    cliArgs, cliPc, cliTouched, cliResult, cliOut, cliExit

diskVars ==
    <<diskSummary, diskEvidence, diskEnvelope, diskDb, diskLock, diskTree, diskP, diskV,
      diskCrashes, diskFaults>>
cliVars ==
    <<cliArgs, cliPc, cliTouched, cliResult, cliOut, cliExit>>


Symmetry == Permutations(Run) \cup Permutations(Path) \cup Permutations(Ino)

Shortfalls == {{}, {"nonterminal_journal", "health_not_ready"}}

(* Checkouts that are fit for a run, and ones that are not. *)
GoodTree == [git |-> "ok", clean |-> TRUE, config |-> "ok", env |-> "good", args |-> "ok"]
AnyTree == {GoodTree, [GoodTree EXCEPT !.clean = FALSE], [GoodTree EXCEPT !.args = "bad"],
            [GoodTree EXCEPT !.git = "down"],
            [GoodTree EXCEPT !.git = "down", !.config = "tracked"]}
           \cup {[GoodTree EXCEPT !.env = e] : e \in {"missing", "placeholder", "padded"}}
           \cup {[GoodTree EXCEPT !.config = c] : c \in {"missing", "tracked"}}

-----------------------------------------------------------------------------
Review == INSTANCE PaperDayReview WITH
        summary <- diskSummary, evidence <- diskEvidence, envelope <- diskEnvelope,
        db <- diskDb, lock <- diskLock, tree <- diskTree, p <- diskP, v <- diskV,
        crashes <- diskCrashes, faults <- diskFaults, Run <- Run, Dir <- Path,
        Reviewer <- {x}, Tree <- {GoodTree}, MaxCrashes <- 1, MaxFaults <- 1

Ready == INSTANCE PaperDayReview WITH
        summary <- diskSummary, evidence <- diskEvidence, envelope <- diskEnvelope,
        db <- diskDb, lock <- diskLock, tree <- diskTree, p <- diskP, v <- diskV,
        crashes <- diskCrashes, faults <- diskFaults, Run <- Run, Dir <- Path,
        Reviewer <- {}, Tree <- AnyTree, MaxCrashes <- 1, MaxFaults <- 1

Pair == INSTANCE PaperDayReview WITH
        summary <- diskSummary, evidence <- diskEvidence, envelope <- diskEnvelope,
        db <- diskDb, lock <- diskLock, tree <- diskTree, p <- diskP, v <- diskV,
        crashes <- diskCrashes, faults <- diskFaults, Run <- {r1}, Dir <- {a},
        Reviewer <- {x, y}, Tree <- {GoodTree}, MaxCrashes <- 1, MaxFaults <- 1

(* Every command line with up to two mode flags. *)
Flags == INSTANCE FastLoopCli WITH
        args <- cliArgs, pc <- cliPc, touched <- cliTouched, result <- cliResult,
        out <- cliOut, exit <- cliExit, CommandLines <- {}

CliCommandLines ==
    {[modes |-> {m, n} \ {"none"}, json |-> j, config |-> c, maxAge |-> g, confirms |-> k] :
        m, n \in Flags!Modes \cup {"none"}, j \in BOOLEAN, c \in {None, "good", "broken"},
        g \in {None, "other", "digits"}, k \in SUBSET Flags!Confirmations}

Cli == INSTANCE FastLoopCli WITH
        args <- cliArgs, pc <- cliPc, touched <- cliTouched, result <- cliResult,
        out <- cliOut, exit <- cliExit, CommandLines <- CliCommandLines

Off == "off"

diskRests ==
    /\ diskSummary = Off /\ diskEvidence = Off /\ diskEnvelope = Off /\ diskDb = Off
    /\ diskLock = Off /\ diskTree = Off /\ diskP = Off /\ diskV = Off
    /\ diskCrashes = Off /\ diskFaults = Off

cliRests ==
    /\ cliArgs = Off /\ cliPc = Off /\ cliTouched = Off /\ cliResult = Off
    /\ cliOut = Off /\ cliExit = Off

(* No files, and of the runs only what is asked of a run that never started. *)
dayRests ==
    /\ lockFile = None /\ evidence = [p \in Path |-> None] /\ summary = evidence /\ db = Off
    /\ s = [r \in Run |-> [fd |-> None, returned |-> None]] /\ faults = Off /\ crashes = Off

RunInit ==
    /\ part \in Running
    /\ IF part = "day" THEN Init ELSE dayRests
    /\ IF part = "review" THEN Review!Init ELSE IF part = "ready" THEN Ready!Init ELSE IF part = "pair" THEN Pair!Init ELSE diskRests
    /\ IF part = "cli" THEN Cli!Init ELSE cliRests

RunNext ==
    \/ part = "day" /\ Next /\ UNCHANGED <<part, diskVars, cliVars>>
    \/ part = "review" /\ Review!Next /\ UNCHANGED <<part, vars, cliVars>>
    \/ part = "ready" /\ Ready!Next /\ UNCHANGED <<part, vars, cliVars>>
    \/ part = "pair" /\ Pair!Next /\ UNCHANGED <<part, vars, cliVars>>
    \/ part = "cli" /\ Cli!Next /\ UNCHANGED <<part, vars, diskVars>>

runVars == <<part, vars, diskVars, cliVars>>

RunSpec == RunInit /\ [][RunNext]_runVars

-----------------------------------------------------------------------------
(* Reading one file after another while runs go on, validator and report say *)
(* PASS of exactly the clean runs whose files they read, and never pass what *)
(* the other does not (classify, build_report).                              *)
ReviewPassesCleanRuns ==
    /\ part = "review" => Review!PassIsCleanRun /\ Review!CleanRunPasses
    /\ part = "pair" => Pair!SamePasses

(* A run that was READY, in a directory nobody has chosen since, is admitted *)
(* and leaves nothing there but its own (evaluate_readiness).                *)
ReadyRunStartsClean == part = "ready" => Ready!ReadyRunStartsClean

(* Of every command line with up to two mode flags: a mode reads only what   *)
(* it may, a manual confirmation is used or refused, an intent needs all its *)
(* inputs, exit 0 and a digest mean the called function passed, and a strict *)
(* mode reports in its own shape (main of run_paper_fast_loop.py).           *)
CommandLineIsHonest ==
    part = "cli" =>
        /\ Cli!VerifyReadsStdinOnly
        /\ Cli!ConfirmationsNotSwallowed
        /\ Cli!IntentNeedsAll
        /\ Cli!ZeroMeansPassed
        /\ Cli!EnvironUnread
        /\ Cli!StrictReport
=============================================================================
