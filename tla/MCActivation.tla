----------------------------- MODULE MCActivation -----------------------------
(***************************************************************************)
(* From a precheck to the artifact an operator may act on: one precheck    *)
(* under concurrent writers, a receipt on its way to its readers, a        *)
(* candidate qualified on a receipt, the approval chain over qualified     *)
(* runs, and the file the eligibility artifact is kept in.                 *)
(*                                                                         *)
(* They share no state here. A behaviour runs one of them, named by part,  *)
(* and the others are off.                                                 *)
(***************************************************************************)
EXTENDS Integers, FiniteSets, Sequences, TLC

CONSTANTS
    Running,    \* the components to run
    h1, h2, notHex,     \* file digests, the last one malformed
    w1, w2, q1,         \* writers and a reader of the artifact file
    None

VARIABLES
    part,       \* the component that runs
    checkDisk, checkWrites, checkClock, checkSettings, checkS,
    receiptPhase, receiptObs, receiptOriginal, receiptPayload, receiptVerdict,
    candDisk, candWrites, candClock, candSettings, candS, candFaults, candC,
    chainClock, chainChanges, chainEvidences, chainIntents, chainArtifacts, chainFiles,
    chainDecoded,
    fileDest, fileTemps, fileContent, fileSafe, fileFaults, fileCrashes, fileForeign,
    fileW, fileR

checkVars ==
    <<checkDisk, checkWrites, checkClock, checkSettings, checkS>>
receiptVars ==
    <<receiptPhase, receiptObs, receiptOriginal, receiptPayload, receiptVerdict>>
candVars ==
    <<candDisk, candWrites, candClock, candSettings, candS, candFaults, candC>>
chainVars ==
    <<chainClock, chainChanges, chainEvidences, chainIntents, chainArtifacts, chainFiles,
      chainDecoded>>
fileVars ==
    <<fileDest, fileTemps, fileContent, fileSafe, fileFaults, fileCrashes, fileForeign,
      fileW, fileR>>


Snapshot == "execution_inputs_snapshot"
Store == "active_decision_store"

File(content) ==
    [kind |-> "regular", version |-> 0, latest |-> 0, content |-> content, side |-> FALSE]
SnapshotOf(fault, until) == [fault |-> fault, universe |-> "kospi", from |-> 0, until |-> until]
StoreOf(decision, until) ==
    [schema |-> TRUE, decision |-> decision, universe |-> "kospi", from |-> 0, until |-> until]

(* The precheck: all four artifacts, from a ready disk or one with an        *)
(* irregular or missing artifact; writers may make any of them unready.      *)
FourNames == <<Snapshot, "ledger", "trigger_journal", Store>>
LedgerOf(positions) == [schema |-> TRUE, positions |-> positions]
JournalOf(states) == [schema |-> TRUE, states |-> states]
FourContents ==
    Snapshot :> {SnapshotOf("none", 1), SnapshotOf("hash_mismatch", 1)}
    @@ "ledger" :> {LedgerOf({"foreign"})}
    @@ "trigger_journal" :> {JournalOf({"reserved"})}
    @@ Store :> {[StoreOf("ok", 0) EXCEPT !.universe = "other"]}
ReadyDisk ==
    Snapshot :> File(SnapshotOf("none", 1)) @@ "ledger" :> File(LedgerOf({}))
    @@ "trigger_journal" :> File(JournalOf({"committed"})) @@ Store :> File(StoreOf("ok", 0))
FirstDisks ==
    {ReadyDisk, [ReadyDisk EXCEPT ![Snapshot].kind = "irregular", !["trigger_journal"].kind = "absent",
                                  ![Store].content.decision = "dangling"]}
OneSetting == {[symbol |-> "005930", enabled |-> TRUE]}

(* The candidate: two artifacts, two configurations, and a decision that     *)
(* expires while the receipt is held.                                        *)
TwoNames == <<Snapshot, Store>>
TwoContents == Snapshot :> {SnapshotOf("none", 3)} @@ Store :> {StoreOf("ok", 2), StoreOf("absent", 2)}
TwoDisks == {Snapshot :> File(SnapshotOf("none", 3)) @@ Store :> File(StoreOf("ok", 2))}
CandidateSettings == {[symbol |-> "005930", enabled |-> TRUE], [symbol |-> "000660", enabled |-> TRUE],
                      [symbol |-> "005930", enabled |-> FALSE]}

(* The approval chain: two runs over one receipt at different times, and one *)
(* of another symbol.                                                        *)
Prints(d) == <<[name |-> "ledger", present |-> TRUE, regular |-> TRUE, size |-> 1,
                sha256 |-> d, version |-> 0, sidecars |-> <<>>]>>
ApprovalRuns ==
    {[symbol |-> "005930", checkedAt |-> 0, now |-> 0, maxAge |-> 1, prints |-> Prints(0)],
     [symbol |-> "005930", checkedAt |-> 0, now |-> 1, maxAge |-> 1, prints |-> Prints(0)],
     [symbol |-> "000660", checkedAt |-> 0, now |-> 1, maxAge |-> 1, prints |-> Prints(1)]}
ApprovalParts == {"none", "final", "time", "reval", "precheck", "receipt"}

(* The receipt: every combination of fingerprint attributes for one          *)
(* artifact, and of verdicts and reasons over three good fingerprints of it. *)
LedgerNames == <<Snapshot, "ledger">>
FP(n, p, r, s, d, v, side) ==
    [name |-> n, present |-> p, regular |-> r, size |-> s, sha256 |-> d,
     version |-> v, sidecars |-> side]
Snap == FP(Snapshot, TRUE, TRUE, 5, h1, None, <<>>)
GoodLedger ==
    {FP("ledger", TRUE, TRUE, 3, h1, 7, <<>>),
     FP("ledger", TRUE, TRUE, 3, h2, 7, <<"-wal", "-shm">>),
     FP("ledger", FALSE, FALSE, None, None, None, <<>>)}
AnyFingerprint ==
    {FP(n, p, r, s, d, v, side) :
        n \in {"ledger", Snapshot}, p \in BOOLEAN, r \in BOOLEAN,
        s \in {None, -1, 0}, d \in {None, h1, notHex}, v \in {None, -1, 7},
        side \in {<<>>, <<"-wal">>, <<"-shm", "-wal">>, <<"-wal", "-wal">>}}
Rules == INSTANCE PrecheckReceipt WITH
        ArtifactNames <- LedgerNames, Hex64 <- {h1, h2}, Symbols <- {"005930", "000660"},
        Instants <- {1, 2}
ReasonLists ==
    LET c == Rules!ChangedReason("ledger")
        other == [code |-> "ledger_unreadable", artifact |-> None]
    IN  {<<>>, <<other>>, <<c>>, <<other, c>>, <<c, c>>, <<Rules!BlankReason>>,
         <<Rules!ChangedReason("unknown")>>, <<Rules!ChangedReason(Snapshot)>>}
Obs(m, i, rs, b, a, e, t, mk, sy) ==
    [machine |-> m, inspection |-> i, reasons |-> rs, before |-> b, after |-> a,
     enabled |-> e, checkedAt |-> t, market |-> mk, symbol |-> sy]
ReceiptObservations ==
    {Obs(m, i, rs, <<Snap, x>>, <<Snap, y>>, e, 1, "KR", "005930") :
        m \in {"pass", "no_go"}, i \in {"ok", "no_go"}, rs \in ReasonLists,
        x \in GoodLedger, y \in GoodLedger, e \in BOOLEAN}
    \cup {Obs("pass", "ok", <<>>, <<Snap, x>>, <<Snap, x>>, TRUE, 1, "KR", "005930") :
        x \in AnyFingerprint}
    \cup {Obs("pass", "ok", <<>>, <<Snap, x>>, <<Snap, x>>, TRUE, t, mk, sy) :
        x \in GoodLedger, t \in {0, 2}, mk \in {"KR", "US"}, sy \in {"005930", "AAPL"}}
ReceiptAlterations ==
    LET ch(f, vs) == {[field |-> f, value |-> v] : v \in vs}
    IN  UNION {ch("schema", {2}), ch("checkedAt", {0, 2}), ch("market", {"US"}),
               ch("symbol", {"000660"}), ch("enabled", BOOLEAN),
               ch("machine", {"pass", "no_go"}), ch("inspection", {"ok", "no_go"}),
               ch("reasons", ReasonLists),
               ch("before", {<<Snap, x>> : x \in GoodLedger} \cup {<<Snap>>}),
               ch("after", {<<Snap, x>> : x \in GoodLedger}),
               ch("authorized", {TRUE}), ch("activation", {"go"}), ch("approval", {FALSE}),
               ch("writers", {FALSE}), ch("sha256", {None, h2})}

-----------------------------------------------------------------------------
Check == INSTANCE RuntimePrecheck WITH
        disk <- checkDisk, writes <- checkWrites, clock <- checkClock,
        settings <- checkSettings, s <- checkS, ArtifactNames <- FourNames,
        Hex64 <- 0 .. 3, Symbols <- {"005930"}, Instants <- 0 .. 2,
        Contents <- FourContents, FirstDisk <- FirstDisks, Settings <- OneSetting,
        MaxWrites <- 2, MaxClock <- 1

Receipt == INSTANCE ReceiptExchange WITH
        phase <- receiptPhase, obs <- receiptObs, original <- receiptOriginal,
        payload <- receiptPayload, verdict <- receiptVerdict,
        ArtifactNames <- LedgerNames, Hex64 <- {h1, h2}, Symbols <- {"005930", "000660"},
        Instants <- {1, 2}, Observation <- ReceiptObservations,
        Alteration <- ReceiptAlterations

Candidate == INSTANCE ActivationCandidate WITH
        disk <- candDisk, writes <- candWrites, clock <- candClock,
        settings <- candSettings, s <- candS, faults <- candFaults, c <- candC,
        ArtifactNames <- TwoNames, Hex64 <- 0 .. 4, Symbols <- {"005930", "000660"},
        Instants <- 0 .. 3, Contents <- TwoContents, FirstDisk <- TwoDisks,
        Settings <- CandidateSettings, MaxWrites <- 2, MaxClock <- 3,
        Policies <- {None, 1}, MaxFaults <- 1

Chain == INSTANCE ApprovalChain WITH
        clock <- chainClock, changes <- chainChanges, evidences <- chainEvidences,
        intents <- chainIntents, artifacts <- chainArtifacts, files <- chainFiles,
        decoded <- chainDecoded, ArtifactNames <- <<"ledger">>, Hex64 <- {0, 1},
        Symbols <- {"005930", "000660"}, Instants <- 0 .. 2, Runs <- ApprovalRuns,
        Parts <- ApprovalParts, MaxClock <- 2, MaxChanges <- 1, MaxKept <- 2

Files == INSTANCE ArtifactFile WITH
        dest <- fileDest, temps <- fileTemps, content <- fileContent, safe <- fileSafe,
        faults <- fileFaults, crashes <- fileCrashes, foreign <- fileForeign, w <- fileW,
        r <- fileR, Writers <- {w1, w2}, Readers <- {}, MaxFaults <- 1, MaxCrashes <- 1,
        MaxForeign <- 1

Read == INSTANCE ArtifactFile WITH
        dest <- fileDest, temps <- fileTemps, content <- fileContent, safe <- fileSafe,
        faults <- fileFaults, crashes <- fileCrashes, foreign <- fileForeign, w <- fileW,
        r <- fileR, Writers <- {w1}, Readers <- {q1}, MaxFaults <- 2, MaxCrashes <- 1,
        MaxForeign <- 1

Off == "off"

checkRests ==
    /\ checkDisk = Off /\ checkWrites = Off /\ checkClock = Off /\ checkSettings = Off
    /\ checkS = Off

receiptRests ==
    /\ receiptPhase = Off /\ receiptObs = Off /\ receiptOriginal = Off
    /\ receiptPayload = Off /\ receiptVerdict = Off

candRests ==
    /\ candDisk = Off /\ candWrites = Off /\ candClock = Off /\ candSettings = Off
    /\ candS = Off /\ candFaults = Off /\ candC = Off

RunInit ==
    /\ part \in Running
    /\ Chain!Init
    /\ IF part = "precheck" THEN Check!PrecheckInit ELSE checkRests
    /\ IF part = "receipt" THEN Receipt!Init ELSE receiptRests
    /\ IF part = "candidate" THEN Candidate!Init ELSE candRests
    /\ IF part = "reader" THEN Read!Init ELSE Files!Init

RunNext ==
    \/ part = "precheck" /\ Check!PrecheckNext /\ UNCHANGED <<part, receiptVars, candVars, chainVars, fileVars>>
    \/ part = "receipt" /\ Receipt!Next /\ UNCHANGED <<part, checkVars, candVars, chainVars, fileVars>>
    \/ part = "candidate" /\ Candidate!Next /\ UNCHANGED <<part, checkVars, receiptVars, chainVars, fileVars>>
    \/ part = "approval" /\ Chain!Next /\ UNCHANGED <<part, checkVars, receiptVars, candVars, fileVars>>
    \/ part = "writers" /\ Files!Next /\ UNCHANGED <<part, checkVars, receiptVars, candVars, chainVars>>
    \/ part = "reader" /\ Read!Next /\ UNCHANGED <<part, checkVars, receiptVars, candVars, chainVars>>

runVars == <<part, checkVars, receiptVars, candVars, chainVars, fileVars>>

RunSpec == RunInit /\ [][RunNext]_runVars

-----------------------------------------------------------------------------



(* What a reader of the persisted artifact accepts goes back, digest by      *)
(* digest and in order of time, to one declared intent and to the evidence   *)
(* of one qualified run, although parts of runs were mixed up, records       *)
(* changed and the clock set back; and nothing honest is refused             *)
(* (build_activation_candidate_evidence to the payload decoder).             *)
AcceptedGoesBackToOneRun ==
    part = "approval" =>
        /\ Chain!EvidenceIsOfOneRun
        /\ Chain!AcceptedTraces
        /\ Chain!AcceptedInOrder
        /\ Chain!HonestAccepted

(* Two writers, failing calls, a foreign program and a power failure: what   *)
(* was reported written is durable, what was reported not written is not     *)
(* published, the destination is complete and never overwritten, residue is  *)
(* reported, and VALID is said of one file only (write_..., read_... of the  *)
(* artifact file; "existing destination overwrite 0").                       *)
ArtifactFileIsHonest ==
    /\ [](/\ part = "writers" =>
                /\ Files!WrittenIsDurable
                /\ Files!NotWrittenMeansUnpublished
                /\ Files!DestinationComplete
                /\ Files!ResidueReported
          /\ part = "reader" =>
                /\ Read!WrittenIsDurable
                /\ Read!NotWrittenMeansUnpublished
                /\ Read!DestinationComplete
                /\ Read!ResidueReported
                /\ Read!ReaderSeesOneFile)
    /\ [][part = "writers" => Files!NeverOverwritten]_runVars
=============================================================================
