---------------------------- MODULE ArtifactFile ----------------------------
(***************************************************************************)
(* The file of an eligibility artifact                                     *)
(* (src/composition/                                                       *)
(* operator_approval_consumption_eligibility_artifact_file.py).  A writer  *)
(* makes a temporary file, fills and syncs it, links it to the             *)
(* destination, closes and unlinks the temporary file and syncs the        *)
(* directory.  Every system call may fail, or be interrupted, before or    *)
(* after its effect; another writer, a foreign program and a power failure *)
(* may come between any two calls.  A reader checks that the path, the     *)
(* descriptor and the size are one file throughout.                        *)
(*                                                                         *)
(* A writer's temporary file and, once linked, the destination are one     *)
(* inode, named after the writer.                                          *)
(***************************************************************************)
EXTENDS Naturals, FiniteSets

CONSTANTS
    Writers, Readers, None,
    MaxFaults,          \* calls that fail or are interrupted
    MaxCrashes, MaxForeign

UnlinkAttempts == 2     \* _TEMP_UNLINK_ATTEMPTS

Foreign == "foreign"    \* an inode of another program

VARIABLES
    dest,       \* the inode the destination names, or None
    temps,      \* the writers whose temporary name exists
    content,    \* inode -> "none", "part" or "full"
    safe,       \* what a power failure leaves: [dest, content]
    faults, crashes, foreign,
    w,          \* writer -> its locals
    r           \* reader -> its locals

vars == <<dest, temps, content, safe, faults, crashes, foreign, w, r>>
fs == <<dest, temps, content, safe>>

Inodes == Writers \cup {Foreign}

NewWriter ==
    [pc |-> "start", created |-> FALSE, fdOpen |-> FALSE, closeTried |-> FALSE, closed |-> FALSE,
     tries |-> 0, cleaned |-> FALSE, stat |-> FALSE, published |-> FALSE, uncertain |-> FALSE,
     syncTried |-> FALSE, synced |-> FALSE, exists |-> FALSE, primary |-> {}, fatal |-> FALSE,
     outcome |-> None, reasons |-> {}]

NewReader == [pc |-> "start", ino |-> None, fd |-> None, size |-> None, got |-> None, outcome |-> None]

Init ==
    /\ dest = None /\ temps = {} /\ content = [i \in Inodes |-> "none"]
    /\ safe = [dest |-> None, content |-> content]
    /\ faults = 0 /\ crashes = 0 /\ foreign = 0
    /\ w = [p \in Writers |-> NewWriter] /\ r = [p \in Readers |-> NewReader]

-----------------------------------------------------------------------------
(* How a call may go: as it should, with an OSError (an ordinary            *)
(* exception) or an interrupt (KeyboardInterrupt, SystemExit, MemoryError), *)
(* either of them before or after the effect.                               *)
Ways(some) == {"ok"} \cup (IF faults < MaxFaults THEN some ELSE {})

Effective(k) == k \in {"ok", "error_after", "fatal_after"}
IsFatal(k) == k \in {"fatal", "fatal_after"}

Charge(k) == faults' = IF k = "ok" THEN faults ELSE faults + 1

Set(p, new) == w' = [w EXCEPT ![p] = new] /\ UNCHANGED <<crashes, foreign, r>>

(* An ordinary failure before publication gives its reason and goes to the  *)
(* cleanup; a fatal one is remembered and does the same.                    *)
Fail(p, k, reason) ==
    [w[p] EXCEPT !.primary = IF IsFatal(k) THEN @ ELSE @ \cup {reason},
                 !.fatal = @ \/ IsFatal(k), !.pc = "close"]

Return(p, outcome, reasons) == [w[p] EXCEPT !.pc = "done", !.outcome = outcome, !.reasons = reasons]

(* _validate_existing_parent_directory, _validate_create_new_destination:   *)
(* nothing exists yet, so an interrupt just leaves.                         *)
Preflight(p) ==
    /\ w[p].pc = "start"
    /\ \E k \in Ways({"error", "fatal"}) :
         /\ Charge(k)
         /\ Set(p, IF k = "fatal" THEN Return(p, "raised", {})
                   ELSE IF k = "error" THEN Return(p, "not_written", {"unreadable"})
                   ELSE IF dest # None THEN Return(p, "not_written", {"destination_exists"})
                   ELSE [w[p] EXCEPT !.pc = "create"])
    /\ UNCHANGED fs

(* _open_exclusive_temp.  An OSError gives None; anything else after the    *)
(* file was made is for the recovery to find out.                           *)
CreateTemp(p) ==
    /\ w[p].pc = "create"
    /\ \E k \in Ways({"error", "error_after", "fatal", "fatal_after"}) :
         /\ Charge(k)
         /\ temps' = IF Effective(k) THEN temps \cup {p} ELSE temps
         /\ Set(p, CASE k = "ok" -> [w[p] EXCEPT !.created = TRUE, !.fdOpen = TRUE, !.pc = "write"]
                     [] k = "error" -> Fail(p, k, "temp_create_failed")
                     [] OTHER -> [w[p] EXCEPT !.fatal = IsFatal(k), !.pc = "recover_create"])
    /\ UNCHANGED <<dest, content, safe>>

(* _recover_temp_create_side_effect: not knowing counts as created.         *)
RecoverCreate(p) ==
    /\ w[p].pc = "recover_create"
    /\ \E k \in Ways({"error", "fatal"}) :
         /\ Charge(k)
         /\ Set(p, [w[p] EXCEPT !.created = (k # "ok" \/ p \in temps),
                                !.primary = IF w[p].fatal \/ k = "fatal" THEN @
                                            ELSE @ \cup {"temp_create_failed"},
                                !.fatal = @ \/ k = "fatal", !.pc = "close"])
    /\ UNCHANGED fs

(* _write_all: short writes are continued.                                  *)
WriteAll(p) ==
    /\ w[p].pc = "write"
    /\ \E k \in Ways({"error", "fatal"}), c \in {"part", "full"} :
         /\ Charge(k) /\ (content[p] = "part" => c = "full")
         /\ content' = [content EXCEPT ![p] = IF k = "ok" THEN c ELSE @]
         /\ Set(p, IF k # "ok" THEN Fail(p, k, "write_failed")
                   ELSE [w[p] EXCEPT !.pc = IF c = "full" THEN "fsync" ELSE "write"])
    /\ UNCHANGED <<dest, temps, safe>>

(* Mutant: the temporary file is not synced before it is linked.            *)
FsyncTempSkipped(p) ==
    /\ w[p].pc = "fsync"
    /\ Set(p, [w[p] EXCEPT !.pc = "fstat"])
    /\ UNCHANGED <<faults, fs>>

(* _fsync_fd of the temporary file.                                         *)
FsyncTemp(p) ==
    /\ w[p].pc = "fsync"
    /\ \E k \in Ways({"error", "fatal"}) :
         /\ Charge(k)
         /\ safe' = IF k = "ok" THEN [safe EXCEPT !.content[p] = content[p]] ELSE safe
         /\ Set(p, IF k # "ok" THEN Fail(p, k, "sync_failed") ELSE [w[p] EXCEPT !.pc = "fstat"])
    /\ UNCHANGED <<dest, temps, content>>

FstatTemp(p) ==
    /\ w[p].pc = "fstat"
    /\ \E k \in Ways({"error", "fatal"}) :
         /\ Charge(k)
         /\ Set(p, IF k # "ok" THEN Fail(p, k, "publish_failed")
                   ELSE [w[p] EXCEPT !.stat = TRUE, !.pc = "link"])
    /\ UNCHANGED fs

(* os.link refuses a destination that is there.                             *)
Link(p) ==
    /\ w[p].pc = "link"
    /\ \E k \in Ways({"error", "error_after", "fatal", "fatal_after"}) :
         LET linked == dest = None /\ Effective(k)
         IN  /\ Charge(k)
             /\ dest' = IF linked THEN p ELSE dest
             /\ Set(p, IF linked /\ k = "ok"
                       THEN [w[p] EXCEPT !.published = TRUE, !.pc = "lstat"]
                       ELSE [w[p] EXCEPT !.fatal = IsFatal(k), !.exists = dest # None,
                                         !.pc = "recover_link"])
    /\ UNCHANGED <<temps, content, safe>>

(* _recover_publish_side_effect: the destination is compared with the inode *)
(* of the temporary file.  What cannot be seen is uncertain.                *)
RecoverLink(p) ==
    /\ w[p].pc = "recover_link"
    /\ \E k \in Ways({"error", "fatal"}) :
         LET here == k = "ok" /\ dest = p
             unsure == k # "ok"
             reason == IF ~here /\ ~unsure /\ w[p].exists THEN "destination_exists" ELSE "publish_failed"
         IN  /\ Charge(k)
             /\ Set(p, [w[p] EXCEPT
                          !.published = here, !.uncertain = unsure,
                          !.primary = IF w[p].fatal \/ k = "fatal" THEN @ ELSE @ \cup {reason},
                          !.fatal = @ \/ k = "fatal",
                          !.pc = IF here /\ ~w[p].fatal THEN "lstat" ELSE "close"])
    /\ UNCHANGED fs

(* The destination is looked at once more after the link.                   *)
LstatDest(p) ==
    /\ w[p].pc = "lstat"
    /\ \E k \in Ways({"error", "fatal"}) :
         /\ Charge(k)
         /\ Set(p, IF k = "ok" /\ dest = p THEN [w[p] EXCEPT !.pc = "close"]
                   ELSE Fail(p, k, "publish_failed"))
    /\ UNCHANGED fs

-----------------------------------------------------------------------------
(* _cleanup_lifecycle: each part is tried whatever became of the others.    *)

(* _attempt_temp_close: once.                                               *)
CloseTemp(p) ==
    /\ w[p].pc = "close"
    /\ \E k \in IF w[p].fdOpen THEN Ways({"error", "fatal"}) ELSE {"ok"} :
         /\ Charge(k)
         /\ Set(p, [w[p] EXCEPT !.closeTried = w[p].fdOpen, !.closed = w[p].fdOpen /\ k = "ok",
                                !.fdOpen = w[p].fdOpen /\ k # "ok",
                                !.fatal = @ \/ k = "fatal", !.pc = "unlink"])
    /\ UNCHANGED fs

(* _attempt_temp_cleanup: a name that is gone is cleaned up; two tries.     *)
UnlinkTemp(p) ==
    /\ w[p].pc = "unlink"
    /\ IF ~w[p].created
       THEN Set(p, [w[p] EXCEPT !.pc = "sync"]) /\ UNCHANGED <<faults, temps>>
       ELSE \E k \in Ways({"error", "fatal", "fatal_after"}) :
              LET tries == w[p].tries + 1
              IN  /\ Charge(k)
                  /\ temps' = IF Effective(k) THEN temps \ {p} ELSE temps
                  /\ Set(p, [w[p] EXCEPT !.tries = tries, !.cleaned = (k = "ok"),
                                         !.fatal = @ \/ IsFatal(k),
                                         !.pc = IF k = "error" /\ tries < UnlinkAttempts
                                                THEN "unlink" ELSE "sync"])
    /\ UNCHANGED <<dest, content, safe>>

(* _attempt_parent_sync, _fsync_directory: makes the names durable.         *)
SyncParent(p) ==
    /\ w[p].pc = "sync"
    /\ IF ~w[p].published /\ ~w[p].uncertain
       THEN Set(p, [w[p] EXCEPT !.pc = "finish"]) /\ UNCHANGED <<faults, safe>>
       ELSE \E k \in Ways({"error", "fatal"}) :
              /\ Charge(k)
              /\ safe' = IF k = "ok" THEN [safe EXCEPT !.dest = dest] ELSE safe
              /\ Set(p, [w[p] EXCEPT !.syncTried = TRUE, !.synced = (k = "ok"),
                                     !.fatal = @ \/ k = "fatal", !.pc = "finish"])
    /\ UNCHANGED <<dest, temps, content>>

(* _build_reason_codes *)
BuildReasonCodes(x) ==
    x.primary
    \cup (IF x.closeTried /\ ~x.closed THEN {"temp_close_failed"} ELSE {})
    \cup (IF x.tries > 0 /\ ~x.cleaned THEN {"temp_cleanup_failed"} ELSE {})
    \cup (IF x.syncTried /\ ~x.synced THEN {"sync_failed"} ELSE {})

(* _finalize *)
Outcome(x) ==
    CASE x.fatal -> "raised"
      [] ~x.fatal /\ x.published /\ x.closed /\ x.cleaned /\ x.synced /\ x.primary = {} -> "written"
      [] ~x.fatal /\ x.published /\ ~(x.closed /\ x.cleaned /\ x.synced /\ x.primary = {}) ->
            "published_incomplete"
      [] ~x.fatal /\ ~x.published /\ x.uncertain -> "publication_uncertain"
      [] OTHER -> "not_written"

Finish(p) ==
    /\ w[p].pc = "finish"
    /\ Set(p, Return(p, Outcome(w[p]), IF w[p].fatal THEN {} ELSE BuildReasonCodes(w[p])))
    /\ UNCHANGED <<faults, fs>>

WriterStep(p) ==
    \/ Preflight(p) \/ CreateTemp(p) \/ RecoverCreate(p) \/ WriteAll(p) \/ FsyncTemp(p)
    \/ FstatTemp(p) \/ Link(p) \/ RecoverLink(p) \/ LstatDest(p)
    \/ CloseTemp(p) \/ UnlinkTemp(p) \/ SyncParent(p) \/ Finish(p)

-----------------------------------------------------------------------------
(* _read.  The size of a file stands for how much of it there is.           *)
Got(p, new) == r' = [r EXCEPT ![p] = new] /\ UNCHANGED <<fs, crashes, foreign, w>>

ReadFailed(p) == [r[p] EXCEPT !.pc = "done", !.outcome = "invalid"]

LstatSource(p) ==
    /\ r[p].pc = "start"
    /\ \E k \in Ways({"error"}) :
         /\ Charge(k)
         /\ Got(p, IF k # "ok" \/ dest = None THEN ReadFailed(p)
                   ELSE [r[p] EXCEPT !.ino = dest, !.pc = "open"])

OpenSource(p) ==
    /\ r[p].pc = "open"
    /\ \E k \in Ways({"error"}) :
         /\ Charge(k)
         /\ Got(p, IF k # "ok" \/ dest = None THEN ReadFailed(p)
                   ELSE [r[p] EXCEPT !.fd = dest, !.pc = "fstat"])

FstatBefore(p) ==
    /\ r[p].pc = "fstat"
    /\ \E k \in Ways({"error"}) :
         /\ Charge(k)
         /\ Got(p, IF k # "ok" \/ r[p].fd # r[p].ino THEN ReadFailed(p)
                   ELSE [r[p] EXCEPT !.size = content[r[p].fd], !.pc = "read"])

(* _read_exact, then the probe for one byte more.                           *)
ReadExact(p) ==
    /\ r[p].pc = "read"
    /\ \E k \in Ways({"error"}) :
         /\ Charge(k)
         /\ Got(p, IF k # "ok" \/ content[r[p].fd] # r[p].size THEN ReadFailed(p)
                   ELSE [r[p] EXCEPT !.got = content[r[p].fd], !.pc = "fstat_after"])

(* The second fstat, the close, and the decoder.                            *)
FstatAfterAndDecode(p) ==
    /\ r[p].pc = "fstat_after"
    /\ \E k \in Ways({"error"}) :
         /\ Charge(k)
         /\ Got(p, IF k # "ok" \/ content[r[p].fd] # r[p].size \/ r[p].got # "full"
                   THEN ReadFailed(p)
                   ELSE [r[p] EXCEPT !.pc = "done", !.outcome = "valid"])

ReaderStep(p) ==
    LstatSource(p) \/ OpenSource(p) \/ FstatBefore(p) \/ ReadExact(p) \/ FstatAfterAndDecode(p)

-----------------------------------------------------------------------------
(* Another program puts a file of its own, a whole artifact or not, at the  *)
(* destination.                                                             *)
ForeignWrite ==
    /\ foreign < MaxForeign
    /\ foreign' = foreign + 1
    /\ dest' = Foreign
    /\ \E c \in {"part", "full"} : content' = [content EXCEPT ![Foreign] = c]
    /\ UNCHANGED <<temps, safe, faults, crashes, w, r>>

(* Power fails: each name and each content that was not synced is there or  *)
(* not; the processes are gone.                                             *)
Crash ==
    /\ crashes < MaxCrashes /\ crashes' = crashes + 1
    /\ dest' \in {dest, safe.dest}
    /\ content' \in {c \in [Inodes -> {"none", "part", "full"}] :
                        \A i \in Inodes : c[i] \in {content[i], safe.content[i]}}
    /\ safe' = [dest |-> dest', content |-> content']
    /\ temps' \in SUBSET temps
    /\ w' = [p \in Writers |-> IF w[p].pc \in {"start", "done"} THEN w[p]
                               ELSE [w[p] EXCEPT !.pc = "done", !.outcome = "crashed"]]
    /\ r' = [p \in Readers |-> IF r[p].pc \in {"start", "done"} THEN r[p] ELSE ReadFailed(p)]
    /\ UNCHANGED <<faults, foreign>>

Next ==
    \/ \E p \in Writers : WriterStep(p)
    \/ \E p \in Readers : ReaderStep(p)
    \/ ForeignWrite \/ Crash

Spec == Init /\ [][Next]_vars

(* The processes go on; nothing makes a call fail, or a foreign program or  *)
(* a power failure come.                                                    *)
FairSpec == Spec /\ (\A p \in Writers : WF_vars(WriterStep(p)))

-----------------------------------------------------------------------------
(* "WRITTEN: ... destination published, temp cleanup complete, parent       *)
(* directory sync confirmed" (..._ARTIFACT_FILE_CONTRACT.md): a file that   *)
(* was reported written is complete at the destination, and still after a   *)
(* power failure, unless a foreign program replaced it.                     *)
WrittenIsDurable ==
    \A p \in Writers : w[p].outcome = "written" =>
        /\ dest = p \/ foreign > 0
        /\ safe.dest = p \/ foreign > 0
        /\ content[p] = "full" /\ safe.content[p] = "full" /\ p \notin temps

(* "published destination never reported NOT_WRITTEN": after any failure or *)
(* interrupt, a writer that says so has not published.  (A power failure    *)
(* that undoes a foreign program's replacement is left out.)                *)
NotWrittenMeansUnpublished ==
    crashes = 0 \/ foreign = 0 => \A p \in Writers : w[p].outcome = "not_written" => dest # p

(* "publish exposes complete canonical bytes only", to a reader and to a    *)
(* machine that comes up after a power failure.                             *)
DestinationComplete == dest \in Writers => content[dest] = "full"

(* "existing destination overwrite 0": no step of a writer or reader        *)
(* changes what the destination names once it names something.              *)
NeverOverwritten ==
    dest # None /\ crashes' = crashes /\ foreign' = foreign => dest' = dest

(* Residue is reported: a temporary name left behind by a writer that       *)
(* returned a result is in its reasons ("cleanup failure visible in reason  *)
(* tuple").                                                                 *)
ResidueReported ==
    \A p \in Writers :
        p \in temps /\ w[p].outcome \in {"written", "published_incomplete",
                                         "publication_uncertain", "not_written"}
        => "temp_cleanup_failed" \in w[p].reasons

(* A reader answers VALID only for a complete artifact that was one and the *)
(* same file when the path was looked at and when it was opened.            *)
ReaderSeesOneFile ==
    \A p \in Readers : r[p].outcome = "valid" =>
        r[p].ino = r[p].fd /\ r[p].got = "full"

=============================================================================
