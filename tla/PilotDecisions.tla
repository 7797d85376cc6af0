---------------------------- MODULE PilotDecisions ----------------------------
(***************************************************************************)
(* The deterministic publisher of an attended paper day                      *)
(* (DeterministicPaperDecisionPublisher in src/composition/                  *)
(* attended_paper_day.py) on the decision store it alone writes.  Every     *)
(* applied market update calls publish_due, which walks the slots of the    *)
(***************************************************************************)
EXTENDS ActiveDecisionStore, Sequences

CONSTANTS
    SlotTime,       \* the instants of the slots, in order
    Validity,       \* how long a decision lives from its creation
    MaxTime,        \* the end of the session
    MaxRestarts

VARIABLES
    now,
    cursor,     \* the slot publish_due looks at next; 0: no call is running
    published,  \* _published: the slots this process is done with
    restarts,
    gap         \* the process let two slots fall due between two updates

vars == <<pointer, versions, slots, minted, now, cursor, published, restarts, gap>>

PilotSlot == DOMAIN SlotTime

Due(i) == SlotTime[i] <= now

(* _analysis_decision and the TriggerPlan: created and valid from now on.   *)
CandidateFor(i) ==
    [slot |-> i, valid |-> TRUE, createdAt |-> now, expiresAt |-> now + Validity]

Init ==
    /\ StoreInit
    /\ now = 0
    /\ cursor = 0
    /\ published = {}
    /\ restarts = 0
    /\ gap = FALSE

Pass ==
    /\ cursor = 0
    /\ now < MaxTime
    /\ now' = now + 1
    /\ UNCHANGED <<storeVars, cursor, published, restarts, gap>>

(* An update is applied: publish_due begins.                                *)
Update ==
    /\ cursor = 0
    /\ cursor' = 1
    /\ gap' = (gap \/ Cardinality({i \in PilotSlot \ published : Due(i)}) > 1)
    /\ UNCHANGED <<storeVars, now, published, restarts>>

(* Mutant: a slot is published again by every update.                       *)
SlotSkippedNever(i) == ~Due(i)

(* The slot is not due, or this process is done with it.                    *)
SlotSkipped(i) == i \in published \/ ~Due(i)

Advance == cursor' = IF cursor = Len(SlotTime) THEN 0 ELSE cursor + 1

SkipSlot ==
    /\ cursor # 0 /\ SlotSkipped(cursor)
    /\ Advance
    /\ UNCHANGED <<storeVars, now, published, restarts, gap>>

(* The decision is offered to the store, and the slot is done with,         *)
(* whatever the store answered.                                             *)
PublishSlot ==
    /\ cursor # 0 /\ ~SlotSkipped(cursor)
    /\ Publish(CandidateFor(cursor), now)
    /\ published' = published \cup {cursor}
    /\ Advance
    /\ UNCHANGED <<now, restarts, gap>>

(* A new process on the databases of the old (reuse_pilot_db).              *)
Restart ==
    /\ restarts < MaxRestarts
    /\ restarts' = restarts + 1
    /\ published' = {}
    /\ cursor' = 0
    /\ UNCHANGED <<storeVars, now, gap>>

Next == Pass \/ Update \/ SkipSlot \/ PublishSlot \/ Restart

Spec == Init /\ [][Next]_vars

-----------------------------------------------------------------------------
LatestDue == CHOOSE i \in PilotSlot : Due(i) /\ \A j \in PilotSlot : Due(j) => j <= i

(* publish_due returned at this instant, the latest slot included.          *)
CaughtUp == cursor = 0 /\ \E i \in PilotSlot : Due(i) /\ LatestDue \in published

(* A process that is there from the start of the day and applies an update  *)
(* in every interval between two slots has the decision of the latest slot  *)
(* active, once and not renewed by later updates (publish_due).             *)
PunctualFollowsSlots ==
    CaughtUp /\ ~gap /\ restarts = 0 =>
        /\ pointer.cand.slot = LatestDue
        /\ Cardinality({v \in versions : v.cand.slot = LatestDue}) = 1

=============================================================================
