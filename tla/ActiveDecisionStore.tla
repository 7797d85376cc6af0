------------------------- MODULE ActiveDecisionStore -------------------------
(***************************************************************************)
(* The decision store of the slow loop (src/orchestration/                  *)
(* active_decision_store.py) for one market and one symbol: the append-only *)
(* bundle versions, the pointer to the active one, and the journal of       *)
(* refresh slots.  Every operation is one BEGIN IMMEDIATE transaction, so   *)
(* it is one step whichever process makes it.                               *)
(***************************************************************************)
EXTENDS Naturals, FiniteSets

CONSTANTS
    SlotKey,        \* (session_date, slot_id)
    Candidate,      \* what a runner may hand in
    NoVersion, NoRow, NoToken, NoSlot

VARIABLES
    pointer,    \* active_decision_pointers: a version, or NoVersion
    versions,   \* decision_bundle_versions
    slots,      \* decision_refresh_slots: SlotKey -> row or NoRow
    minted      \* reservation tokens issued; each is uuid4, so fresh

storeVars == <<pointer, versions, slots, minted>>

TerminalSlot == {"PUBLISHED", "FAILED", "MISSED", "MISSED_SESSION_CLOSED", "UNCERTAIN"}

VersionRecord == [cand : Candidate, publishedAt : Nat, by : SlotKey \cup {NoSlot}]

SlotRecord == [state : TerminalSlot \cup {"RESERVED"}, token : Nat \cup {NoToken}, lease : Nat,
               publication : VersionRecord \cup {NoVersion}]

ASSUME RecordConstants ==
    /\ NoVersion \notin VersionRecord /\ NoRow \notin SlotRecord
    /\ NoSlot \notin SlotKey /\ NoToken \notin Nat
    /\ \A c \in Candidate : c.createdAt \in Nat /\ c.expiresAt \in Nat /\ c.valid \in BOOLEAN

(* A version is its candidate, the instant of publication and, as history,  *)
(* the slot it was published for (NoSlot: a publication without a slot).    *)
Version(c, now, k) == [cand |-> c, publishedAt |-> now, by |-> k]

Reserved(token, lease) ==
    [state |-> "RESERVED", token |-> token, lease |-> lease, publication |-> NoVersion]

Finished(row, state, publication) ==
    [row EXCEPT !.state = state, !.publication = publication]

StoreInit ==
    /\ pointer = NoVersion
    /\ versions = {}
    /\ slots = [k \in SlotKey |-> NoRow]
    /\ minted = 0

Consumed(k) == slots[k] # NoRow

IsReserved(k) == Consumed(k) /\ slots[k].state = "RESERVED"

-----------------------------------------------------------------------------
(* Publication.                                                             *)

(* Mutant: two decisions of one instant are not told apart.                 *)
PublicationStatusUnordered(c, now) ==
    IF ~c.valid THEN "REJECTED_INVALID_BUNDLE"
    ELSE IF pointer # NoVersion /\ c = pointer.cand THEN "IDEMPOTENT"
    ELSE IF pointer # NoVersion /\ c.createdAt < pointer.cand.createdAt THEN "REJECTED_OLDER"
    ELSE IF c.expiresAt <= now THEN "REJECTED_EXPIRED"
    ELSE "PUBLISHED"

(* The verdict on a candidate: validation first, then identity and order,   *)
(* then expiry.                                                             *)
PublicationStatus(c, now) ==
    IF ~c.valid THEN "REJECTED_INVALID_BUNDLE"
    ELSE IF pointer # NoVersion /\ c = pointer.cand THEN "IDEMPOTENT"
    ELSE IF pointer # NoVersion /\ c.createdAt = pointer.cand.createdAt THEN "REJECTED_CONFLICT"
    ELSE IF pointer # NoVersion /\ c.createdAt < pointer.cand.createdAt THEN "REJECTED_OLDER"
    ELSE IF c.expiresAt <= now THEN "REJECTED_EXPIRED"
    ELSE "PUBLISHED"

(* The publication_id the result carries into the slot row.                 *)
ResultPublication(c, now, k) ==
    CASE PublicationStatus(c, now) = "PUBLISHED" -> Version(c, now, k)
      [] PublicationStatus(c, now) \in {"IDEMPOTENT", "REJECTED_CONFLICT", "REJECTED_OLDER"} -> pointer
      [] OTHER -> NoVersion

(* The version is inserted and the pointer moved in one transaction.        *)
PublishDecision(c, now, k) ==
    IF PublicationStatus(c, now) = "PUBLISHED"
    THEN /\ versions' = versions \cup {Version(c, now, k)}
         /\ pointer' = Version(c, now, k)
    ELSE UNCHANGED <<versions, pointer>>

(* publish: a publication that belongs to no slot.                          *)
Publish(c, now) ==
    /\ PublishDecision(c, now, NoSlot)
    /\ UNCHANGED <<slots, minted>>

(* _reservation_held *)
ReservationHeld(k, token, now) ==
    IsReserved(k) /\ slots[k].token = token /\ slots[k].lease > now

(* publish_reserved_slot: the reservation is checked, the candidate         *)
(* published or refused, and the slot finished, or nothing happens.         *)
PublishReservedSlot(c, now, k, token) ==
    IF ReservationHeld(k, token, now)
    THEN /\ PublishDecision(c, now, k)
         /\ slots' = [slots EXCEPT ![k] = Finished(@,
                IF PublicationStatus(c, now) \in {"PUBLISHED", "IDEMPOTENT"}
                THEN "PUBLISHED" ELSE "FAILED", ResultPublication(c, now, k))]
         /\ UNCHANGED minted
    ELSE UNCHANGED storeVars

-----------------------------------------------------------------------------
(* The slot journal.                                                        *)

(* Mutant: a reservation whose lease has expired is taken over and run.     *)
ReservationStatusTakeover(k, now) ==
    IF ~Consumed(k) THEN "RESERVED"
    ELSE IF ~IsReserved(k) THEN "ALREADY_TERMINAL"
    ELSE IF slots[k].lease > now THEN "ACTIVE_ELSEWHERE"
    ELSE "RESERVED"

(* What reserve_slot finds.                                                  *)
ReservationStatus(k, now) ==
    IF ~Consumed(k) THEN "RESERVED"
    ELSE IF ~IsReserved(k) THEN "ALREADY_TERMINAL"
    ELSE IF slots[k].lease > now THEN "ACTIVE_ELSEWHERE"
    ELSE "DANGLING_RESERVED"

(* reserve_slot *)
ReserveSlot(k, now, lease) ==
    /\ slots' = [slots EXCEPT ![k] = Reserved(minted + 1, now + lease)]
    /\ minted' = minted + 1
    /\ UNCHANGED <<pointer, versions>>

MayComplete(k, token) == IsReserved(k) /\ slots[k].token = token

(* complete_slot: compare-and-set, without regard to the lease.             *)
CompleteSlot(k, token, state) ==
    /\ slots' = IF MayComplete(k, token)
                THEN [slots EXCEPT ![k] = Finished(@, state, NoVersion)] ELSE slots
    /\ UNCHANGED <<pointer, versions, minted>>

Missed(state) == [state |-> state, token |-> NoToken, lease |-> 0, publication |-> NoVersion]

(* mark_unreserved_terminal: INSERT ... ON CONFLICT DO NOTHING.             *)
MarkUnreservedTerminal(k, state) ==
    /\ slots' = IF Consumed(k) THEN slots ELSE [slots EXCEPT ![k] = Missed(state)]
    /\ UNCHANGED <<pointer, versions, minted>>


LeaseExpired(k, now) == slots[k].lease <= now

(* expired_reservations, among the slots of one date.                       *)
ExpiredReservations(keys, now) ==
    {k \in keys : IsReserved(k) /\ LeaseExpired(k, now)}

MayReconcile(k, now) == IsReserved(k) /\ LeaseExpired(k, now)

(* reconcile_expired_reservation *)
ReconcileExpiredReservation(k, now) ==
    /\ slots' = IF MayReconcile(k, now)
                THEN [slots EXCEPT ![k].state = "UNCERTAIN"] ELSE slots
    /\ UNCHANGED <<pointer, versions, minted>>
-----------------------------------------------------------------------------
(* The active decision is the newest ever published: an older decision, or   *)
(* another one of the same instant, never replaces it.                      *)
PointerIsNewest ==
    /\ versions # {} => pointer # NoVersion
    /\ \A v \in versions : v = pointer \/ v.cand.createdAt < pointer.cand.createdAt
=============================================================================
